---------------------------- MODULE VerdictProofs ----------------------------
(***************************************************************************)
(* VerdictsAreCurrent as a theorem, for any names, secrets, session ids,   *)
(* policies, installers and lists, of any number and length, and claims of *)
(* any width: first lists, texts and recursions that descend; then the     *)
(* handshakes of the seven authn engines; then the roles, patterns and     *)
(* rules of the authz engines, their installs and the lists they show;     *)
(* then the claim getters' numbers.                                        *)
(***************************************************************************)
EXTENDS MCEdge, FiniteSetTheorems, WellFoundedInduction, TLAPS

-----------------------------------------------------------------------------
\* A set of numbers that has an element has a least one.
LEMMA LeastOf ==
  ASSUME NEW T, T \subseteq Nat, T # {}
  PROVE  \E x \in T : \A y \in T : x <= y
<1> DEFINE Less == {ss \in Nat \X Nat : ss[1] < ss[2]}
<1>1. IsWellFoundedOn(Less, Nat)  BY NatLessThanWellFounded DEF OpToRel
<1>2. PICK x \in T : \A y \in T : ~ (<<y, x>> \in Less)
 <2> HIDE DEF Less
 <2> QED  BY <1>1, WFMin
<1>3. ASSUME NEW y \in T PROVE x <= y
 <2>1. ~(y < x)  BY <1>2
 <2> QED  BY <2>1
<1> QED  BY <1>3

(* Texts: what joins them, and what a separator splits.                    *)
Lists(a, b) == IsList(a) /\ IsList(b)
Same(a, b) == /\ Len(a) = Len(b)
              /\ \A i \in 1..Len(a) : a[i] = b[i]

Joint(a, b, c) ==
  /\ IsList(c) /\ Len(c) = Len(a) + Len(b) /\ Len(a) \in Nat /\ Len(b) \in Nat
  /\ \A i \in 1..Len(a) : c[i] = a[i]
  /\ \A i \in 1..Len(b) : c[Len(a) + i] = b[i]

\* A list is a function on the numbers up to its length.
LEMMA ListFacts ==
  ASSUME NEW s, IsList(s)
  PROVE  Len(s) \in Nat /\ DOMAIN s = 1..Len(s) /\ s = [i \in 1..Len(s) |-> s[i]]
BY DEF IsList

\* Lists of one length that agree everywhere are one list.
LEMMA AlikeLists ==
  ASSUME NEW a, NEW b, Lists(a, b), Same(a, b)
  PROVE  a = b
<1>1. /\ a = [i \in 1..Len(a) |-> a[i]]
      /\ b = [i \in 1..Len(b) |-> b[i]]  BY ListFacts DEF Lists
<1> QED  BY <1>1 DEF Same

\* What a list joined to another holds.
LEMMA Joined ==
  ASSUME NEW a, NEW b, Lists(a, b)
  PROVE  Joint(a, b, a \o b)
<1> DEFINE S == {a[i] : i \in DOMAIN a} \cup {b[i] : i \in DOMAIN b}
<1>1. a \in Seq(S) /\ b \in Seq(S)
 <2>1. ASSUME NEW T, NEW s \in Seq(T), T \subseteq S
       PROVE  s \in Seq(S)
  <3>1. s \in [1..Len(s) -> T] /\ Len(s) \in Nat  BY <2>1
  <3>2. s \in [1..Len(s) -> S]  BY <2>1, <3>1
  <3> QED  BY <3>1, <3>2
 <2> QED  BY <2>1 DEF Lists, IsList
<1> HIDE DEF S
<1>2. /\ a \o b \in Seq(S) /\ Len(a \o b) = Len(a) + Len(b) /\ Len(a) \in Nat /\ Len(b) \in Nat
      /\ \A i \in 1..Len(a) : (a \o b)[i] = a[i]
      /\ \A i \in 1..Len(b) : (a \o b)[Len(a) + i] = b[i]  BY <1>1
<1>3. IsList(a \o b)
 <2> DEFINE c == a \o b
 <2> HIDE DEF c
 <2>1. c \in Seq(S) => c \in Seq({c[i] : i \in DOMAIN c})  OBVIOUS
 <2> QED  BY <1>2, <2>1 DEF IsList, c
<1> QED  BY <1>2, <1>3 DEF Joint

\* What a part of a list holds.
LEMMA Part ==
  ASSUME NEW t, IsList(t), NEW m \in Nat, NEW n \in Nat, 1 <= m, m <= n + 1, n <= Len(t)
  PROVE  /\ IsList(SubSeq(t, m, n)) /\ Len(SubSeq(t, m, n)) = n + 1 - m
         /\ \A i \in 1..(n + 1 - m) : SubSeq(t, m, n)[i] = t[m + i - 1]
<1> DEFINE S == {t[i] : i \in DOMAIN t}
<1>1. t \in Seq(S)  BY DEF IsList
<1>2. Len(t) \in Nat /\ DOMAIN t = 1..Len(t)  BY <1>1
<1> HIDE DEF S
<1> DEFINE c == SubSeq(t, m, n)
<1>3. c = [i \in 1..(n + 1 - m) |-> t[i + m - 1]] /\ Len(c) = n + 1 - m  BY <1>1, <1>2
<1>4. \A i \in 1..(n + 1 - m) : c[i] = t[m + i - 1]
 <2>1. \A i \in 1..(n + 1 - m) : i + m - 1 = m + i - 1  OBVIOUS
 <2> QED  BY <1>3, <2>1
<1>5. IsList(c)
 <2>1. c \in Seq({c[i] : i \in DOMAIN c})
  <3>1. n + 1 - m \in Nat  OBVIOUS
  <3>2. DOMAIN c = 1..(n + 1 - m)  BY <1>3
  <3>3. c \in [1..(n + 1 - m) -> {c[i] : i \in DOMAIN c}]  BY <1>3, <3>2
  <3> HIDE DEF c
  <3> QED  BY <3>1, <3>3
 <2> QED  BY <2>1 DEF IsList
<1> QED  BY <1>3, <1>4, <1>5

\* Lists of one element and of none.
LEMMA OneList ==
  ASSUME NEW x
  PROVE  IsList(<<x>>) /\ Len(<<x>>) = 1 /\ <<x>>[1] = x /\ IsList(<<>>) /\ Len(<<>>) = 0
<1> DEFINE s == <<x>>
<1>1. s \in Seq({s[i] : i \in DOMAIN s})
 <2>1. s = [i \in 1..1 |-> x] /\ DOMAIN s = 1..1  OBVIOUS
 <2> QED  BY <2>1
<1> QED  BY <1>1 DEF IsList

\* The place of the first separator.
PlaceOf(t, mark) == N!SelectInSeq(t, LAMBDA x : x = mark)

\* A text with a mark has a first one.
LEMMA FirstMark ==
  ASSUME NEW t, IsList(t), NEW mark, N!Has(t, mark)
  PROVE  /\ PlaceOf(t, mark) \in 1..Len(t) /\ t[PlaceOf(t, mark)] = mark
         /\ \A i \in 1..Len(t) : t[i] = mark => PlaceOf(t, mark) <= i
<1> DEFINE I == {i \in 1..Len(t) : t[i] = mark}
<1>1. I \subseteq Nat /\ I # {}  BY ListFacts DEF N!Has
<1>2. \E k \in I : \A i \in I : k <= i  BY <1>1, LeastOf
<1>3. PlaceOf(t, mark) = N!Min(I)  BY <1>1 DEF PlaceOf, N!SelectInSeq
<1>4. N!Min(I) \in I /\ \A i \in I : N!Min(I) <= i  BY <1>2 DEF N!Min
<1> QED  BY <1>3, <1>4

\* A text is what is before its first mark, the mark and what is after it.
LEMMA Splits ==
  ASSUME NEW t, IsList(t), NEW mark, N!Has(t, mark)
  PROVE  /\ Lists(N!Before(t, mark), N!After(t, mark))
         /\ t = (N!Before(t, mark) \o <<mark>>) \o N!After(t, mark)
<1> DEFINE k == PlaceOf(t, mark)
           a == N!Before(t, mark)
           b == N!After(t, mark)
           c == (a \o <<mark>>) \o b
<1>1. k \in 1..Len(t) /\ t[k] = mark  BY FirstMark
<1>2. Len(t) \in Nat  BY ListFacts
<1>3. a = SubSeq(t, 1, k - 1) /\ b = SubSeq(t, k + 1, Len(t))  BY DEF N!Before, N!After, PlaceOf
<1> HIDE DEF k, a, b
<1>4. IsList(a) /\ Len(a) = k - 1 /\ \A i \in 1..(k - 1) : a[i] = t[i]
 <2>1. k - 1 \in Nat /\ k - 1 + 1 - 1 = k - 1  BY <1>1, <1>2
 <2>2. /\ IsList(SubSeq(t, 1, k - 1)) /\ Len(SubSeq(t, 1, k - 1)) = k - 1 + 1 - 1
       /\ \A i \in 1..(k - 1 + 1 - 1) : SubSeq(t, 1, k - 1)[i] = t[1 + i - 1]  BY <1>1, <1>2, <2>1, Part
 <2>3. \A i \in 1..(k - 1) : 1 + i - 1 = i  BY <2>1
 <2> QED  BY <2>1, <2>2, <2>3, <1>3
<1>5. IsList(b) /\ Len(b) = Len(t) - k /\ \A i \in 1..(Len(t) - k) : b[i] = t[k + i]
 <2>1. k + 1 \in Nat /\ 1 <= k + 1 /\ k + 1 <= Len(t) + 1 /\ Len(t) + 1 - (k + 1) = Len(t) - k  BY <1>1, <1>2
 <2>2. /\ IsList(SubSeq(t, k + 1, Len(t))) /\ Len(SubSeq(t, k + 1, Len(t))) = Len(t) + 1 - (k + 1)
       /\ \A i \in 1..(Len(t) + 1 - (k + 1)) : SubSeq(t, k + 1, Len(t))[i] = t[(k + 1) + i - 1]
   BY <1>2, <2>1, Part
 <2>3. \A i \in 1..(Len(t) - k) : (k + 1) + i - 1 = k + i  BY <1>1
 <2> QED  BY <2>1, <2>2, <2>3, <1>3
<1>6. /\ IsList(a \o <<mark>>) /\ Len(a \o <<mark>>) = k
      /\ \A i \in 1..(k - 1) : (a \o <<mark>>)[i] = a[i]
      /\ (a \o <<mark>>)[k] = mark
 <2>1. Lists(a, <<mark>>)  BY <1>4, OneList DEF Lists
 <2>3. Joint(a, <<mark>>, a \o <<mark>>)  BY <2>1, Joined
 <2>2. 1 \in 1..Len(<<mark>>) /\ Len(a) + 1 = k /\ Len(<<mark>>) = 1 /\ <<mark>>[1] = mark
   BY <1>1, <1>2, <1>4, OneList
 <2> QED  BY <2>2, <2>3, <1>4 DEF Joint
<1>7. /\ IsList(c) /\ Len(c) = Len(t)
      /\ \A i \in 1..k : c[i] = (a \o <<mark>>)[i]
      /\ \A i \in 1..(Len(t) - k) : c[k + i] = b[i]
 <2>1. Joint(a \o <<mark>>, b, c)  BY <1>5, <1>6, Joined DEF Lists
 <2>2. k + (Len(t) - k) = Len(t)  BY <1>1, <1>2
 <2> HIDE DEF c
 <2> QED  BY <2>1, <2>2, <1>5, <1>6 DEF Joint
<1>8. ASSUME NEW i \in 1..Len(t)
      PROVE  c[i] = t[i]
 <2> HIDE DEF c
 <2>1. CASE i < k
  <3>1. i \in 1..(k - 1) /\ i \in 1..k  BY <2>1, <1>1, <1>2
  <3> QED  BY <3>1, <1>4, <1>6, <1>7
 <2>2. CASE i = k  BY <2>2, <1>1, <1>2, <1>6, <1>7
 <2>3. CASE i > k
  <3>1. i - k \in 1..(Len(t) - k) /\ k + (i - k) = i  BY <2>3, <1>1, <1>2
  <3> QED  BY <3>1, <1>5, <1>7
 <2> QED  BY <2>1, <2>2, <2>3, <1>1, <1>2
<1>9. t = c
 <2> HIDE DEF c
 <2> QED  BY <1>7, <1>8, AlikeLists DEF Lists, Same
<1> QED  BY <1>4, <1>5, <1>9 DEF Lists, a, b

\* A text joined at a mark splits there, when the mark is not before.
LEMMA SplitsAt ==
  ASSUME NEW a, NEW b, NEW mark, Lists(a, b), ~N!Has(a, mark)
  PROVE  LET t == (a \o <<mark>>) \o b
         IN  IsList(t) /\ N!Has(t, mark) /\ N!Before(t, mark) = a /\ N!After(t, mark) = b
<1> DEFINE t == (a \o <<mark>>) \o b
           k == PlaceOf(t, mark)
<1>1. Lists(a, <<mark>>) /\ 1 \in 1..Len(<<mark>>) /\ <<mark>>[1] = mark /\ Len(<<mark>>) = 1  BY OneList DEF Lists
<1>2. /\ IsList(a \o <<mark>>) /\ Len(a \o <<mark>>) = Len(a) + 1 /\ Len(a) \in Nat
      /\ \A i \in 1..Len(a) : (a \o <<mark>>)[i] = a[i]
      /\ (a \o <<mark>>)[Len(a) + 1] = mark
 <2>1. Joint(a, <<mark>>, a \o <<mark>>)  BY <1>1, Joined
 <2> QED  BY <2>1, <1>1 DEF Joint
<1>3. Joint(a \o <<mark>>, b, t)  BY <1>2, Joined DEF Lists
<1>4. /\ IsList(t) /\ Len(t) = Len(a) + 1 + Len(b) /\ Len(b) \in Nat
      /\ \A i \in 1..(Len(a) + 1) : t[i] = (a \o <<mark>>)[i]
      /\ \A i \in 1..Len(b) : t[Len(a) + 1 + i] = b[i]
 <2> HIDE DEF t
 <2> QED  BY <1>2, <1>3 DEF Joint
<1>d. DOMAIN t = 1..Len(t) /\ DOMAIN a = 1..Len(a)  BY <1>4, ListFacts DEF Lists
<1> HIDE DEF t
<1>5. /\ t[Len(a) + 1] = mark /\ Len(a) + 1 \in 1..Len(t)
      /\ \A i \in 1..Len(a) : t[i] = a[i] /\ a[i] # mark
 <2>1. Len(a) + 1 \in 1..(Len(a) + 1) /\ Len(a) + 1 \in 1..Len(t)  BY <1>2, <1>4
 <2>2. ASSUME NEW i \in 1..Len(a)
       PROVE  t[i] = a[i] /\ a[i] # mark
  <3>1. i \in 1..(Len(a) + 1)  BY <1>2
  <3> QED  BY <3>1, <1>2, <1>4, <1>d DEF N!Has
 <2> QED  BY <2>1, <2>2, <1>2, <1>4
<1>6. N!Has(t, mark)  BY <1>5, <1>d DEF N!Has
<1>7. k = Len(a) + 1
 <2>1. k \in 1..Len(t) /\ t[k] = mark /\ \A i \in 1..Len(t) : t[i] = mark => k <= i  BY <1>4, <1>6, FirstMark
 <2>2. k <= Len(a) + 1  BY <2>1, <1>5
 <2>3. ~(k <= Len(a))  BY <2>1, <1>2, <1>4, <1>5
 <2> HIDE DEF k
 <2> QED  BY <2>1, <2>2, <2>3, <1>2, <1>4
<1>8. N!Before(t, mark) = SubSeq(t, 1, Len(a)) /\ N!After(t, mark) = SubSeq(t, Len(a) + 2, Len(t))
 <2>1. (Len(a) + 1) - 1 = Len(a) /\ (Len(a) + 1) + 1 = Len(a) + 2  BY <1>2
 <2>2. N!Before(t, mark) = SubSeq(t, 1, k - 1) /\ N!After(t, mark) = SubSeq(t, k + 1, Len(t))
   BY DEF N!Before, N!After, PlaceOf
 <2> HIDE DEF k
 <2> QED  BY <2>1, <2>2, <1>7
<1>9. SubSeq(t, 1, Len(a)) = a
 <2> DEFINE s == SubSeq(t, 1, Len(a))
 <2>1. Len(a) + 1 - 1 = Len(a) /\ Len(a) <= Len(t) /\ 1 <= Len(a) + 1  BY <1>2, <1>4
 <2>2. IsList(s) /\ Len(s) = Len(a) + 1 - 1 /\ \A i \in 1..(Len(a) + 1 - 1) : s[i] = t[1 + i - 1]
   BY <1>2, <1>4, <2>1, Part
 <2>3. \A i \in 1..Len(a) : 1 + i - 1 = i  BY <1>2
 <2> HIDE DEF s
 <2>4. Lists(s, a) /\ Same(s, a)  BY <2>1, <2>2, <2>3, <1>5 DEF Lists, Same
 <2> QED  BY <2>4, AlikeLists DEF s
<1>10. SubSeq(t, Len(a) + 2, Len(t)) = b
 <2> DEFINE s == SubSeq(t, Len(a) + 2, Len(t))
 <2>1. /\ Len(a) + 2 \in Nat /\ Len(t) \in Nat /\ 1 <= Len(a) + 2 /\ Len(a) + 2 <= Len(t) + 1
       /\ Len(t) + 1 - (Len(a) + 2) = Len(b)  BY <1>2, <1>4
 <2>2. /\ IsList(s) /\ Len(s) = Len(t) + 1 - (Len(a) + 2)
       /\ \A i \in 1..(Len(t) + 1 - (Len(a) + 2)) : s[i] = t[(Len(a) + 2) + i - 1]  BY <1>4, <2>1, Part
 <2>3. \A i \in 1..Len(b) : (Len(a) + 2) + i - 1 = Len(a) + 1 + i  BY <1>2, <1>4
 <2> HIDE DEF s
 <2>4. Lists(s, b) /\ Same(s, b)  BY <2>1, <2>2, <2>3, <1>4, ZenonT(60) DEF Lists, Same
 <2> QED  BY <2>4, AlikeLists DEF s
<1> QED  BY <1>4, <1>6, <1>8, <1>9, <1>10 DEF t

-----------------------------------------------------------------------------
(* A signed credential reads back as what it was made of.                  *)
OnlyLetters(name) == IsList(name) /\ \A i \in DOMAIN name : name[i][1] = "letter"

Signed(kid, secret, at) == N!Digest(secret, kid \o <<N!Dot, N!Time(at)>>)

\* The parts of a credential are told apart.
LEMMA Marks ==
  /\ \A at : N!Time(at) # N!Dot /\ N!Time(at)[1] = "time" /\ N!Time(at)[2] = at
  /\ \A x, y : N!Digest(x, y) # N!Dot /\ N!Digest(x, y)[2] = x /\ N!Digest(x, y)[3] = y
  /\ N!Dot[1] = "letter" /\ N!Dot # N!Colon /\ N!Letter("?") # N!Colon /\ N!Letter("?") # N!Dot
BY DEF N!Time, N!Dot, N!Digest, N!Letter, N!Colon

\* A list of four.
LEMMA Suffix4 ==
  ASSUME NEW w, NEW x, NEW y, NEW z
  PROVE  LET s == <<w, x, y, z>>
         IN  IsList(s) /\ Len(s) = 4 /\ s[1] = w /\ s[2] = x /\ s[3] = y /\ s[4] = z
<1> DEFINE s == <<w, x, y, z>>
<1>1. s \in Seq({s[i] : i \in DOMAIN s})
 <2>1. s = [i \in 1..4 |-> s[i]] /\ DOMAIN s = 1..4 /\ Len(s) = 4  OBVIOUS
 <2> HIDE DEF s
 <2> QED  BY <2>1
<1> QED  BY <1>1 DEF IsList

\* An hmac credential ends in its stamp and signature, dots between.
LEMMA HmacShape ==
  ASSUME NEW kid, IsList(kid), NEW secret, NEW at
  PROVE  LET t == N!HmacCredential(kid, secret, at)
             n == Len(kid)
         IN  /\ IsList(t) /\ Len(t) = n + 4 /\ n \in Nat
             /\ \A i \in 1..n : t[i] = kid[i]
             /\ t[n + 1] = N!Dot /\ t[n + 2] = N!Time(at) /\ t[n + 3] = N!Dot
             /\ t[n + 4] = Signed(kid, secret, at)
<1> DEFINE t == N!HmacCredential(kid, secret, at)
           s == <<N!Dot, N!Time(at), N!Dot, Signed(kid, secret, at)>>
<1>1. t = kid \o s  BY DEF N!HmacCredential, Signed
<1>2. /\ IsList(s) /\ Len(s) = 4 /\ s[1] = N!Dot /\ s[2] = N!Time(at) /\ s[3] = N!Dot
      /\ s[4] = Signed(kid, secret, at)  BY Suffix4
<1> HIDE DEF t, s
<1>3. Joint(kid, s, t)  BY <1>1, <1>2, Joined DEF Lists
<1>4. 1 \in 1..4 /\ 2 \in 1..4 /\ 3 \in 1..4 /\ 4 \in 1..4  OBVIOUS
<1> QED  BY <1>2, <1>3, <1>4 DEF Joint, t

\* Equal hmac credentials are of one key id, secret and stamp.
LEMMA HmacInjective ==
  ASSUME NEW kid, IsList(kid), NEW secret, NEW at, NEW kid2, IsList(kid2), NEW secret2, NEW at2,
         N!HmacCredential(kid, secret, at) = N!HmacCredential(kid2, secret2, at2)
  PROVE  kid = kid2 /\ secret = secret2 /\ at = at2
<1> DEFINE t == N!HmacCredential(kid, secret, at)
<1>1. /\ Len(t) = Len(kid) + 4 /\ Len(kid) \in Nat
      /\ \A i \in 1..Len(kid) : t[i] = kid[i]
      /\ t[Len(kid) + 2] = N!Time(at) /\ t[Len(kid) + 4] = Signed(kid, secret, at)  BY HmacShape
<1>2. /\ Len(t) = Len(kid2) + 4 /\ Len(kid2) \in Nat
      /\ \A i \in 1..Len(kid2) : t[i] = kid2[i]
      /\ t[Len(kid2) + 2] = N!Time(at2) /\ t[Len(kid2) + 4] = Signed(kid2, secret2, at2)  BY HmacShape
<1> HIDE DEF t
<1>3. Len(kid) = Len(kid2)  BY <1>1, <1>2
<1>4. kid = kid2  BY <1>1, <1>2, <1>3, AlikeLists DEF Lists, Same
<1>5. at = at2  BY <1>1, <1>2, <1>3, Marks
<1>6. secret = secret2  BY <1>1, <1>2, <1>3, Marks DEF Signed
<1> QED  BY <1>4, <1>5, <1>6

\* The credential of a key id without dots reads back.
LEMMA PlainParses ==
  ASSUME NEW kid, IsList(kid), kid # <<>>, ~N!Has(kid, N!Dot), NEW secret, NEW at
  PROVE  LET t == N!HmacCredential(kid, secret, at)
         IN  /\ N!Structured(t) /\ N!KeyId(t) = kid /\ N!Stamp(t) = <<N!Time(at)>>
             /\ N!Stamp(t)[1][2] = at
             /\ N!Signature(t) = <<Signed(kid, secret, at)>>
<1> DEFINE t == N!HmacCredential(kid, secret, at)
           sig == Signed(kid, secret, at)
           b == (<<N!Time(at)>> \o <<N!Dot>>) \o <<sig>>
           u == (kid \o <<N!Dot>>) \o b
<1>1. Lists(<<N!Time(at)>>, <<sig>>) /\ ~N!Has(<<N!Time(at)>>, N!Dot)  BY OneList, Marks DEF Lists, N!Has
<1>2. IsList(b) /\ N!Has(b, N!Dot) /\ N!Before(b, N!Dot) = <<N!Time(at)>> /\ N!After(b, N!Dot) = <<sig>>
  BY <1>1, SplitsAt
<1>4. Len(b) = 3 /\ b[1] = N!Time(at) /\ b[2] = N!Dot /\ b[3] = sig
 <2> DEFINE c == <<N!Time(at)>> \o <<N!Dot>>
 <2>1. Joint(<<N!Time(at)>>, <<N!Dot>>, c)  BY OneList, Joined DEF Lists
 <2>2. Joint(c, <<sig>>, b)  BY <2>1, OneList, Joined DEF Lists, Joint
 <2> HIDE DEF c, b
 <2>3. 1 \in 1..1 /\ 1 \in 1..2 /\ 2 \in 1..2 /\ 1 + 1 = 2 /\ 2 + 1 = 3  OBVIOUS
 <2>4. Len(c) = 2 /\ c[1] = N!Time(at) /\ c[2] = N!Dot  BY <2>1, <2>3, OneList DEF Joint
 <2> QED  BY <2>2, <2>3, <2>4, OneList DEF Joint
<1> HIDE DEF b
<1>5. IsList(u) /\ N!Has(u, N!Dot) /\ N!Before(u, N!Dot) = kid /\ N!After(u, N!Dot) = b  BY <1>2, SplitsAt DEF Lists
<1>6. t = u
 <2>1. Joint(kid, <<N!Dot>>, kid \o <<N!Dot>>)  BY OneList, Joined DEF Lists
 <2>2. Joint(kid \o <<N!Dot>>, b, u)  BY <1>2, <2>1, Joined DEF Lists, Joint
 <2>3. /\ IsList(t) /\ Len(t) = Len(kid) + 4 /\ Len(kid) \in Nat
       /\ \A i \in 1..Len(kid) : t[i] = kid[i]
       /\ t[Len(kid) + 1] = N!Dot /\ t[Len(kid) + 2] = N!Time(at) /\ t[Len(kid) + 3] = N!Dot
       /\ t[Len(kid) + 4] = sig  BY HmacShape
 <2>4. Len(kid \o <<N!Dot>>) = Len(kid) + 1 /\ (kid \o <<N!Dot>>)[Len(kid) + 1] = N!Dot  BY <2>1, OneList DEF Joint
 <2> HIDE DEF t, u, sig
 <2>5. /\ Len(u) = Len(kid) + 4 /\ IsList(u)
       /\ u[Len(kid) + 1] = N!Dot
       /\ u[Len(kid) + 2] = N!Time(at) /\ u[Len(kid) + 3] = N!Dot /\ u[Len(kid) + 4] = sig
  <3>1. 1 \in 1..3 /\ 2 \in 1..3 /\ 3 \in 1..3 /\ Len(kid) + 1 \in 1..(Len(kid) + 1)  BY <2>3
  <3>2. u[(Len(kid) + 1) + 1] = b[1] /\ u[(Len(kid) + 1) + 2] = b[2] /\ u[(Len(kid) + 1) + 3] = b[3]
    BY <2>2, <2>4, <3>1, <1>4 DEF Joint
  <3>3. u[Len(kid) + 1] = N!Dot /\ Len(u) = (Len(kid) + 1) + 3 /\ IsList(u)  BY <2>2, <2>4, <3>1, <1>4 DEF Joint
  <3>4. /\ (Len(kid) + 1) + 1 = Len(kid) + 2 /\ (Len(kid) + 1) + 2 = Len(kid) + 3
        /\ (Len(kid) + 1) + 3 = Len(kid) + 4  BY <2>3
  <3> QED  BY <3>2, <3>3, <3>4, <1>4
 <2>6. \A i \in 1..Len(kid) : u[i] = kid[i]
  <3> TAKE i \in 1..Len(kid)
  <3>1. i \in 1..Len(kid \o <<N!Dot>>)  BY <2>3, <2>4
  <3> QED  BY <3>1, <2>1, <2>2 DEF Joint
 <2>7. ASSUME NEW i \in 1..Len(t)
       PROVE  t[i] = u[i]
  <3>1. i \in 1..Len(kid) \/ i = Len(kid) + 1 \/ i = Len(kid) + 2 \/ i = Len(kid) + 3 \/ i = Len(kid) + 4  BY <2>3
  <3> QED  BY <3>1, <2>3, <2>5, <2>6
 <2> QED  BY <2>3, <2>5, <2>7, AlikeLists DEF Lists, Same
<1> HIDE DEF t, u, sig
<1>7. N!KeyId(t) = kid /\ N!Stamp(t) = <<N!Time(at)>> /\ N!Signature(t) = <<sig>>
  BY <1>2, <1>5, <1>6 DEF N!KeyId, N!Stamp, N!Signature
<1>8. N!Structured(t)  BY <1>2, <1>5, <1>6, <1>7, Marks DEF N!Structured
<1> QED  BY <1>7, <1>8, Marks DEF t, sig

\* The credential of a key id with a dot does not parse: the stamp is
\* looked for among the letters of the id.
LEMMA DotsNeverParse ==
  ASSUME NEW kid, OnlyLetters(kid), N!Has(kid, N!Dot), NEW secret, NEW at
  PROVE  ~N!Structured(N!HmacCredential(kid, secret, at))
<1> DEFINE t == N!HmacCredential(kid, secret, at)
           a == N!Before(t, N!Dot)
           b == N!After(t, N!Dot)
           n == Len(kid)
           k == PlaceOf(t, N!Dot)
<1> SUFFICES ASSUME N!Structured(t)
             PROVE  FALSE  OBVIOUS
<1>1. /\ IsList(t) /\ Len(t) = n + 4 /\ n \in Nat
      /\ \A i \in 1..n : t[i] = kid[i]
      /\ t[n + 1] = N!Dot  BY HmacShape DEF OnlyLetters
<1>2. N!Has(t, N!Dot) /\ N!Has(b, N!Dot) /\ N!Before(b, N!Dot) # <<>> /\ N!Before(b, N!Dot)[1][1] = "time"
  BY DEF N!Structured, N!Stamp
<1>3. /\ k \in 1..Len(t) /\ t[k] = N!Dot
      /\ \A i \in 1..Len(t) : t[i] = N!Dot => k <= i  BY <1>1, <1>2, FirstMark
<1>4. k <= n
 <2>1. PICK i \in 1..n : kid[i] = N!Dot  BY ListFacts DEF N!Has, OnlyLetters
 <2>2. i \in 1..Len(t)  BY <1>1
 <2> QED  BY <2>1, <2>2, <1>1, <1>3
<1>5. IsList(b) /\ b[1] = t[k + 1] /\ Len(b) >= 1
 <2>1. b = SubSeq(t, k + 1, Len(t))  BY DEF N!After, PlaceOf
 <2>2. /\ k + 1 \in Nat /\ Len(t) \in Nat /\ 1 <= k + 1 /\ k + 1 <= Len(t) + 1
       /\ Len(t) + 1 - (k + 1) >= 1 /\ (k + 1) + 1 - 1 = k + 1  BY <1>1, <1>3, <1>4
 <2> HIDE DEF k, b, t
 <2>3. /\ IsList(b) /\ Len(b) = Len(t) + 1 - (k + 1)
       /\ \A i \in 1..(Len(t) + 1 - (k + 1)) : b[i] = t[(k + 1) + i - 1]  BY <2>1, <2>2, <1>1, Part, SMTT(60)
 <2>4. 1 \in 1..(Len(t) + 1 - (k + 1))  BY <2>2
 <2> QED  BY <2>2, <2>3, <2>4
<1>6. t[k + 1][1] = "letter"
 <2>1. CASE k = n  BY <2>1, <1>1, Marks
 <2>2. CASE k < n
  <3>1. k + 1 \in 1..n  BY <2>2, <1>1, <1>3
  <3> QED  BY <3>1, <1>1, ListFacts DEF OnlyLetters
 <2> QED  BY <2>1, <2>2, <1>1, <1>3, <1>4
<1>7. N!Before(b, N!Dot)[1] = b[1]
 <2> DEFINE d == PlaceOf(b, N!Dot)
 <2> HIDE DEF t, k, b
 <2>1. d \in 1..Len(b)  BY <1>2, <1>5, FirstMark
 <2>2. N!Before(b, N!Dot) = SubSeq(b, 1, d - 1)  BY DEF N!Before, PlaceOf
 <2> DEFINE j == d - 1
            c == SubSeq(b, 1, j)
 <2>3. Len(b) \in Nat /\ j \in Nat /\ j <= Len(b)  BY <2>1, <1>5, ListFacts
 <2> HIDE DEF d, j
 <2>4. IsList(c) /\ Len(c) = j /\ \A i \in 1..j : c[i] = b[1 + i - 1]
  <3>1. j + 1 - 1 = j /\ 1 <= j + 1  BY <2>3
  <3>2. /\ IsList(SubSeq(b, 1, j)) /\ Len(SubSeq(b, 1, j)) = j + 1 - 1
        /\ \A i \in 1..(j + 1 - 1) : SubSeq(b, 1, j)[i] = b[1 + i - 1]  BY <2>3, <3>1, <1>5, Part
  <3> QED  BY <3>1, <3>2
 <2>5. N!Before(b, N!Dot) = c  BY <2>2 DEF j
 <2> HIDE DEF c
 <2>6. j # 0
  <3> SUFFICES ASSUME j = 0
               PROVE  c = <<>>  BY <1>2, <2>5
  <3>1. Lists(c, <<>>) /\ Same(c, <<>>)  BY <2>4, OneList DEF Lists, Same
  <3> QED  BY <3>1, AlikeLists
 <2>7. 1 \in 1..j /\ 1 + 1 - 1 = 1  BY <2>3, <2>6
 <2> QED  BY <2>4, <2>5, <2>7
<1> QED  BY <1>2, <1>5, <1>6, <1>7

-----------------------------------------------------------------------------
(* What the engines mint, what a request may carry, and what its answer    *)
(* rests on.                                                               *)
Foreign == <<N!Token("RS256", "foreign", <<>>, 0, MaxNow)>>
Presented == {m.credential : m \in minted} \cup {<<>>, N!Garbage, Foreign}

Genuine(m) ==
  /\ options.kind = "hmac" =>
       /\ m.sub \in Names /\ m.sub # <<>> /\ m.secret # None /\ m.at \in Int
       /\ m.credential = N!HmacCredential(m.sub, m.secret, m.at)
  /\ options.kind = "basicauth" => IsList(m.credential)
  /\ options.kind = "jwt" =>
       /\ options.enc # None /\ N!Family(options.enc) = N!Family(options.alg)
       /\ \E nbf, exp \in Int : m.credential = <<N!Token(options.alg, options.enc, m.sub, nbf, exp)>>

ProvedAt(m) == N!Proves(handshake.token, m[1][1], m[1][2], m[2])
Plainly(names) == \A name \in names : ~N!Separates(name)
Moments == handshake.saw \X handshake.times
Right ==
  (\A m \in Moments : Plainly(ProvedAt(m))) =>
    IF handshake.verdict = "continue"
    THEN \E m \in Moments : handshake.result.sub \in ProvedAt(m)
    ELSE \E m \in Moments : ProvedAt(m) = {}

MintInv ==
  /\ options \in N!Options /\ source \in N!Tables /\ now \in Nat
  /\ \A m \in minted : Genuine(m)

Fields == {"pc", "token", "result", "verdict", "times", "saw"}

RequestOK ==
  /\ DOMAIN handshake = Fields /\ handshake.times \subseteq Int
  /\ handshake.pc \in {"idle", "check", "resolve", "answered"}
  /\ handshake.pc # "idle" => handshake.token \in Presented
  /\ N!Running => <<source, store>> \in handshake.saw /\ now \in handshake.times
  /\ handshake.pc = "resolve" =>
       /\ options.kind = "hmac" /\ N!Structured(handshake.token)
       /\ \E at \in handshake.times : N!Distance(at, N!Stamp(handshake.token)[1][2]) <= MaxSkew

HandshakeInv ==
  /\ MintInv /\ RequestOK
  /\ handshake.pc = "answered" /\ handshake.token # <<>> => Right

\* What HandshakeAssumption says of names, secrets and times.
LEMMA NamesAreLetters ==
  /\ \A name \in Names : OnlyLetters(name)
  /\ \A secret \in Secrets : IsList(secret)
  /\ MaxNow \in Nat /\ MaxSkew \in Nat
BY HandshakeAssumption DEF OnlyLetters

\* What an engine may be, and which fields its options have.
LEMMA Kinds ==
  ASSUME options \in N!Options
  PROVE  /\ options.kind \in {"hmac", "basicauth", "apikey", "presharedkey", "session", "noop", "jwt"}
         /\ options.kind \in {"hmac", "basicauth", "apikey"} => options.live \in BOOLEAN
         /\ options.kind \in {"hmac", "basicauth", "apikey", "presharedkey"} => options.table \in N!Tables
         /\ options.kind = "jwt" => options.alg \in {"HS256", "EdDSA"}
BY DEF N!Options, N!HmacOptions, N!BasicAuthOptions, N!ApiKeyOptions, N!PresharedKeyOptions,
       N!SessionOptions, N!NoopOptions, N!JwtOptions, N!ParseAlgorithm

\* A text of a signed credential is none of the made-up ones.
LEMMA MadeUpIsNotSigned ==
  ASSUME NEW kid, IsList(kid), NEW secret, NEW at
  PROVE  N!HmacCredential(kid, secret, at) \notin {<<>>, N!Garbage, Foreign}
<1>1. Len(N!HmacCredential(kid, secret, at)) = Len(kid) + 4 /\ Len(kid) \in Nat  BY HmacShape
<1>2. Len(N!Garbage) = 1 /\ Len(Foreign) = 1
 <2>1. \A x : Len(<<x>>) = 1  BY OneList
 <2> QED  BY <2>1 DEF N!Garbage, Foreign
<1>3. Len(<<>>) = 0  BY OneList
<1>4. \A x \in {<<>>, N!Garbage, Foreign} : Len(x) = 0 \/ Len(x) = 1  BY <1>2, <1>3, Zenon
<1>5. ~(Len(N!HmacCredential(kid, secret, at)) = 0 \/ Len(N!HmacCredential(kid, secret, at)) = 1)  BY <1>1
<1> QED  BY <1>4, <1>5, Zenon

\* A signed token is neither made-up text nor one of another issuer.
LEMMA TokensAreTokens ==
  ASSUME NEW alg \in {"HS256", "EdDSA"}, NEW key, NEW sub, NEW nbf, NEW exp
  PROVE  <<N!Token(alg, key, sub, nbf, exp)>> \notin {<<>>, N!Garbage, Foreign}
<1> DEFINE t == <<N!Token(alg, key, sub, nbf, exp)>>
<1>1. t[1][1] = "jwt" /\ t[1][2] = alg /\ Len(t) = 1  BY DEF N!Token
<1>2. N!Garbage[1][1] = "letter" /\ Foreign[1][2] = "RS256" /\ Len(<<>>) = 0
  BY DEF N!Garbage, N!Letter, Foreign, N!Token
<1> HIDE DEF t
<1> QED  BY <1>1, <1>2 DEF t

\* Later mints prove nothing more of a text that was presented before.
LEMMA LaterMints ==
  ASSUME MintInv, options' = options, minted \subseteq minted', \A m \in minted' : Genuine(m),
         NEW t \in Presented, NEW table, NEW sessions, NEW at
  PROVE  N!Proves(t, table, sessions, at)' = N!Proves(t, table, sessions, at)
<1>1. CASE options.kind = "hmac"
 <2> DEFINE Fits(m) == /\ m.credential = t /\ m.secret = N!InForce(table)[m.sub]
                       /\ at \in m.at - MaxSkew .. m.at + MaxSkew
 <2>1. N!Proves(t, table, sessions, at) = {m.sub : m \in {m \in minted : Fits(m)}}  BY <1>1 DEF N!Proves
 <2>2. N!Proves(t, table, sessions, at)' = {m.sub : m \in {m \in minted' : Fits(m)}}
   BY <1>1 DEF N!Proves, N!InForce
 <2>3. ASSUME NEW x \in minted', Fits(x)
       PROVE  \E m \in minted : Fits(m) /\ m.sub = x.sub
  <3>1. t = N!HmacCredential(x.sub, x.secret, x.at) /\ IsList(x.sub)
    BY <1>1, <2>3, NamesAreLetters DEF Genuine, OnlyLetters
  <3>2. PICK m \in minted : m.credential = t  BY <3>1, MadeUpIsNotSigned DEF Presented
  <3>3. t = N!HmacCredential(m.sub, m.secret, m.at) /\ IsList(m.sub)
    BY <1>1, <3>2, NamesAreLetters DEF Genuine, OnlyLetters, MintInv
  <3>4. N!HmacCredential(x.sub, x.secret, x.at) = N!HmacCredential(m.sub, m.secret, m.at)  BY <3>1, <3>3
  <3>5. m.sub = x.sub /\ m.secret = x.secret /\ m.at = x.at  BY <3>1, <3>3, <3>4, HmacInjective
  <3> QED  BY <2>3, <3>2, <3>5
 <2> HIDE DEF Fits
 <2> QED  BY <2>1, <2>2, <2>3
<1>2. CASE options.kind = "jwt"
 <2> DEFINE Fits(m) == m.credential = t /\ options.dec = options.enc /\ at \in t[1][5] .. t[1][6]
 <2>1. N!Proves(t, table, sessions, at) = {m.sub : m \in {m \in minted : Fits(m)}}  BY <1>2 DEF N!Proves
 <2>2. N!Proves(t, table, sessions, at)' = {m.sub : m \in {m \in minted' : Fits(m)}}  BY <1>2 DEF N!Proves
 <2>3. ASSUME NEW x \in minted', Fits(x)
       PROVE  \E m \in minted : Fits(m) /\ m.sub = x.sub
  <3>1. PICK nbf, exp \in Int : t = <<N!Token(options.alg, options.enc, x.sub, nbf, exp)>>
    BY <1>2, <2>3 DEF Genuine
  <3>2. PICK m \in minted : m.credential = t  BY <1>2, <3>1, TokensAreTokens, Kinds DEF Presented, MintInv
  <3>3. PICK nbf2, exp2 \in Int : t = <<N!Token(options.alg, options.enc, m.sub, nbf2, exp2)>>
    BY <1>2, <3>2 DEF Genuine, MintInv
  <3>4. m.sub = x.sub  BY <3>1, <3>3 DEF N!Token
  <3> QED  BY <2>3, <3>2, <3>4
 <2> HIDE DEF Fits
 <2> QED  BY <2>1, <2>2, <2>3
<1>3. CASE options.kind \notin {"hmac", "jwt"}
  BY <1>3, Kinds, ZenonT(60) DEF N!Proves, N!InForce, N!Preshared, MintInv
<1> QED  BY <1>1, <1>2, <1>3

\* A right answer stays right while nothing it rests on is taken back.
LEMMA RightStays ==
  ASSUME HandshakeInv, handshake.pc = "answered", handshake' = handshake,
         options' = options, minted \subseteq minted', \A m \in minted' : Genuine(m)
  PROVE  handshake'.token # <<>> => Right'
<1> SUFFICES ASSUME handshake.token # <<>>
             PROVE  Right'  OBVIOUS
<1>1. Right /\ handshake.token \in Presented  BY DEF HandshakeInv, RequestOK
<1>2. \A m : ProvedAt(m)' = ProvedAt(m)
 <2> TAKE m
 <2>1. PICK t : t = handshake.token  OBVIOUS
 <2>2. N!Proves(t, m[1][1], m[1][2], m[2])' = N!Proves(t, m[1][1], m[1][2], m[2])
   BY <1>1, <2>1, LaterMints DEF HandshakeInv
 <2>3. ProvedAt(m)' = N!Proves(t, m[1][1], m[1][2], m[2])'  BY <2>1 DEF ProvedAt
 <2> QED  BY <2>1, <2>2, <2>3 DEF ProvedAt
<1>3. Moments' = Moments  BY DEF Moments
<1>4. \A names : Plainly(names)' = Plainly(names)  BY DEF Plainly, N!Separates
<1> QED  BY <1>1, <1>2, <1>3, <1>4 DEF Right

-----------------------------------------------------------------------------
(* A verdict is right at a moment: an engine that finds a subject is shown *)
(* what proves it, and one that finds none is shown nothing that would.    *)
RightAt(found, names) ==
  IF found.err = "none" THEN found.sub \in names ELSE Plainly(names) => names = {}

NowProved(t) == N!Proves(t, source, store, now)

\* The fields of a result.
LEMMA Results ==
  /\ \A sub : N!Ok(sub).err = "none" /\ N!Ok(sub).sub = sub
  /\ \A e : N!Err(e).err = e
BY DEF N!Ok, N!Err

\* An engine looks a name up in the table in force, and finds names only.
LEMMA TableKnowsNames ==
  ASSUME MintInv, options.kind \in {"hmac", "basicauth", "apikey"}, NEW name
  PROVE  /\ N!Lookup(name) # None => name \in Names
         /\ name \in Names => N!Lookup(name) = N!InForce(source)[name]
         /\ name \in Names => N!InForce(source)[name] \in Secrets \cup {None}
<1>1. options.live \in BOOLEAN /\ options.table \in N!Tables /\ source \in N!Tables  BY Kinds DEF MintInv
<1> QED  BY <1>1 DEF N!Lookup, N!InForce, N!Tables

\* The jwt engine finds the subject of a token it could have minted.
LEMMA JwtRight ==
  ASSUME MintInv, options.kind = "jwt", NEW t \in Presented
  PROVE  RightAt(N!JwtVerdict(t), NowProved(t))
<1> DEFINE Fits(m) == m.credential = t /\ options.dec = options.enc /\ now \in t[1][5] .. t[1][6]
<1>1. NowProved(t) = {m.sub : m \in {m \in minted : Fits(m)}}  BY DEF NowProved, N!Proves
<1>2. now \in Int /\ options.alg \in {"HS256", "EdDSA"} /\ \A m \in minted : Genuine(m)  BY Kinds DEF MintInv
<1>3. ASSUME N!JwtVerdict(t).err = "none"
      PROVE  N!JwtVerdict(t).sub \in NowProved(t)
 <2>1. options.dec # None /\ N!Decode(t) = "none" /\ N!JwtVerdict(t).sub = t[1][4]
   BY <1>3 DEF N!JwtVerdict, N!Ok, N!Err
 <2>2. /\ Len(t) = 1 /\ t[1][1] = "jwt" /\ t[1][2] = options.alg /\ t[1][3] = options.dec
       /\ ~(t[1][6] < now) /\ ~(t[1][5] > now)  BY <2>1 DEF N!Decode
 <2>3. t \notin {<<>>, N!Garbage, Foreign}
  <3>1. N!Garbage[1][1] = "letter" /\ Foreign[1][2] = "RS256"  BY DEF N!Garbage, N!Letter, Foreign, N!Token
  <3>2. Len(<<>>) = 0  BY OneList
  <3> QED  BY <3>1, <3>2, <2>2, <1>2
 <2>4. PICK m \in minted : m.credential = t  BY <2>3 DEF Presented
 <2>5. PICK nbf, exp \in Int : t = <<N!Token(options.alg, options.enc, m.sub, nbf, exp)>>
   BY <1>2, <2>4 DEF Genuine
 <2>6. t[1][3] = options.enc /\ t[1][4] = m.sub /\ t[1][5] = nbf /\ t[1][6] = exp  BY <2>5 DEF N!Token
 <2>7. Fits(m)  BY <2>2, <2>4, <2>6, <1>2
 <2> QED  BY <1>1, <2>1, <2>6, <2>7
<1>4. ASSUME N!JwtVerdict(t).err # "none"
      PROVE  NowProved(t) = {}
 <2> SUFFICES ASSUME NEW m \in minted, Fits(m)
              PROVE  FALSE  BY <1>1
 <2>1. /\ options.enc # None /\ N!Family(options.enc) = N!Family(options.alg)
       /\ \E nbf, exp \in Int : m.credential = <<N!Token(options.alg, options.enc, m.sub, nbf, exp)>>
   BY <1>2 DEF Genuine
 <2>2. PICK nbf, exp \in Int : t = <<N!Token(options.alg, options.enc, m.sub, nbf, exp)>>  BY <2>1
 <2>3. /\ t[1][1] = "jwt" /\ t[1][2] = options.alg /\ t[1][3] = options.enc /\ t[1][5] = nbf /\ t[1][6] = exp
       /\ Len(t) = 1  BY <2>2 DEF N!Token
 <2>4. N!Decode(t) = "none"  BY <2>1, <2>3, <1>2 DEF N!Decode
 <2>5. N!JwtVerdict(t) = N!Ok(t[1][4])  BY <2>1, <2>4 DEF N!JwtVerdict
 <2> QED  BY <2>5, <1>4, Results
<1> QED  BY <1>3, <1>4 DEF RightAt

\* The basicauth engine finds the name whose password the text holds.
LEMMA BasicRight ==
  ASSUME MintInv, options.kind = "basicauth", NEW t, IsList(t)
  PROVE  RightAt(N!BasicVerdict(t), NowProved(t))
<1> DEFINE live == N!InForce(source)
           Fits(name) == live[name] # None /\ t = name \o <<N!Colon>> \o live[name]
           a == N!Before(t, N!Colon)
           b == N!After(t, N!Colon)
<1>1. NowProved(t) = {name \in Names : Fits(name)}  BY DEF NowProved, N!Proves
<1>2. \A name : /\ N!Lookup(name) # None => name \in Names
                /\ name \in Names => N!Lookup(name) = live[name] /\ live[name] \in Secrets \cup {None}
  BY TableKnowsNames
<1> HIDE DEF live
<1>3. ASSUME NEW name \in Names, Fits(name)
      PROVE  t # N!Garbage /\ N!Has(t, N!Colon)
 <2>1. Lists(name, live[name])  BY <1>2, <1>3, NamesAreLetters DEF Lists, OnlyLetters
 <2>2. Joint(name, <<N!Colon>>, name \o <<N!Colon>>)  BY <2>1, OneList, Joined DEF Lists
 <2>3. Joint(name \o <<N!Colon>>, live[name], t)  BY <2>1, <2>2, <1>3, Joined DEF Lists, Joint
 <2>4. t[Len(name) + 1] = N!Colon /\ Len(name) + 1 \in 1..Len(t) /\ Len(t) >= Len(name) + 1 /\ Len(name) \in Nat
  <3> DEFINE w == name \o <<N!Colon>>
  <3>1. 1 \in 1..1 /\ Len(<<N!Colon>>) = 1 /\ <<N!Colon>>[1] = N!Colon  BY OneList
  <3> HIDE DEF w
  <3>2. Len(name) \in Nat /\ Len(w) = Len(name) + 1 /\ w[Len(name) + 1] = N!Colon  BY <2>2, <3>1 DEF Joint, w
  <3>3. /\ Len(t) = Len(w) + Len(live[name]) /\ Len(live[name]) \in Nat
        /\ \A i \in 1..Len(w) : t[i] = w[i]  BY <2>3 DEF Joint, w
  <3>4. Len(name) + 1 \in 1..Len(w)  BY <3>2
  <3>5. Len(t) = Len(name) + 1 + Len(live[name])  BY <3>2, <3>3
  <3>6. t[Len(name) + 1] = N!Colon  BY <3>2, <3>3, <3>4
  <3>7. \A x, y, z \in Nat : z = x + 1 + y => x + 1 \in 1..z /\ z >= x + 1  OBVIOUS
  <3>8. Len(name) \in Nat /\ Len(live[name]) \in Nat /\ Len(t) \in Nat
   <4>1. Len(name) \in Nat /\ Len(live[name]) \in Nat  BY <3>2, <3>3, Zenon
   <4>2. \A x, y \in Nat : x + 1 + y \in Nat  OBVIOUS
   <4> QED  BY <3>5, <4>1, <4>2, Zenon
  <3>9. Len(name) + 1 \in 1..Len(t) /\ Len(t) >= Len(name) + 1  BY <3>5, <3>7, <3>8, Zenon
  <3> QED  BY <3>2, <3>6, <3>9, Zenon
 <2>5. N!Has(t, N!Colon)
  <3>1. IsList(t) /\ DOMAIN t = 1..Len(t)  BY <2>3, ListFacts DEF Joint
  <3>2. Len(name) + 1 \in DOMAIN t  BY <2>4, <3>1, Zenon
  <3> QED  BY <2>4, <3>2, Zenon DEF N!Has
 <2>6. N!Garbage[1] # N!Colon /\ DOMAIN N!Garbage = {1}  BY Marks DEF N!Garbage
 <2>7. ~N!Has(N!Garbage, N!Colon)  BY <2>6, Zenon DEF N!Has
 <2> QED  BY <2>5, <2>7, Zenon
<1>4. CASE t = N!Garbage \/ ~N!Has(t, N!Colon)  BY <1>1, <1>3, <1>4, Results DEF N!BasicVerdict, RightAt
<1>5. CASE ~(t = N!Garbage \/ ~N!Has(t, N!Colon))
 <2>1. Lists(a, b) /\ t = a \o <<N!Colon>> \o b  BY <1>5, Splits
 <2> HIDE DEF a, b
 <2>2. CASE N!Lookup(a) # None /\ N!Lookup(a) = b
  <3>1. N!BasicVerdict(t) = N!Ok(a)  BY <1>5, <2>2 DEF N!BasicVerdict, a, b
  <3>2. a \in Names /\ Fits(a)  BY <2>1, <2>2, <1>2
  <3> QED  BY <3>1, <3>2, <1>1, Results DEF RightAt
 <2>3. CASE ~(N!Lookup(a) # None /\ N!Lookup(a) = b)
  <3>1. N!BasicVerdict(t) = N!Err("Unauthenticated")  BY <1>5, <2>3 DEF N!BasicVerdict, a, b
  <3>2. ASSUME NEW name \in Names, Fits(name), ~N!Separates(name)
        PROVE  FALSE
   <4>1. ~N!Has(name, N!Colon) /\ Lists(name, live[name])
     BY <1>2, <3>2, NamesAreLetters DEF Lists, OnlyLetters, N!Separates
   <4>2. a = name /\ b = live[name]  BY <4>1, <3>2, SplitsAt DEF a, b
   <4> QED  BY <4>2, <3>2, <2>3, <1>2
  <3> QED  BY <3>1, <3>2, <1>1, Results DEF RightAt, Plainly
 <2> QED  BY <2>2, <2>3
<1> QED  BY <1>4, <1>5

\* The engines that only look a credential up are right.
LEMMA PlainEnginesRight ==
  ASSUME MintInv, NEW t
  PROVE  /\ options.kind = "apikey" => RightAt(N!ApiKeyVerdict(t), NowProved(t))
         /\ options.kind = "presharedkey" => RightAt(N!PresharedVerdict(t), NowProved(t))
         /\ options.kind = "session" => RightAt(N!SessionVerdict(t), NowProved(t))
         /\ options.kind = "noop" => RightAt(N!NoopVerdict(t), NowProved(t))
<1>1. ASSUME options.kind = "apikey"
      PROVE  RightAt(N!ApiKeyVerdict(t), NowProved(t))
 <2>1. NowProved(t) = {N!InForce(source)[name] : name \in Names \cap {t}} \ {None}  BY <1>1 DEF NowProved, N!Proves
 <2>2. /\ N!Lookup(t) # None => t \in Names
       /\ t \in Names => N!Lookup(t) = N!InForce(source)[t]  BY <1>1, TableKnowsNames
 <2>3. CASE N!Lookup(t) # None  BY <2>1, <2>2, <2>3, Results DEF N!ApiKeyVerdict, RightAt
 <2>4. CASE N!Lookup(t) = None  BY <2>1, <2>2, <2>4, Results DEF N!ApiKeyVerdict, RightAt
 <2> QED  BY <2>3, <2>4
<1>2. ASSUME options.kind = "presharedkey"
      PROVE  RightAt(N!PresharedVerdict(t), NowProved(t))
 <2>1. NowProved(t) = IF t \in N!Preshared THEN {<<>>} ELSE {}  BY <1>2 DEF NowProved, N!Proves
 <2> QED  BY <2>1, Results DEF N!PresharedVerdict, RightAt
<1>3. ASSUME options.kind = "session"
      PROVE  RightAt(N!SessionVerdict(t), NowProved(t))
 <2>1. NowProved(t) = {store[id] : id \in DOMAIN store \cap {t}}  BY <1>3 DEF NowProved, N!Proves
 <2> QED  BY <2>1, Results DEF N!SessionVerdict, RightAt
<1>4. ASSUME options.kind = "noop"
      PROVE  RightAt(N!NoopVerdict(t), NowProved(t))
 <2>1. NowProved(t) = {<<>>}  BY <1>4 DEF NowProved, N!Proves
 <2> QED  BY <2>1, Results DEF N!NoopVerdict, RightAt
<1> QED  BY <1>1, <1>2, <1>3, <1>4

\* The signed request: what a check of its stamp and of its secret show.
LEMMA ParsedIsWhole ==
  ASSUME MintInv, options.kind = "hmac", NEW t \in Presented, N!Structured(t)
  PROVE  \E m \in minted :
           /\ m.credential = t /\ ~N!Has(m.sub, N!Dot)
           /\ N!KeyId(t) = m.sub /\ N!Stamp(t)[1][2] = m.at /\ N!Stamp(t) = <<N!Time(m.at)>>
           /\ N!Signature(t) = <<Signed(m.sub, m.secret, m.at)>>
           /\ m.sub \in Names /\ m.at \in Int /\ m.secret # None
<1>1. t \notin {<<>>, N!Garbage, Foreign}
 <2>1. N!Has(t, N!Dot)  BY DEF N!Structured
 <2>2. ~N!Has(<<>>, N!Dot) /\ ~N!Has(N!Garbage, N!Dot)  BY Marks DEF N!Has, N!Garbage
 <2>3. ~N!Has(Foreign, N!Dot)  BY DEF N!Has, Foreign, N!Token, N!Dot, N!Letter
 <2> QED  BY <2>1, <2>2, <2>3
<1>2. PICK m \in minted : m.credential = t  BY <1>1 DEF Presented
<1>3. /\ m.sub \in Names /\ m.sub # <<>> /\ m.secret # None /\ m.at \in Int
      /\ t = N!HmacCredential(m.sub, m.secret, m.at)  BY <1>2 DEF MintInv, Genuine
<1>4. OnlyLetters(m.sub) /\ IsList(m.sub)  BY <1>3, NamesAreLetters DEF OnlyLetters
<1>5. ~N!Has(m.sub, N!Dot)  BY <1>3, <1>4, DotsNeverParse
<1> QED  BY <1>2, <1>3, <1>4, <1>5, PlainParses

\* What the hmac engine cannot parse proves nothing at any moment.
LEMMA UnparsedProvesNothing ==
  ASSUME MintInv, options.kind = "hmac", NEW t \in Presented, ~N!Structured(t), NEW table, NEW sessions, NEW at,
         Plainly(N!Proves(t, table, sessions, at))
  PROVE  N!Proves(t, table, sessions, at) = {}
<1> DEFINE Fits(m) == /\ m.credential = t /\ m.secret = N!InForce(table)[m.sub]
                      /\ at \in m.at - MaxSkew .. m.at + MaxSkew
<1>1. N!Proves(t, table, sessions, at) = {m.sub : m \in {m \in minted : Fits(m)}}  BY DEF N!Proves
<1> SUFFICES ASSUME NEW m \in minted, Fits(m)
             PROVE  FALSE  BY <1>1
<1>2. ~N!Separates(m.sub)  BY <1>1 DEF Plainly
<1>3. /\ m.sub \in Names /\ m.sub # <<>> /\ t = N!HmacCredential(m.sub, m.secret, m.at)  BY DEF MintInv, Genuine
<1>4. IsList(m.sub) /\ ~N!Has(m.sub, N!Dot)  BY <1>2, <1>3, NamesAreLetters DEF OnlyLetters, N!Separates
<1> QED  BY <1>3, <1>4, PlainParses

\* A stamp further off than the skew proves nothing now.
LEMMA StaleProvesNothing ==
  ASSUME MintInv, options.kind = "hmac", NEW t \in Presented, N!Structured(t), ~N!Fresh(t)
  PROVE  NowProved(t) = {}
<1> DEFINE Fits(m) == /\ m.credential = t /\ m.secret = N!InForce(source)[m.sub]
                      /\ now \in m.at - MaxSkew .. m.at + MaxSkew
<1>1. NowProved(t) = {m.sub : m \in {m \in minted : Fits(m)}}  BY DEF NowProved, N!Proves
<1> SUFFICES ASSUME NEW m \in minted, Fits(m)
             PROVE  FALSE  BY <1>1
<1>2. PICK x \in minted :
        /\ x.credential = t /\ N!Stamp(t)[1][2] = x.at /\ x.at \in Int /\ x.sub \in Names
        /\ t = N!HmacCredential(x.sub, x.secret, x.at)  BY ParsedIsWhole DEF MintInv, Genuine
<1>3. m.sub \in Names /\ m.at \in Int /\ t = N!HmacCredential(m.sub, m.secret, m.at)  BY DEF MintInv, Genuine
<1>4. IsList(m.sub) /\ IsList(x.sub) /\ N!HmacCredential(x.sub, x.secret, x.at) = N!HmacCredential(m.sub, m.secret, m.at)
  BY <1>2, <1>3, NamesAreLetters DEF OnlyLetters
<1>5. m.at = x.at  BY <1>4, HmacInjective
<1>6. now \in Int /\ MaxSkew \in Int  BY NamesAreLetters DEF MintInv
<1> QED  BY <1>2, <1>3, <1>5, <1>6 DEF N!Fresh, N!Distance

ResolveResult(t) ==
  IF /\ N!Lookup(N!KeyId(t)) # None
     /\ N!Signature(t) = <<N!Digest(N!Lookup(N!KeyId(t)), N!KeyId(t) \o <<N!Dot>> \o N!Stamp(t))>>
  THEN N!Ok(N!KeyId(t)) ELSE N!Err("Unauthenticated")

\* A fresh hmac credential resolves to the name whose secret signed it.
LEMMA ResolveRight ==
  ASSUME MintInv, options.kind = "hmac", NEW t \in Presented, N!Structured(t),
         NEW at \in Int, N!Distance(at, N!Stamp(t)[1][2]) <= MaxSkew
  PROVE  RightAt(ResolveResult(t), N!Proves(t, source, store, at))
<1> DEFINE live == N!InForce(source)
           Fits(m) == /\ m.credential = t /\ m.secret = live[m.sub]
                      /\ at \in m.at - MaxSkew .. m.at + MaxSkew
<1>1. N!Proves(t, source, store, at) = {m.sub : m \in {m \in minted : Fits(m)}}  BY DEF N!Proves
<1>2. PICK x \in minted :
        /\ x.credential = t /\ ~N!Has(x.sub, N!Dot)
        /\ N!KeyId(t) = x.sub /\ N!Stamp(t)[1][2] = x.at /\ N!Stamp(t) = <<N!Time(x.at)>>
        /\ N!Signature(t) = <<Signed(x.sub, x.secret, x.at)>>
        /\ x.sub \in Names /\ x.at \in Int /\ x.secret # None  BY ParsedIsWhole
<1>3. N!Lookup(x.sub) = live[x.sub]  BY <1>2, TableKnowsNames
<1> HIDE DEF live
<1>4. IsList(x.sub)  BY <1>2, NamesAreLetters DEF OnlyLetters
<1>5. x.sub \o <<N!Dot>> \o <<N!Time(x.at)>> = x.sub \o <<N!Dot, N!Time(x.at)>>
 <2> DEFINE p == <<N!Dot, N!Time(x.at)>>
            q == <<N!Time(x.at)>>
            u == (x.sub \o <<N!Dot>>) \o q
            v == x.sub \o p
 <2>1. /\ IsList(<<N!Dot>>) /\ Len(<<N!Dot>>) = 1 /\ <<N!Dot>>[1] = N!Dot
       /\ IsList(q) /\ Len(q) = 1 /\ q[1] = N!Time(x.at)  BY OneList
 <2>2. IsList(p) /\ Len(p) = 2 /\ p[1] = N!Dot /\ p[2] = N!Time(x.at)
  <3>1. p \in Seq({p[i] : i \in DOMAIN p})
   <4>1. p = [i \in 1..2 |-> p[i]] /\ DOMAIN p = 1..2 /\ Len(p) = 2  OBVIOUS
   <4> HIDE DEF p
   <4> QED  BY <4>1
  <3> QED  BY <3>1 DEF IsList
 <2>3. Joint(x.sub, <<N!Dot>>, x.sub \o <<N!Dot>>) /\ Joint(x.sub, p, v)  BY <1>4, <2>1, <2>2, Joined DEF Lists
 <2>4. Joint(x.sub \o <<N!Dot>>, q, u)  BY <2>1, <2>3, Joined DEF Lists, Joint
 <2> DEFINE n == Len(x.sub)
            w == x.sub \o <<N!Dot>>
 <2> HIDE DEF p, q, u, v, w
 <2>5. n \in Nat /\ Len(w) = n + 1 /\ w[n + 1] = N!Dot /\ \A i \in 1..n : w[i] = x.sub[i]
  <3>1. 1 \in 1..1  OBVIOUS
  <3> QED  BY <3>1, <2>1, <2>3 DEF Joint, w
 <2>6. /\ IsList(u) /\ Len(u) = n + 2 /\ u[n + 1] = N!Dot /\ u[n + 2] = N!Time(x.at)
       /\ \A i \in 1..n : u[i] = x.sub[i]
  <3>1. 1 \in 1..1 /\ n + 1 \in 1..(n + 1) /\ (n + 1) + 1 = n + 2 /\ \A i \in 1..n : i \in 1..(n + 1)  BY <2>5
  <3>2. /\ IsList(u) /\ Len(u) = Len(w) + 1 /\ \A i \in 1..Len(w) : u[i] = w[i]
        /\ \A i \in 1..1 : u[Len(w) + i] = q[i]  BY <2>1, <2>4 DEF Joint, w
  <3> QED  BY <3>1, <3>2, <2>1, <2>5
 <2>7. /\ IsList(v) /\ Len(v) = n + 2 /\ v[n + 1] = N!Dot /\ v[n + 2] = N!Time(x.at)
       /\ \A i \in 1..n : v[i] = x.sub[i]
  <3>1. 1 \in 1..2 /\ 2 \in 1..2  OBVIOUS
  <3> QED  BY <3>1, <2>2, <2>3 DEF Joint
 <2>8. ASSUME NEW i \in 1..Len(u)
       PROVE  u[i] = v[i]
  <3>1. i \in 1..n \/ i = n + 1 \/ i = n + 2  BY <2>5, <2>6
  <3> QED  BY <3>1, <2>6, <2>7
 <2>9. u = v  BY <2>6, <2>7, <2>8, AlikeLists DEF Lists, Same
 <2> QED  BY <2>9 DEF u, v, p, q
<1>6. CASE ResolveResult(t) = N!Ok(x.sub) /\ live[x.sub] # None
        /\ Signed(x.sub, x.secret, x.at) = N!Digest(live[x.sub], x.sub \o <<N!Dot, N!Time(x.at)>>)
 <2>1. x.secret = live[x.sub]  BY <1>6, Marks DEF Signed
 <2>2. at \in x.at - MaxSkew .. x.at + MaxSkew  BY <1>2, NamesAreLetters DEF N!Distance
 <2>3. Fits(x)  BY <1>2, <2>1, <2>2
 <2> QED  BY <1>1, <1>6, <2>3, Results DEF RightAt
<1>7. CASE ResolveResult(t) = N!Err("Unauthenticated")
        /\ ~(live[x.sub] # None /\ Signed(x.sub, x.secret, x.at) = N!Digest(live[x.sub], x.sub \o <<N!Dot, N!Time(x.at)>>))
 <2>1. ASSUME NEW m \in minted, Fits(m)
       PROVE  FALSE
  <3>1. m.sub \in Names /\ m.secret # None /\ t = N!HmacCredential(m.sub, m.secret, m.at)
    BY <2>1 DEF MintInv, Genuine
  <3>2. t = N!HmacCredential(x.sub, x.secret, x.at)  BY <1>2 DEF MintInv, Genuine
  <3>3. IsList(m.sub) /\ N!HmacCredential(x.sub, x.secret, x.at) = N!HmacCredential(m.sub, m.secret, m.at)
    BY <3>1, <3>2, NamesAreLetters DEF OnlyLetters
  <3>4. m.sub = x.sub /\ m.secret = x.secret  BY <1>4, <3>3, HmacInjective
  <3>5. live[x.sub] # None /\ x.secret = live[x.sub]  BY <2>1, <3>1, <3>4
  <3> QED  BY <3>5, <1>7 DEF Signed
 <2> QED  BY <2>1, <1>1, <1>7, Results DEF RightAt
<1>8. \/ /\ ResolveResult(t) = N!Ok(x.sub) /\ live[x.sub] # None
         /\ Signed(x.sub, x.secret, x.at) = N!Digest(live[x.sub], x.sub \o <<N!Dot, N!Time(x.at)>>)
      \/ /\ ResolveResult(t) = N!Err("Unauthenticated")
         /\ ~(live[x.sub] # None /\ Signed(x.sub, x.secret, x.at) = N!Digest(live[x.sub], x.sub \o <<N!Dot, N!Time(x.at)>>))
 <2>1. N!KeyId(t) \o <<N!Dot>> \o N!Stamp(t) = x.sub \o <<N!Dot, N!Time(x.at)>>  BY <1>2, <1>5
 <2> DEFINE g == Signed(x.sub, x.secret, x.at)
            d == N!Digest(live[x.sub], x.sub \o <<N!Dot, N!Time(x.at)>>)
 <2>2. ResolveResult(t) = IF live[x.sub] # None /\ <<g>> = <<d>> THEN N!Ok(x.sub) ELSE N!Err("Unauthenticated")
   BY <1>2, <1>3, <2>1 DEF ResolveResult
 <2> HIDE DEF g, d
 <2>3. <<g>> = <<d>> <=> g = d  OBVIOUS
 <2> QED  BY <2>2, <2>3 DEF g, d
<1> QED  BY <1>6, <1>7, <1>8

-----------------------------------------------------------------------------
(* The steps.                                                              *)
Verdict(t) ==
  CASE options.kind = "jwt" -> N!JwtVerdict(t)
    [] options.kind = "basicauth" -> N!BasicVerdict(t)
    [] options.kind = "apikey" -> N!ApiKeyVerdict(t)
    [] options.kind = "presharedkey" -> N!PresharedVerdict(t)
    [] options.kind = "session" -> N!SessionVerdict(t)
    [] OTHER -> N!NoopVerdict(t)

\* The verdict of an engine that answers in one step is right now.
LEMMA VerdictRight ==
  ASSUME MintInv, options.kind # "hmac", NEW t \in Presented
  PROVE  RightAt(Verdict(t), NowProved(t))
<1>1. options.kind = "basicauth" => IsList(t)  BY OneList DEF Presented, N!Garbage, Foreign, MintInv, Genuine
<1>2. options.kind \in {"basicauth", "apikey", "presharedkey", "session", "noop", "jwt"}  BY Kinds DEF MintInv
<1> QED  BY <1>1, <1>2, JwtRight, BasicRight, PlainEnginesRight DEF Verdict

\* The fields of a handshake that was answered.
LEMMA Records ==
  ASSUME NEW r, DOMAIN r = Fields, NEW found
  PROVE  LET s == N!Answered(r, found)
         IN  /\ DOMAIN s = Fields /\ s.pc = "answered" /\ s.token = r.token /\ s.result = found
             /\ s.verdict = N!Inspect(found) /\ s.times = r.times /\ s.saw = r.saw
BY DEF Fields, N!Answered

\* A request goes on just when a subject was found.
LEMMA Inspected ==
  ASSUME NEW found
  PROVE  N!Inspect(found) = "continue" <=> found.err = "none"
BY DEF N!Inspect, N!Status

\* An answer that is right at one of its request's moments.
LEMMA AnswerIsRight ==
  ASSUME MintInv, RequestOK, handshake.pc # "idle", NEW found, NEW at \in handshake.times,
         <<source, store>> \in handshake.saw,
         RightAt(found, N!Proves(handshake.token, source, store, at)),
         handshake' = N!Answered(handshake, found), UNCHANGED <<options, source, store, now, minted>>
  PROVE  HandshakeInv'
<1>1. MintInv'  BY DEF MintInv, Genuine
<1>2. /\ handshake'.pc = "answered" /\ handshake'.token = handshake.token /\ handshake'.result = found
      /\ handshake'.verdict = N!Inspect(found) /\ handshake'.times = handshake.times /\ handshake'.saw = handshake.saw
  BY Records DEF RequestOK
<1>3. RequestOK'
 <2>1. Presented' = Presented  BY DEF Presented, Foreign
 <2> QED  BY <1>2, <2>1, Records DEF RequestOK, N!Running
<1>4. Right'
 <2>1. \A m : ProvedAt(m)' = ProvedAt(m)  BY <1>2 DEF ProvedAt, N!Proves, N!InForce, N!Preshared
 <2>2. Moments' = Moments  BY <1>2 DEF Moments
 <2>3. \A names : Plainly(names)' = Plainly(names)  BY DEF Plainly, N!Separates
 <2> DEFINE m == <<<<source, store>>, at>>
 <2>4. m \in Moments /\ ProvedAt(m) = N!Proves(handshake.token, source, store, at)  BY DEF Moments, ProvedAt
 <2> HIDE DEF m
 <2>5. IF found.err = "none" THEN found.sub \in ProvedAt(m) ELSE Plainly(ProvedAt(m)) => ProvedAt(m) = {}
   BY <2>4 DEF RightAt
 <2>6. handshake'.verdict = "continue" <=> found.err = "none"  BY <1>2, Inspected
 <2> QED  BY <1>2, <2>1, <2>2, <2>3, <2>4, <2>5, <2>6 DEF Right
<1> QED  BY <1>1, <1>3, <1>4 DEF HandshakeInv

\* An engine answers in one step.
LEMMA OneStepKept ==
  ASSUME HandshakeInv, N!OneStepCheck
  PROVE  HandshakeInv'
<1>1. /\ options.kind # "hmac" /\ handshake.pc = "check"
      /\ handshake' = N!Answered(handshake, Verdict(handshake.token))
      /\ UNCHANGED <<options, source, store, now, minted>>  BY DEF N!OneStepCheck, Verdict
<1>2. MintInv /\ RequestOK /\ handshake.token \in Presented /\ <<source, store>> \in handshake.saw /\ now \in handshake.times
  BY <1>1 DEF HandshakeInv, RequestOK, N!Running
<1>3. RightAt(Verdict(handshake.token), N!Proves(handshake.token, source, store, now))
  BY <1>1, <1>2, VerdictRight DEF NowProved
<1> QED  BY <1>1, <1>2, <1>3, AnswerIsRight

\* The hmac engine parses and checks the stamp against its clock.
LEMMA HmacCheckKept ==
  ASSUME HandshakeInv, N!HmacCheck
  PROVE  HandshakeInv'
<1>1. /\ options.kind = "hmac" /\ handshake.pc = "check"
      /\ UNCHANGED <<options, source, store, now, minted>>  BY DEF N!HmacCheck
<1>2. MintInv /\ RequestOK /\ handshake.token \in Presented /\ <<source, store>> \in handshake.saw /\ now \in handshake.times
  BY <1>1 DEF HandshakeInv, RequestOK, N!Running
<1>3. CASE ~N!Structured(handshake.token)
 <2>1. handshake' = N!Answered(handshake, N!Err("InvalidToken"))  BY <1>3 DEF N!HmacCheck
 <2>2. RightAt(N!Err("InvalidToken"), N!Proves(handshake.token, source, store, now))
   BY <1>1, <1>2, <1>3, UnparsedProvesNothing, Results DEF RightAt
 <2> QED  BY <1>1, <1>2, <2>1, <2>2, AnswerIsRight
<1>4. CASE N!Structured(handshake.token) /\ ~N!Fresh(handshake.token)
 <2>1. handshake' = N!Answered(handshake, N!Err("TokenExpired"))  BY <1>4 DEF N!HmacCheck
 <2>2. RightAt(N!Err("TokenExpired"), N!Proves(handshake.token, source, store, now))
   BY <1>1, <1>2, <1>4, StaleProvesNothing, Results DEF RightAt, NowProved
 <2> QED  BY <1>1, <1>2, <2>1, <2>2, AnswerIsRight
<1>5. CASE N!Structured(handshake.token) /\ N!Fresh(handshake.token)
 <2>1. handshake' = [handshake EXCEPT !.pc = "resolve"]  BY <1>5 DEF N!HmacCheck
 <2>2. /\ DOMAIN handshake' = Fields
       /\ handshake'.pc = "resolve" /\ handshake'.token = handshake.token
       /\ handshake'.times = handshake.times /\ handshake'.saw = handshake.saw  BY <1>2, <2>1 DEF RequestOK, Fields
 <2>3. Presented' = Presented  BY <1>1 DEF Presented, Foreign
 <2>4. N!Structured(handshake'.token) /\ N!Distance(now, N!Stamp(handshake'.token)[1][2]) <= MaxSkew
   BY <1>5, <2>2 DEF N!Fresh
 <2>5. RequestOK'  BY <1>1, <1>2, <2>2, <2>3, <2>4 DEF RequestOK, N!Running
 <2>6. MintInv'  BY <1>1, <1>2 DEF MintInv, Genuine
 <2> QED  BY <2>2, <2>5, <2>6 DEF HandshakeInv
<1> QED  BY <1>3, <1>4, <1>5

\* The hmac engine resolves the key and checks the signature.
LEMMA HmacResolveKept ==
  ASSUME HandshakeInv, N!HmacResolve
  PROVE  HandshakeInv'
<1>1. /\ handshake.pc = "resolve"
      /\ handshake' = N!Answered(handshake, ResolveResult(handshake.token))
      /\ UNCHANGED <<options, source, store, now, minted>>  BY DEF N!HmacResolve, ResolveResult
<1>2. /\ MintInv /\ RequestOK /\ handshake.token \in Presented /\ <<source, store>> \in handshake.saw
      /\ options.kind = "hmac" /\ N!Structured(handshake.token)  BY <1>1 DEF HandshakeInv, RequestOK, N!Running
<1>3. PICK at \in handshake.times : at \in Int /\ N!Distance(at, N!Stamp(handshake.token)[1][2]) <= MaxSkew
  BY <1>1 DEF HandshakeInv, RequestOK
<1>4. RightAt(ResolveResult(handshake.token), N!Proves(handshake.token, source, store, at))
  BY <1>2, <1>3, ResolveRight
<1> QED  BY <1>1, <1>2, <1>3, <1>4, AnswerIsRight

\* What a request carries is the value of one of its headers.
LEMMA ExtractedIsPresented ==
  ASSUME NEW headers \in N!Headers, N!Extracted(headers).err = "none"
  PROVE  N!Extracted(headers).sub \in Presented
<1> DEFINE ok(v) == v.token \in Presented
           k == N!SelectInSeq(headers, LAMBDA h : h.name = N!CredentialHeader)
           I == {i \in 1..Len(headers) : headers[i].name = N!CredentialHeader}
<1>1. Len(headers) \in Nat /\ \A i \in 1..Len(headers) : ok(headers[i].value)
 <2>1. N!Credentials = Presented  BY DEF N!Credentials, Presented, Foreign
 <2> DEFINE both == {N!Behind(b, h) : b \in N!Unfit, h \in N!Offers}
 <2>2. headers \in {<<>>} \cup N!Offers \cup {<<b>> : b \in N!Unfit} \cup both  BY DEF N!Headers
 <2>3. ASSUME NEW b \in N!Unfit
       PROVE  ok(b.value)
  <3>1. <<>> \in Presented /\ N!Garbage \in Presented  BY DEF Presented
  <3>2. \/ b = N!Field(N!CredentialHeader, N!Plain("empty"))
        \/ b = N!Field(N!CredentialHeader, N!Value("Digest", N!Garbage))
        \/ b = N!Field("x-other", N!Value(N!Scheme, N!Garbage))
        \/ b = N!Field(N!CredentialHeader, N!Plain("word"))  BY DEF N!Unfit
  <3>3. \A name, value : N!Field(name, value).value = value  BY DEF N!Field
  <3>4. N!Plain("empty").token = <<>> /\ N!Plain("word").token = <<>>  BY DEF N!Plain
  <3>5. \A scheme : N!Value(scheme, N!Garbage).token = N!Garbage  BY DEF N!Value
  <3> QED  BY <3>1, <3>2, <3>3, <3>4, <3>5
 <2>4. ASSUME NEW h \in N!Offers
       PROVE  \E x : h = <<x>> /\ ok(x.value)
  <3>1. PICK c \in N!Credentials : h = <<N!Field(N!CredentialHeader, N!Value(N!Scheme, c))>>  BY DEF N!Offers
  <3> DEFINE x == N!Field(N!CredentialHeader, N!Value(N!Scheme, c))
  <3>2. x.value.token = c  BY DEF N!Value, N!Field
  <3> HIDE DEF x
  <3>3. h = <<x>>  BY <3>1 DEF x
  <3> QED  BY <2>1, <3>1, <3>2, <3>3
 <2>5. ASSUME headers \in both
       PROVE  \E b \in N!Unfit : \E x : headers = <<b>> \o <<x>> /\ ok(x.value)
  <3>1. PICK b \in N!Unfit, h \in N!Offers : headers = N!Behind(b, h)  BY <2>5
  <3>2. PICK x : h = <<x>> /\ ok(x.value)  BY <2>4, <3>1
  <3> QED  BY <3>1, <3>2 DEF N!Behind
 <2> HIDE DEF ok, both
 <2>6. CASE headers = <<>>  BY <2>6
 <2>7. CASE headers \in N!Offers
  <3>1. PICK x : headers = <<x>> /\ ok(x.value)  BY <2>4, <2>7
  <3> QED  BY <3>1
 <2>8. CASE headers \in {<<b>> : b \in N!Unfit}  BY <2>3, <2>8
 <2>9. CASE headers \in both
  <3>0. PICK b \in N!Unfit : \E x : headers = <<b>> \o <<x>> /\ ok(x.value)  BY <2>5, <2>9
  <3>1. PICK x : headers = <<b>> \o <<x>> /\ ok(x.value)  BY <3>0
  <3> DEFINE p == <<b>>
             q == <<x>>
  <3>2. Joint(p, q, p \o q) /\ Len(p) = 1 /\ Len(q) = 1 /\ p[1] = b /\ q[1] = x  BY OneList, Joined DEF Lists
  <3>3. headers = p \o q  BY <3>1
  <3> HIDE DEF p, q
  <3>4. Len(headers) = 2 /\ headers[1] = b /\ headers[2] = x
   <4>1. 1 \in 1..1 /\ 1 + 1 = 2  OBVIOUS
   <4> QED  BY <3>2, <3>3, <4>1 DEF Joint
  <3>5. 1..2 = {1, 2}  OBVIOUS
  <3> QED  BY <2>3, <3>1, <3>4, <3>5
 <2> QED  BY <2>2, <2>6, <2>7, <2>8, <2>9
<1> HIDE DEF ok
<1>2. k = 0 \/ k \in 1..Len(headers)
 <2>1. CASE I = {}  BY <2>1 DEF N!SelectInSeq
 <2>2. CASE I # {}
  <3>1. k = N!Min(I)  BY <2>2 DEF N!SelectInSeq
  <3>2. \E x \in I : \A y \in I : x <= y
   <4>1. I \subseteq Nat  BY <1>1
   <4> QED  BY <2>2, <4>1, LeastOf
  <3>3. N!Min(I) \in I  BY <3>2 DEF N!Min
  <3> QED  BY <3>1, <3>3
 <2> QED  BY <2>1, <2>2
<1>3. ok(N!FirstHeader(headers))
 <2>1. N!FirstHeader(headers) = IF k = 0 THEN N!Plain("empty") ELSE headers[k].value  BY DEF N!FirstHeader
 <2>2. ok(N!Plain("empty"))  BY DEF ok, Presented, N!Plain
 <2> HIDE DEF k
 <2> QED  BY <1>1, <1>2, <2>1, <2>2
<1> QED  BY <1>3, Results DEF ok, N!Extracted, N!AuthFromHeaders, N!SessionFromHeaders

\* A request arrives with its headers.
LEMMA BeginKept ==
  ASSUME HandshakeInv, NEW headers \in N!Headers, N!Begin(headers)
  PROVE  HandshakeInv'
<1> DEFINE found == N!Extracted(headers)
           started == [N!Idle EXCEPT !.pc = "check", !.times = {now}, !.saw = {<<source, store>>}]
<1>1. /\ handshake' = IF found.err # "none" THEN N!Answered(started, found) ELSE [started EXCEPT !.token = found.sub]
      /\ UNCHANGED <<options, source, store, now, minted>>  BY DEF N!Begin
<1>2. /\ DOMAIN started = Fields /\ started.pc = "check" /\ started.token = <<>>
      /\ started.times = {now} /\ started.saw = {<<source, store>>}  BY DEF N!Idle, Fields
<1>3. MintInv' /\ Presented' = Presented /\ now \in Int
  BY <1>1 DEF HandshakeInv, MintInv, Genuine, Presented, Foreign
<1>4. CASE found.err # "none"
 <2> HIDE DEF found, started
 <2>1. DOMAIN handshake' = Fields /\ handshake'.pc = "answered" /\ handshake'.token = <<>> /\ handshake'.times = {now}
   BY <1>1, <1>2, <1>4, Records
 <2>2. <<>> \in Presented  BY DEF Presented
 <2>3. RequestOK'  BY <1>3, <2>1, <2>2 DEF RequestOK, N!Running
 <2> QED  BY <1>3, <2>1, <2>3 DEF HandshakeInv
<1>5. CASE found.err = "none"
 <2>1. found.sub \in Presented  BY <1>5, ExtractedIsPresented
 <2> HIDE DEF found, started
 <2>2. /\ DOMAIN handshake' = Fields /\ handshake'.pc = "check" /\ handshake'.token = found.sub
       /\ handshake'.times = {now} /\ handshake'.saw = {<<source, store>>}  BY <1>1, <1>2, <1>5 DEF Fields
 <2>3. RequestOK'  BY <1>1, <1>3, <2>1, <2>2 DEF RequestOK, N!Running
 <2> QED  BY <1>3, <2>2, <2>3 DEF HandshakeInv
<1> QED  BY <1>4, <1>5

\* What the application and the clock do beside a request.
LEMMA BesideKept ==
  ASSUME HandshakeInv, MintInv', options' = options, minted \subseteq minted',
         DOMAIN handshake' = Fields, handshake'.pc = handshake.pc, handshake'.token = handshake.token,
         handshake.times \subseteq handshake'.times, handshake'.times \subseteq Int,
         N!Running => <<source', store'>> \in handshake'.saw /\ now' \in handshake'.times,
         ~N!Running => handshake' = handshake
  PROVE  HandshakeInv'
<1>1. N!Running <=> handshake.pc \in {"check", "resolve"}  BY DEF N!Running
<1>2. RequestOK'
 <2>1. Presented \subseteq Presented'  BY DEF Presented, Foreign
 <2>2. handshake'.pc # "idle" => handshake'.token \in Presented'  BY <2>1 DEF HandshakeInv, RequestOK
 <2>3. N!Running' => <<source', store'>> \in handshake'.saw /\ now' \in handshake'.times  BY <1>1 DEF N!Running
 <2>4. handshake'.pc = "resolve" =>
         /\ options'.kind = "hmac" /\ N!Structured(handshake'.token)
         /\ \E at \in handshake'.times : N!Distance(at, N!Stamp(handshake'.token)[1][2]) <= MaxSkew
   BY DEF HandshakeInv, RequestOK
 <2>5. handshake'.pc \in {"idle", "check", "resolve", "answered"}  BY DEF HandshakeInv, RequestOK
 <2> QED  BY <2>2, <2>3, <2>4, <2>5 DEF RequestOK
<1>3. ASSUME handshake'.pc = "answered", handshake'.token # <<>>
      PROVE  Right'
 <2>1. handshake.pc = "answered" /\ handshake' = handshake  BY <1>1, <1>3
 <2>2. \A m \in minted' : Genuine(m)
  <3>1. \A m \in minted' : Genuine(m)'  BY DEF MintInv
  <3> QED  BY <3>1 DEF Genuine
 <2> QED  BY <1>3, <2>1, <2>2, RightStays
<1> QED  BY <1>2, <1>3 DEF HandshakeInv

\* The table or the sessions change while a request runs.
LEMMA WitnessKept ==
  ASSUME HandshakeInv, MintInv', options' = options, minted \subseteq minted', now' = now,
         N!Witness(source', store')
  PROVE  HandshakeInv'
<1>1. CASE N!Running
 <2>1. handshake' = [handshake EXCEPT !.saw = @ \cup {<<source', store'>>}]  BY <1>1 DEF N!Witness
 <2>2. DOMAIN handshake = Fields /\ now \in handshake.times /\ handshake.times \subseteq Int
   BY <1>1 DEF HandshakeInv, RequestOK
 <2>3. /\ DOMAIN handshake' = Fields /\ handshake'.pc = handshake.pc /\ handshake'.token = handshake.token
       /\ handshake'.times = handshake.times /\ <<source', store'>> \in handshake'.saw  BY <2>1, <2>2 DEF Fields
 <2> QED  BY <1>1, <2>2, <2>3, BesideKept
<1>2. CASE ~N!Running
 <2>1. handshake' = handshake  BY <1>2 DEF N!Witness
 <2>2. DOMAIN handshake = Fields /\ handshake.times \subseteq Int  BY DEF HandshakeInv, RequestOK
 <2> QED  BY <1>2, <2>1, <2>2, BesideKept
<1> QED  BY <1>1, <1>2

\* A step that leaves the request and what it rests on alone.
LEMMA StillKept ==
  ASSUME HandshakeInv, MintInv', minted \subseteq minted',
         UNCHANGED <<options, source, store, now, handshake>>
  PROVE  HandshakeInv'
BY BesideKept DEF HandshakeInv, RequestOK

\* What is minted stays genuine when the table or the clock moves.
LEMMA SourceMoves ==
  ASSUME MintInv, UNCHANGED <<options, minted>>, source' \in N!Tables, now' \in Nat
  PROVE  MintInv'
BY DEF MintInv, Genuine

\* A credential joins those minted.
LEMMA NewMint ==
  ASSUME MintInv, UNCHANGED <<options, source, now>>, NEW found, NEW sub, N!Keep(found, sub),
         found.err = "none" =>
           Genuine([credential |-> found.sub, sub |-> sub, at |-> now,
                    secret |-> IF options.kind = "hmac" THEN N!Lookup(sub) ELSE None])
  PROVE  MintInv' /\ minted \subseteq minted'
<1> DEFINE x == [credential |-> found.sub, sub |-> sub, at |-> now,
                 secret |-> IF options.kind = "hmac" THEN N!Lookup(sub) ELSE None]
<1>1. minted' = IF found.err # "none" THEN minted ELSE minted \cup {x}  BY DEF N!Keep
<1> HIDE DEF x
<1>2. found.err = "none" => Genuine(x)  BY DEF x
<1>3. \A m \in minted' : Genuine(m)  BY <1>1, <1>2 DEF MintInv
<1>4. \A m : Genuine(m)' <=> Genuine(m)  BY DEF Genuine
<1> QED  BY <1>1, <1>3, <1>4 DEF MintInv

\* An engine mints a credential for a claimed subject.
LEMMA MintKept ==
  ASSUME HandshakeInv, NEW sub \in N!Claimed, N!Mint(sub)
  PROVE  HandshakeInv'
<1>1. UNCHANGED <<options, source, store, now, handshake>> /\ options.kind # "session" /\ MintInv
  BY DEF N!Mint, N!Minting, HandshakeInv
<1>2. /\ now \in Int /\ options.kind \in {"hmac", "basicauth", "apikey", "presharedkey", "session", "noop", "jwt"}
      /\ options.kind = "basicauth" => options.table \in N!Tables  BY <1>1, Kinds DEF MintInv
<1> DEFINE x(c) == [credential |-> c, sub |-> sub, at |-> now,
                    secret |-> IF options.kind = "hmac" THEN N!Lookup(sub) ELSE None]
<1>3. \A c : /\ x(c).credential = c /\ x(c).sub = sub /\ x(c).at = now
             /\ options.kind = "hmac" => x(c).secret = N!Lookup(sub)  OBVIOUS
<1> HIDE DEF x
<1>4. MintInv' /\ minted \subseteq minted'
 <2>1. CASE options.kind = "hmac"
  <3>1. N!Keep(N!HmacMint(sub), sub)  BY <2>1 DEF N!Mint
  <3>2. N!HmacMint(sub).err = "none" => Genuine(x(N!HmacMint(sub).sub))
   <4> SUFFICES ASSUME N!HmacMint(sub).err = "none"
                PROVE  Genuine(x(N!HmacMint(sub).sub))  OBVIOUS
   <4>1. /\ sub # <<>> /\ N!Lookup(sub) # None
         /\ N!HmacMint(sub).sub = N!HmacCredential(sub, N!Lookup(sub), now)  BY Results DEF N!HmacMint
   <4>2. sub \in Names  BY <4>1 DEF N!Claimed
   <4> QED  BY <4>1, <4>2, <1>2, <1>3, <2>1 DEF Genuine
  <3> QED  BY <3>1, <3>2, <1>1, NewMint DEF x
 <2>2. CASE options.kind = "basicauth"
  <3>1. N!Keep(N!BasicMint(sub), sub)  BY <2>2 DEF N!Mint
  <3>2. N!BasicMint(sub).err = "none" => Genuine(x(N!BasicMint(sub).sub))
   <4> SUFFICES ASSUME N!BasicMint(sub).err = "none"
                PROVE  Genuine(x(N!BasicMint(sub).sub))  OBVIOUS
   <4>1. /\ sub # <<>> /\ options.table[sub] # None
         /\ N!BasicMint(sub).sub = (sub \o <<N!Colon>>) \o options.table[sub]
     BY Results, ZenonT(60) DEF N!BasicMint
   <4>2. sub \in Names /\ options.table[sub] \in Secrets  BY <4>1, <1>2, <2>2 DEF N!Claimed, N!Tables
   <4>3. Lists(sub, <<N!Colon>>) /\ IsList(options.table[sub])
     BY <4>2, NamesAreLetters, OneList DEF OnlyLetters, Lists
   <4>4. IsList(sub \o <<N!Colon>>)  BY <4>3, Joined DEF Joint
   <4>5. IsList((sub \o <<N!Colon>>) \o options.table[sub])  BY <4>3, <4>4, Joined DEF Joint, Lists
   <4> QED  BY <4>1, <4>5, <1>3, <2>2 DEF Genuine
  <3> QED  BY <3>1, <3>2, <1>1, NewMint DEF x
 <2>3. CASE options.kind \in {"apikey", "presharedkey", "noop"}
  <3>1. \E found : N!Keep(found, sub)  BY <2>3 DEF N!Mint
  <3>2. \A c : Genuine(x(c))  BY <2>3 DEF Genuine
  <3> QED  BY <3>1, <3>2, <1>1, NewMint DEF x
 <2>4. CASE options.kind = "jwt"
  <3>1. PICK nbf \in {0, 1}, exp \in {1, MaxNow} : N!Keep(N!JwtMint(sub, nbf, exp), sub)  BY <2>4 DEF N!Mint
  <3>2. nbf \in Int /\ exp \in Int  BY NamesAreLetters
  <3>3. N!JwtMint(sub, nbf, exp).err = "none" => Genuine(x(N!JwtMint(sub, nbf, exp).sub))
   <4> SUFFICES ASSUME N!JwtMint(sub, nbf, exp).err = "none"
                PROVE  Genuine(x(N!JwtMint(sub, nbf, exp).sub))  OBVIOUS
   <4>1. /\ options.enc # None /\ N!Family(options.enc) = N!Family(options.alg)
         /\ N!JwtMint(sub, nbf, exp).sub = <<N!Token(options.alg, options.enc, sub, nbf, exp)>>
     BY Results DEF N!JwtMint
   <4> QED  BY <4>1, <3>2, <1>3, <2>4 DEF Genuine
  <3> QED  BY <3>1, <3>3, <1>1, NewMint DEF x
 <2> QED  BY <2>1, <2>2, <2>3, <2>4, <1>1, <1>2
<1> QED  BY <1>1, <1>4, StillKept

\* A session engine mints an id that no session had.
LEMMA SessionMintKept ==
  ASSUME HandshakeInv, NEW sub, N!SessionMint(sub)
  PROVE  HandshakeInv'
<1>1. /\ options.kind = "session" /\ UNCHANGED <<options, source, now>> /\ N!Witness(source, store')
      /\ \E id \in SessionIds : N!Keep(N!Ok(id), sub)  BY DEF N!SessionMint, N!Minting
<1>2. \A m : Genuine(m)  BY <1>1 DEF Genuine
<1>3. MintInv' /\ minted \subseteq minted'  BY <1>1, <1>2, NewMint DEF HandshakeInv
<1>4. N!Witness(source', store')  BY <1>1 DEF N!Witness
<1> QED  BY <1>1, <1>3, <1>4, WitnessKept

\* The table rotates a secret, or sessions begin and end.
LEMMA EditsKept ==
  ASSUME HandshakeInv,
         \/ \E name \in Names, secret \in Secrets \cup {None} : N!Rotate(name, secret)
         \/ \E id \in SessionIds : N!Logout(id)
         \/ \E id \in SessionIds, sub \in Names : N!StoreSet(id, sub)
  PROVE  HandshakeInv'
<1>0. source \in N!Tables /\ now \in Nat /\ MintInv  BY DEF HandshakeInv, MintInv
<1>1. ASSUME NEW name \in Names, NEW secret \in Secrets \cup {None}, N!Rotate(name, secret)
      PROVE  HandshakeInv'
 <2>1. source' \in N!Tables  BY <1>0, <1>1 DEF N!Rotate, N!Tables
 <2>2. UNCHANGED <<options, store, now, minted>> /\ N!Witness(source', store)  BY <1>1 DEF N!Rotate
 <2>3. N!Witness(source', store')  BY <2>2 DEF N!Witness
 <2> QED  BY <1>0, <2>1, <2>2, <2>3, SourceMoves, WitnessKept
<1>2. ASSUME UNCHANGED <<options, source, now, minted>>, N!Witness(source, store')
      PROVE  HandshakeInv'
 <2>1. N!Witness(source', store')  BY <1>2 DEF N!Witness
 <2> QED  BY <1>0, <1>2, <2>1, SourceMoves, WitnessKept
<1>3. ASSUME NEW id, N!Logout(id)
      PROVE  HandshakeInv'  BY <1>2, <1>3 DEF N!Logout
<1>4. ASSUME NEW id, NEW sub, N!StoreSet(id, sub)
      PROVE  HandshakeInv'  BY <1>2, <1>4 DEF N!StoreSet
<1> QED  BY <1>1, <1>3, <1>4

\* Time passes.
LEMMA ClockKept ==
  ASSUME HandshakeInv, N!Clock
  PROVE  HandshakeInv'
<1>1. /\ UNCHANGED <<options, source, store, minted>> /\ now' \in Nat
      /\ handshake' = IF N!Running THEN [handshake EXCEPT !.times = @ \cup {now'}] ELSE handshake  BY DEF N!Clock
<1>2. MintInv'  BY <1>1, SourceMoves DEF HandshakeInv, MintInv
<1>3. DOMAIN handshake = Fields /\ handshake.times \subseteq Int  BY DEF HandshakeInv, RequestOK
<1>4. CASE N!Running
 <2>1. handshake' = [handshake EXCEPT !.times = @ \cup {now'}]  BY <1>1, <1>4
 <2>2. /\ DOMAIN handshake' = Fields /\ handshake'.pc = handshake.pc /\ handshake'.token = handshake.token
       /\ handshake'.times = handshake.times \cup {now'} /\ handshake'.saw = handshake.saw
   BY <1>3, <2>1 DEF Fields
 <2>3. <<source', store'>> \in handshake'.saw  BY <1>1, <1>4, <2>2 DEF HandshakeInv, RequestOK
 <2> QED  BY <1>1, <1>2, <1>3, <1>4, <2>2, <2>3, BesideKept
<1>5. CASE ~N!Running
 <2>1. handshake' = handshake  BY <1>1, <1>5
 <2> QED  BY <1>1, <1>2, <1>3, <1>5, <2>1, BesideKept
<1> QED  BY <1>4, <1>5

\* Every engine starts with HandshakeInv.
LEMMA HandshakeInit ==
  ASSUME N!AuthnInit
  PROVE  HandshakeInv
<1>1. /\ options \in N!Options /\ now = 0 /\ minted = {} /\ handshake = N!Idle
      /\ source \in IF N!Live THEN N!Tables ELSE {[name \in Names |-> None]}  BY DEF N!AuthnInit
<1>2. source \in N!Tables  BY <1>1 DEF N!Tables
<1>3. DOMAIN handshake = Fields /\ handshake.pc = "idle" /\ handshake.times = {}  BY <1>1 DEF N!Idle, Fields
<1> QED  BY <1>1, <1>2, <1>3 DEF HandshakeInv, MintInv, RequestOK, N!Running

\* Every step of the engine, its clients and its clock keeps HandshakeInv.
LEMMA HandshakeSteps ==
  ASSUME HandshakeInv, [N!AuthnNext]_authnVars
  PROVE  HandshakeInv'
<1>1. CASE UNCHANGED authnVars
 <2>1. UNCHANGED <<options, source, store, now, minted, handshake>>  BY <1>1 DEF authnVars
 <2>2. MintInv'  BY <2>1, SourceMoves DEF HandshakeInv, MintInv
 <2> QED  BY <2>1, <2>2, StillKept
<1>2. CASE N!AuthnNext
  BY <1>2, MintKept, SessionMintKept, BeginKept, HmacCheckKept, HmacResolveKept, OneStepKept, EditsKept, ClockKept
     DEF N!AuthnNext
<1> QED  BY <1>1, <1>2

\* HandshakeInv makes the verdict on a handshake right at a moment of it.
LEMMA AnswersCurrent ==
  ASSUME HandshakeInv
  PROVE  N!AnswersAreCurrent
<1> SUFFICES ASSUME handshake.pc = "answered", handshake.token # <<>>
             PROVE  Right  BY DEF N!AnswersAreCurrent, Right, Moments, ProvedAt, Plainly
<1> QED  BY DEF HandshakeInv

-----------------------------------------------------------------------------
\* A set that holds 0 and, with a number, the next holds every number.
LEMMA Induct ==
  ASSUME NEW T, 0 \in T, \A n \in Nat : n \in T => n + 1 \in T
  PROVE  Nat \subseteq T
<1> SUFFICES ASSUME NEW m \in Nat, m \notin T PROVE FALSE  OBVIOUS
<1>1. PICK x \in Nat \ T : \A y \in Nat \ T : x <= y  BY LeastOf
<1>2. x - 1 \in Nat /\ x - 1 \in T  BY <1>1
<1> QED  BY <1>1, <1>2

\* Finitely many numbers have a most.
LEMMA Bounded ==
  ASSUME NEW S, IsFiniteSet(S), NEW f \in [S -> Nat]
  PROVE  \E K \in Nat : \A x \in S : f[x] <= K
<1> DEFINE n == Cardinality(S)
<1>0. n \in Nat  BY FS_CardinalityType
<1>1. PICK b : b \in Bijection(1..n, S)  BY FS_CardinalityType DEF ExistsBijection
<1> HIDE DEF n
<1>2. b \in [1..n -> S] /\ \A x \in S : \E i \in 1..n : b[i] = x  BY <1>1 DEF Bijection, Surjection
<1> DEFINE T == {k \in Nat : k <= n => \E K \in Nat : \A i \in 1..k : f[b[i]] <= K}
<1>3. 0 \in T  OBVIOUS
<1>4. ASSUME NEW k \in Nat, k \in T PROVE k + 1 \in T
 <2> SUFFICES ASSUME k + 1 <= n PROVE \E K \in Nat : \A i \in 1..k + 1 : f[b[i]] <= K  OBVIOUS
 <2>1. PICK K \in Nat : \A i \in 1..k : f[b[i]] <= K  BY <1>0, <1>4
 <2>2. f[b[k + 1]] \in Nat  BY <1>0, <1>2
 <2>3. ASSUME NEW i \in 1..k + 1 PROVE f[b[i]] <= K + f[b[k + 1]]
  <3>1. CASE i = k + 1  BY <2>2, <3>1
  <3>2. CASE i \in 1..k
   <4>1. f[b[i]] <= K /\ f[b[i]] \in Nat  BY <1>0, <1>2, <2>1, <3>2
   <4> QED  BY <2>2, <4>1
  <3> QED  BY <3>1, <3>2
 <2>4. K + f[b[k + 1]] \in Nat  BY <2>2
 <2> QED  BY <2>3, <2>4
<1>5. n \in T
 <2> HIDE DEF T
 <2> QED  BY <1>0, <1>3, <1>4, Induct
<1>6. PICK K \in Nat : \A i \in 1..n : f[b[i]] <= K  BY <1>0, <1>5
<1> QED  BY <1>2, <1>6

\* A function given at each place by what it is at smaller ones.
Descends(D, V, m, most, step) ==
  /\ V # {} /\ m \in [D -> Nat] /\ most \in Nat
  /\ \A q \in D : m[q] <= most
  /\ \A q \in D : \A f \in [D -> V] : step[<<q, f>>] \in V
  /\ \A q \in D : \A f, g \in [D -> V] :
       (\A p \in D : m[p] < m[q] => f[p] = g[p]) => step[<<q, f>>] = step[<<q, g>>]

\* A recursion that only descends defines a function.
LEMMA Descent ==
  ASSUME NEW D, NEW V, NEW m, NEW most, NEW step, Descends(D, V, m, most, step)
  PROVE  \E f \in [D -> V] : \A q \in D : f[q] = step[<<q, f>>]
<1>0. /\ V # {} /\ m \in [D -> Nat] /\ most \in Nat
      /\ \A q \in D : m[q] <= most
      /\ \A q \in D : \A f \in [D -> V] : step[<<q, f>>] \in V
      /\ \A q \in D : \A f, g \in [D -> V] :
           (\A p \in D : m[p] < m[q] => f[p] = g[p]) => step[<<q, f>>] = step[<<q, g>>]  BY DEF Descends
<1> DEFINE T == {n \in Nat : \E f \in [D -> V] : \A q \in D : m[q] < n => f[q] = step[<<q, f>>]}
<1>1. 0 \in T
 <2>1. PICK v \in V : TRUE  BY <1>0
 <2>2. [q \in D |-> v] \in [D -> V]  BY <2>1
 <2> DEFINE g == [q \in D |-> v]
 <2>3. \A q \in D : ~(m[q] < 0)  BY <1>0
 <2> HIDE DEF g
 <2>4. \A q \in D : m[q] < 0 => g[q] = step[<<q, g>>]  BY <2>3
 <2> QED  BY <2>2, <2>4 DEF g
<1>2. ASSUME NEW n \in Nat, n \in T PROVE n + 1 \in T
 <2>1. PICK f \in [D -> V] : \A q \in D : m[q] < n => f[q] = step[<<q, f>>]  BY <1>2
 <2> DEFINE g == [q \in D |-> step[<<q, f>>]]
 <2>2. g \in [D -> V] /\ \A q \in D : g[q] = step[<<q, f>>]  BY <1>0
 <2> HIDE DEF g
 <2>3. ASSUME NEW q \in D, m[q] < n + 1 PROVE g[q] = step[<<q, g>>]
  <3>1. \A p \in D : m[p] < m[q] => f[p] = g[p]
   <4> SUFFICES ASSUME NEW p \in D, m[p] < m[q] PROVE f[p] = g[p]  OBVIOUS
   <4>1. m[p] \in Nat /\ m[q] \in Nat  BY <1>0
   <4>2. m[p] < n  BY <2>3, <4>1
   <4> QED  BY <2>1, <2>2, <4>2
  <3> QED  BY <1>0, <2>2, <3>1
 <2> QED  BY <2>2, <2>3
<1>3. most + 1 \in T
 <2> HIDE DEF T
 <2> QED  BY <1>0, <1>1, <1>2, Induct
<1>4. PICK f \in [D -> V] : \A q \in D : m[q] < most + 1 => f[q] = step[<<q, f>>]  BY <1>3
<1>5. \A q \in D : m[q] < most + 1
 <2> SUFFICES ASSUME NEW q \in D PROVE m[q] < most + 1  OBVIOUS
 <2>1. m[q] \in Nat /\ m[q] <= most  BY <1>0
 <2> QED  BY <1>0, <2>1
<1> QED  BY <1>4, <1>5

-----------------------------------------------------------------------------
Memberships(map) == IsFiniteSet(DOMAIN map) /\ \A x \in DOMAIN map : IsList(map[x])
Held(map, x) == {Z!Of(map, x)[i] : i \in 1..Len(Z!Of(map, x))}
Findings(names) == [roles : SUBSET names, visited : SUBSET names]

\* A name's memberships are a list, of names.
LEMMA HeldAreNames ==
  ASSUME NEW map, Memberships(map), NEW subject
  PROVE  /\ \A x : IsList(Z!Of(map, x)) /\ Len(Z!Of(map, x)) \in Nat /\ Held(map, x) = Z!ToSet(Z!Of(map, x))
         /\ \A x : Held(map, x) \subseteq Z!NamesOf(map, subject)
         /\ subject \in Z!NamesOf(map, subject)
<1>1. ASSUME NEW x
      PROVE  IsList(Z!Of(map, x)) /\ Len(Z!Of(map, x)) \in Nat /\ Held(map, x) = Z!ToSet(Z!Of(map, x))
 <2>1. IsList(Z!Of(map, x))
  <3>1. IsList(<<>>)  BY DEF IsList
  <3> QED  BY <3>1 DEF Z!Of, Memberships
 <2>2. Len(Z!Of(map, x)) \in Nat /\ DOMAIN Z!Of(map, x) = 1..Len(Z!Of(map, x))  BY <2>1, ListFacts
 <2> QED  BY <2>1, <2>2 DEF Held, Z!ToSet
<1>2. ASSUME NEW x PROVE Held(map, x) \subseteq Z!NamesOf(map, subject)
 <2>1. CASE x \in DOMAIN map
  <3>1. Held(map, x) = Z!ToSet(map[x])  BY <1>1, <2>1 DEF Z!Of
  <3> QED  BY <2>1, <3>1 DEF Z!NamesOf
 <2>2. CASE x \notin DOMAIN map  BY <2>2 DEF Held, Z!Of
 <2> QED  BY <2>1, <2>2
<1>3. subject \in Z!NamesOf(map, subject)  BY DEF Z!NamesOf
<1> QED  BY <1>1, <1>2, <1>3

\* The names are finitely many, and no membership list is endless.
LEMMA NamesAreFinite ==
  ASSUME NEW map, Memberships(map), NEW subject
  PROVE  IsFiniteSet(Z!NamesOf(map, subject))
<1> DEFINE S == {Z!ToSet(map[k]) : k \in DOMAIN map}
           f == [k \in DOMAIN map |-> Z!ToSet(map[k])]
<1>1. f \in Surjection(DOMAIN map, S)  BY DEF Surjection
<1>2. IsFiniteSet(S)
 <2> HIDE DEF f, S
 <2> QED  BY <1>1, FS_Surjection DEF Memberships
<1>3. ASSUME NEW T \in S PROVE IsFiniteSet(T)
 <2>1. PICK k \in DOMAIN map : T = Z!ToSet(map[k])  OBVIOUS
 <2>2. IsList(map[k])  BY DEF Memberships
 <2>3. Len(map[k]) \in Nat /\ DOMAIN map[k] = 1..Len(map[k])  BY <2>2, ListFacts
 <2>4. [i \in 1..Len(map[k]) |-> map[k][i]] \in Surjection(1..Len(map[k]), T)
   BY <2>1, <2>3 DEF Surjection, Z!ToSet
 <2>5. IsFiniteSet(1..Len(map[k]))  BY <2>3, FS_Interval
 <2> QED  BY <2>4, <2>5, FS_Surjection
<1>4. IsFiniteSet(UNION S)
 <2> HIDE DEF S
 <2> QED  BY <1>2, <1>3, FS_UNION
<1>5. IsFiniteSet(DOMAIN map \cup UNION S)
 <2> HIDE DEF S
 <2> QED  BY <1>4, FS_Union DEF Memberships
<1>6. IsFiniteSet((DOMAIN map \cup UNION S) \cup {subject})
 <2> HIDE DEF S
 <2> QED  BY <1>5, FS_AddElement
<1> QED  BY <1>6 DEF Z!NamesOf

\* The lists of a finite map are no longer than some number.
LEMMA ListsEnd ==
  ASSUME NEW map, Memberships(map)
  PROVE  \E K \in Nat : \A x : Len(Z!Of(map, x)) <= K
<1> DEFINE f == [x \in DOMAIN map |-> Len(map[x])]
<1>1. f \in [DOMAIN map -> Nat]
 <2>1. \A x \in DOMAIN map : Len(map[x]) \in Nat  BY ListFacts DEF Memberships
 <2> QED  BY <2>1
<1>2. PICK K \in Nat : \A x \in DOMAIN map : f[x] <= K
 <2> HIDE DEF f
 <2> QED  BY <1>1, Bounded DEF Memberships
<1>3. ASSUME NEW x PROVE Len(Z!Of(map, x)) <= K
 <2>1. CASE x \in DOMAIN map  BY <1>2, <2>1 DEF Z!Of
 <2>2. CASE x \notin DOMAIN map  BY <2>2 DEF Z!Of
 <2> QED  BY <2>1, <2>2
<1> QED  BY <1>3

-----------------------------------------------------------------------------
\* How much of a walk is left: the names to visit, and the memberships.
MembersLeft(map, K, name, k) == IF k > Len(Z!Of(map, name)) THEN 0 ELSE Len(Z!Of(map, name)) - k + 1
Weight(map, subject, K, name, k, visited) ==
  Cardinality(Z!NamesOf(map, subject) \ visited) * (K + 1) + MembersLeft(map, K, name, k)

\* A name left to visit outweighs any place in a list.
LEMMA Weighing ==
  ASSUME NEW c \in Nat, NEW d \in Nat, NEW K \in Nat, c < d
  PROVE  c * (K + 1) + K < d * (K + 1)
<1>1. d = c + 1 + (d - c - 1) /\ d - c - 1 \in Nat  OBVIOUS
<1>2. ASSUME NEW e \in Nat PROVE c * (K + 1) + K < (c + 1 + e) * (K + 1)
 <2>1. (c + 1 + e) * (K + 1) = c * (K + 1) + (K + 1) + e * (K + 1)  OBVIOUS
 <2>2. e * (K + 1) >= 0 /\ c * (K + 1) \in Nat /\ e * (K + 1) \in Nat  OBVIOUS
 <2> QED  BY <2>1, <2>2
<1>3. c * (K + 1) + K < (c + 1 + (d - c - 1)) * (K + 1)  BY <1>1, <1>2
<1> QED  BY <1>1, <1>3

\* More names left to visit weigh no less.
LEMMA LighterSame ==
  ASSUME NEW c \in Nat, NEW d \in Nat, NEW K \in Nat, c <= d
  PROVE  c * (K + 1) <= d * (K + 1)
<1>1. CASE c = d  BY <1>1
<1>2. CASE c < d
 <2>1. c * (K + 1) + K < d * (K + 1)  BY <1>2, Weighing
 <2>2. c * (K + 1) \in Nat /\ d * (K + 1) \in Nat  OBVIOUS
 <2> QED  BY <2>1, <2>2
<1> QED  BY <1>1, <1>2

\* A step of the walk, into a membership or on to the next, leaves less.
LEMMA LessIsLeft ==
  ASSUME NEW map, Memberships(map), NEW subject, NEW K \in Nat, \A x : Len(Z!Of(map, x)) <= K,
         NEW name, NEW k \in Nat \ {0}, NEW visited \in SUBSET Z!NamesOf(map, subject)
  PROVE  /\ Weight(map, subject, K, name, k, visited) \in Nat
         /\ Weight(map, subject, K, name, k, visited)
              <= Cardinality(Z!NamesOf(map, subject)) * (K + 1) + K
         /\ k <= Len(Z!Of(map, name)) =>
              /\ \A role \in Z!NamesOf(map, subject) \ visited :
                   Weight(map, subject, K, role, 1, visited \cup {role}) < Weight(map, subject, K, name, k, visited)
              /\ \A more \in SUBSET Z!NamesOf(map, subject) :
                   Weight(map, subject, K, name, k + 1, visited \cup more) < Weight(map, subject, K, name, k, visited)
<1> DEFINE names == Z!NamesOf(map, subject)
           L(x) == Len(Z!Of(map, x))
           C(v) == Cardinality(names \ v)
<1>1. \A x : L(x) \in Nat /\ L(x) <= K  BY HeldAreNames
<1>2. IsFiniteSet(names)  BY NamesAreFinite
<1> HIDE DEF names, L
<1>3. \A v, w \in SUBSET names : C(v) \in Nat /\ C(v \cup w) <= C(v) /\ C(v) <= Cardinality(names)
 <2> SUFFICES ASSUME NEW v \in SUBSET names, NEW w \in SUBSET names
              PROVE  C(v) \in Nat /\ C(v \cup w) <= C(v) /\ C(v) <= Cardinality(names)  OBVIOUS
 <2>1. names \ v \in SUBSET names /\ names \ (v \cup w) \in SUBSET (names \ v)  OBVIOUS
 <2>2. IsFiniteSet(names \ v) /\ C(v) <= Cardinality(names)  BY <1>2, <2>1, FS_Subset
 <2>3. C(v \cup w) <= C(v)  BY <2>1, <2>2, FS_Subset
 <2> QED  BY <2>2, <2>3, FS_CardinalityType
<1>4. \A v \in SUBSET names, role \in names : role \notin v => C(v \cup {role}) = C(v) - 1
 <2> SUFFICES ASSUME NEW v \in SUBSET names, NEW role \in names, role \notin v
              PROVE  C(v \cup {role}) = C(v) - 1  OBVIOUS
 <2>1. names \ (v \cup {role}) = (names \ v) \ {role} /\ role \in names \ v  OBVIOUS
 <2>2. IsFiniteSet(names \ v)  BY <1>2, FS_Subset
 <2> QED  BY <2>1, <2>2, FS_RemoveElement, ZenonT(60)
<1>5. Cardinality(names) \in Nat  BY <1>2, FS_CardinalityType
<1> HIDE DEF C
<1>6. \A x, j \in Nat : MembersLeft(map, K, x, j) \in Nat  BY <1>1 DEF MembersLeft, L
<1>6a. \A x : \A j \in Nat \ {0} : MembersLeft(map, K, x, j) \in Nat /\ MembersLeft(map, K, x, j) <= K
  BY <1>1 DEF MembersLeft, L
<1>7. \A x, j, v : Weight(map, subject, K, x, j, v) = C(v) * (K + 1) + MembersLeft(map, K, x, j)
  BY DEF Weight, C, names
<1>8. visited \in SUBSET names  BY DEF names
<1>9. C(visited) \in Nat /\ C(visited) <= Cardinality(names)  BY <1>3, <1>8
<1>10. C(visited) * (K + 1) \in Nat /\ C(visited) * (K + 1) <= Cardinality(names) * (K + 1)
       /\ Cardinality(names) * (K + 1) \in Nat  BY <1>5, <1>9, LighterSame
<1>11. /\ Weight(map, subject, K, name, k, visited) \in Nat
       /\ Weight(map, subject, K, name, k, visited) <= Cardinality(names) * (K + 1) + K  BY <1>6a, <1>7, <1>10
<1>12. ASSUME k <= L(name), NEW role \in names \ visited
       PROVE  Weight(map, subject, K, role, 1, visited \cup {role}) < Weight(map, subject, K, name, k, visited)
 <2>1. C(visited \cup {role}) = C(visited) - 1 /\ C(visited \cup {role}) \in Nat  BY <1>3, <1>4, <1>8, <1>12
 <2>2. C(visited \cup {role}) * (K + 1) + K < C(visited) * (K + 1)  BY <1>9, <2>1, Weighing
 <2>3. C(visited \cup {role}) * (K + 1) \in Nat  BY <2>1
 <2>4. MembersLeft(map, K, role, 1) \in Nat /\ MembersLeft(map, K, role, 1) <= K /\ MembersLeft(map, K, name, k) \in Nat
   BY <1>6a
 <2> QED  BY <1>7, <1>10, <2>2, <2>3, <2>4
<1>13. ASSUME k <= L(name), NEW more \in SUBSET names
       PROVE  Weight(map, subject, K, name, k + 1, visited \cup more) < Weight(map, subject, K, name, k, visited)
 <2>1. C(visited \cup more) \in Nat /\ C(visited \cup more) <= C(visited)  BY <1>3, <1>8
 <2>2. C(visited \cup more) * (K + 1) <= C(visited) * (K + 1) /\ C(visited \cup more) * (K + 1) \in Nat
   BY <1>9, <2>1, LighterSame
 <2>3. /\ MembersLeft(map, K, name, k + 1) \in Nat /\ MembersLeft(map, K, name, k) \in Nat
       /\ MembersLeft(map, K, name, k + 1) < MembersLeft(map, K, name, k)  BY <1>1, <1>13 DEF MembersLeft, L
 <2> QED  BY <1>7, <1>10, <2>2, <2>3
<1> QED  BY <1>11, <1>12, <1>13 DEF names, L

-----------------------------------------------------------------------------
\* A step of the walk finds names, and looks only at lighter places.
Below(map, f, role, visited) ==
  IF role \in visited THEN Z!Resolved({}, visited) ELSE f[<<role, 1, visited \cup {role}>>]
After(map, f, name, k, visited) ==
  f[<<name, k + 1, visited \cup Below(map, f, Z!Of(map, name)[k], visited).visited>>]

\* Past the last membership nothing is found.
LEMMA RestEnds ==
  ASSUME NEW map, NEW f, NEW name, NEW k, NEW visited, k > Len(Z!Of(map, name))
  PROVE  Z!Rest(map, f, name, k, visited) = Z!Resolved({}, visited)
BY DEF Z!Rest

\* A membership is found, then what is below it, then what is after it.
LEMMA RestGoesOn ==
  ASSUME NEW map, NEW f, NEW name, NEW k, NEW visited, ~(k > Len(Z!Of(map, name)))
  PROVE  Z!Rest(map, f, name, k, visited) =
           Z!Resolved({Z!Of(map, name)[k]} \cup Below(map, f, Z!Of(map, name)[k], visited).roles
                        \cup After(map, f, name, k, visited).roles,
                      After(map, f, name, k, visited).visited)
BY DEF Z!Rest, Below, After

\* A finding has roles and visited names.
LEMMA ResolvedIs ==
  ASSUME NEW names, NEW roles \in SUBSET names, NEW visited \in SUBSET names
  PROVE  /\ Z!Resolved(roles, visited) \in Findings(names)
         /\ Z!Resolved(roles, visited).roles = roles /\ Z!Resolved(roles, visited).visited = visited
BY DEF Z!Resolved, Findings

\* A step of the walk finds names only.
LEMMA StepFinds ==
  ASSUME NEW map, Memberships(map), NEW subject, NEW f \in [Z!Places(map, subject) -> Findings(Z!NamesOf(map, subject))],
         NEW name \in Z!NamesOf(map, subject), NEW k \in Nat \ {0}, NEW visited \in SUBSET Z!NamesOf(map, subject)
  PROVE  /\ k <= Len(Z!Of(map, name)) =>
              /\ Z!Of(map, name)[k] \in Z!NamesOf(map, subject)
              /\ Below(map, f, Z!Of(map, name)[k], visited) \in Findings(Z!NamesOf(map, subject))
              /\ After(map, f, name, k, visited) \in Findings(Z!NamesOf(map, subject))
         /\ Z!Rest(map, f, name, k, visited) \in Findings(Z!NamesOf(map, subject))
<1> DEFINE names == Z!NamesOf(map, subject)
           role == Z!Of(map, name)[k]
<1>1. f \in [names \X (Nat \ {0}) \X SUBSET names -> Findings(names)]  BY DEF Z!Places
<1>2. Len(Z!Of(map, name)) \in Nat /\ Held(map, name) \subseteq names  BY HeldAreNames
<1>3. ASSUME k <= Len(Z!Of(map, name))
      PROVE  role \in names /\ Below(map, f, role, visited) \in Findings(names) /\ After(map, f, name, k, visited) \in Findings(names)
 <2>1. role \in names
  <3>1. k \in 1..Len(Z!Of(map, name))  BY <1>2, <1>3
  <3> QED  BY <1>2, <3>1 DEF Held
 <2> HIDE DEF role, names
 <2>2. Below(map, f, role, visited) \in Findings(names)
  <3>1. visited \cup {role} \in SUBSET names  BY <2>1 DEF names
  <3>2. <<role, 1, visited \cup {role}>> \in names \X (Nat \ {0}) \X SUBSET names  BY <2>1, <3>1
  <3>3. f[<<role, 1, visited \cup {role}>>] \in Findings(names)  BY <1>1, <3>2
  <3>4. Z!Resolved({}, visited) \in Findings(names)  BY ResolvedIs DEF names
  <3> QED  BY <3>3, <3>4 DEF Below
 <2>3. visited \cup Below(map, f, role, visited).visited \in SUBSET names  BY <2>2 DEF Findings, names
 <2>4. <<name, k + 1, visited \cup Below(map, f, role, visited).visited>> \in names \X (Nat \ {0}) \X SUBSET names
   BY <2>3 DEF names
 <2>5. After(map, f, name, k, visited) \in Findings(names)  BY <1>1, <2>4 DEF After, role
 <2> QED  BY <2>1, <2>2, <2>5
<1>4. Z!Rest(map, f, name, k, visited) \in Findings(names)
 <2>1. CASE k > Len(Z!Of(map, name))
  <3>1. Z!Rest(map, f, name, k, visited) = Z!Resolved({}, visited)  BY <2>1, RestEnds
  <3> HIDE DEF names
  <3> QED  BY <3>1, ResolvedIs DEF names
 <2>2. CASE ~(k > Len(Z!Of(map, name)))
  <3>1. k <= Len(Z!Of(map, name))  BY <1>2, <2>2
  <3> HIDE DEF names, role
  <3>2. role \in names /\ Below(map, f, role, visited).roles \in SUBSET names
        /\ After(map, f, name, k, visited).roles \in SUBSET names /\ After(map, f, name, k, visited).visited \in SUBSET names
    BY <1>3, <3>1 DEF Findings
  <3>3. {role} \cup Below(map, f, role, visited).roles \cup After(map, f, name, k, visited).roles \in SUBSET names
    BY <3>2
  <3>4. Z!Rest(map, f, name, k, visited) =
          Z!Resolved({role} \cup Below(map, f, role, visited).roles \cup After(map, f, name, k, visited).roles,
                     After(map, f, name, k, visited).visited)  BY <2>2, RestGoesOn DEF role
  <3> QED  BY <3>2, <3>3, <3>4, ResolvedIs
 <2> QED  BY <2>1, <2>2
<1> QED  BY <1>3, <1>4

\* What a step finds depends on the lighter places only.
Lighter(map, subject, K, name, k, visited, f, g) ==
  \A x \in Z!NamesOf(map, subject), j \in Nat \ {0}, v \in SUBSET Z!NamesOf(map, subject) :
    Weight(map, subject, K, x, j, v) < Weight(map, subject, K, name, k, visited) => f[<<x, j, v>>] = g[<<x, j, v>>]

\* A step of the walk is the same over functions that agree on lighter places.
LEMMA RestLooksDown ==
  ASSUME NEW map, Memberships(map), NEW subject, NEW K \in Nat, \A x : Len(Z!Of(map, x)) <= K,
         NEW f \in [Z!Places(map, subject) -> Findings(Z!NamesOf(map, subject))], NEW g,
         NEW name \in Z!NamesOf(map, subject), NEW k \in Nat \ {0}, NEW visited \in SUBSET Z!NamesOf(map, subject),
         Lighter(map, subject, K, name, k, visited, f, g)
  PROVE  Z!Rest(map, f, name, k, visited) = Z!Rest(map, g, name, k, visited)
<1> DEFINE names == Z!NamesOf(map, subject)
           role == Z!Of(map, name)[k]
<1>1. CASE k > Len(Z!Of(map, name))
 <2>1. Z!Rest(map, f, name, k, visited) = Z!Resolved({}, visited)  BY <1>1, RestEnds
 <2>2. Z!Rest(map, g, name, k, visited) = Z!Resolved({}, visited)  BY <1>1, RestEnds
 <2> QED  BY <2>1, <2>2
<1>2. CASE ~(k > Len(Z!Of(map, name)))
 <2>1. k <= Len(Z!Of(map, name))
  <3>1. Len(Z!Of(map, name)) \in Nat  BY HeldAreNames
  <3> QED  BY <1>2, <3>1
 <2>2. role \in names /\ Below(map, f, role, visited) \in Findings(names)  BY <2>1, StepFinds
 <2>3. Below(map, f, role, visited) = Below(map, g, role, visited)
  <3>1. CASE role \in visited  BY <3>1 DEF Below
  <3>2. CASE role \notin visited
   <4>1. Weight(map, subject, K, role, 1, visited \cup {role}) < Weight(map, subject, K, name, k, visited)
     BY <2>1, <2>2, <3>2, LessIsLeft
   <4>2. visited \cup {role} \in SUBSET names /\ 1 \in Nat \ {0}  BY <2>2
   <4> HIDE DEF role
   <4>3. f[<<role, 1, visited \cup {role}>>] = g[<<role, 1, visited \cup {role}>>]
     BY <2>2, <4>1, <4>2 DEF Lighter
   <4> QED  BY <3>2, <4>3 DEF Below
  <3> QED  BY <3>1, <3>2
 <2> DEFINE more == Below(map, f, role, visited).visited
 <2>4. more \in SUBSET names  BY <2>2 DEF Findings
 <2>5. f[<<name, k + 1, visited \cup more>>] = g[<<name, k + 1, visited \cup more>>]
  <3> HIDE DEF more
  <3>1. Weight(map, subject, K, name, k + 1, visited \cup more) < Weight(map, subject, K, name, k, visited)
    BY <2>1, <2>4, LessIsLeft
  <3>2. visited \cup more \in SUBSET names /\ k + 1 \in Nat \ {0}  BY <2>4
  <3> QED  BY <3>1, <3>2 DEF Lighter
 <2>6. After(map, f, name, k, visited) = After(map, g, name, k, visited)  BY <2>3, <2>5 DEF After
 <2>7. Z!Rest(map, f, name, k, visited) =
         Z!Resolved({role} \cup Below(map, f, role, visited).roles \cup After(map, f, name, k, visited).roles,
                    After(map, f, name, k, visited).visited)  BY <1>2, RestGoesOn
 <2>8. Z!Rest(map, g, name, k, visited) =
         Z!Resolved({role} \cup Below(map, g, role, visited).roles \cup After(map, g, name, k, visited).roles,
                    After(map, g, name, k, visited).visited)  BY <1>2, RestGoesOn
 <2> HIDE DEF role
 <2> QED  BY <2>3, <2>6, <2>7, <2>8
<1> QED  BY <1>1, <1>2

\* The walk exists.
Walk(map, subject, f) ==
  /\ f \in [Z!Places(map, subject) -> Findings(Z!NamesOf(map, subject))]
  /\ \A name \in Z!NamesOf(map, subject), k \in Nat \ {0}, visited \in SUBSET Z!NamesOf(map, subject) :
       f[<<name, k, visited>>] = Z!Rest(map, f, name, k, visited)

\* The walk that resolve_roles defines is a function.
LEMMA WalkExists ==
  ASSUME NEW map, Memberships(map), NEW subject
  PROVE  \E f : Walk(map, subject, f)
<1> DEFINE names == Z!NamesOf(map, subject)
           D == names \X (Nat \ {0}) \X SUBSET names
           V == Findings(names)
<1>1. PICK K \in Nat : \A x : Len(Z!Of(map, x)) <= K  BY ListsEnd
<1> DEFINE m == [q \in D |-> Weight(map, subject, K, q[1], q[2], q[3])]
           most == Cardinality(names) * (K + 1) + K
           step == [p \in D \X [D -> V] |-> Z!Rest(map, p[2], p[1][1], p[1][2], p[1][3])]
<1>2. V # {}
 <2>1. [roles |-> {}, visited |-> {}] \in V  BY DEF Findings
 <2> QED  BY <2>1
<1>3. most \in Nat
 <2>1. Cardinality(names) \in Nat  BY NamesAreFinite, FS_CardinalityType
 <2> HIDE DEF names
 <2> QED  BY <2>1
<1>4. \A q \in D : q[1] \in names /\ q[2] \in Nat \ {0} /\ q[3] \in SUBSET names /\ q = <<q[1], q[2], q[3]>>
 <2> HIDE DEF names
 <2> QED  OBVIOUS
<1>5. m \in [D -> Nat] /\ \A q \in D : m[q] <= most
 <2>1. \A q \in D : Weight(map, subject, K, q[1], q[2], q[3]) \in Nat /\ Weight(map, subject, K, q[1], q[2], q[3]) <= most
  <3> SUFFICES ASSUME NEW q \in D
               PROVE  Weight(map, subject, K, q[1], q[2], q[3]) \in Nat /\ Weight(map, subject, K, q[1], q[2], q[3]) <= most
    OBVIOUS
  <3>1. q[1] \in names /\ q[2] \in Nat \ {0} /\ q[3] \in SUBSET names  BY <1>4
  <3> QED  BY <1>1, <3>1, LessIsLeft
 <2> HIDE DEF D, most
 <2> QED  BY <2>1
<1>6. \A q \in D : \A f \in [D -> V] : step[<<q, f>>] = Z!Rest(map, f, q[1], q[2], q[3])
 <2> HIDE DEF D, V
 <2> QED  OBVIOUS
<1>7. D = Z!Places(map, subject)  BY DEF Z!Places
<1>8. \A q \in D : \A f \in [D -> V] : step[<<q, f>>] \in V
 <2> SUFFICES ASSUME NEW q \in D, NEW f \in [D -> V] PROVE step[<<q, f>>] \in V  OBVIOUS
 <2>1. q[1] \in names /\ q[2] \in Nat \ {0} /\ q[3] \in SUBSET names  BY <1>4
 <2>2. step[<<q, f>>] = Z!Rest(map, f, q[1], q[2], q[3])  BY <1>6
 <2>3. f \in [Z!Places(map, subject) -> Findings(Z!NamesOf(map, subject))]  BY <1>7
 <2>4. Z!Rest(map, f, q[1], q[2], q[3]) \in Findings(Z!NamesOf(map, subject))  BY <2>1, <2>3, StepFinds
 <2> QED  BY <2>2, <2>4
<1>9. ASSUME NEW q \in D, NEW f \in [D -> V], NEW g \in [D -> V], \A p \in D : m[p] < m[q] => f[p] = g[p]
      PROVE  step[<<q, f>>] = step[<<q, g>>]
 <2>1. q[1] \in names /\ q[2] \in Nat \ {0} /\ q[3] \in SUBSET names  BY <1>4
 <2>2. step[<<q, f>>] = Z!Rest(map, f, q[1], q[2], q[3]) /\ step[<<q, g>>] = Z!Rest(map, g, q[1], q[2], q[3])
   BY <1>6
 <2>3. m[q] = Weight(map, subject, K, q[1], q[2], q[3])
  <3> HIDE DEF D
  <3> QED  OBVIOUS
 <2>4. ASSUME NEW x \in names, NEW j \in Nat \ {0}, NEW v \in SUBSET names
       PROVE  <<x, j, v>> \in D /\ m[<<x, j, v>>] = Weight(map, subject, K, x, j, v)
  <3> HIDE DEF names
  <3> QED  OBVIOUS
 <2> HIDE DEF step, m
 <2>5. Lighter(map, subject, K, q[1], q[2], q[3], f, g)
  <3> SUFFICES ASSUME NEW x \in names, NEW j \in Nat \ {0}, NEW v \in SUBSET names,
                      Weight(map, subject, K, x, j, v) < Weight(map, subject, K, q[1], q[2], q[3])
               PROVE  f[<<x, j, v>>] = g[<<x, j, v>>]  BY DEF Lighter
  <3>1. <<x, j, v>> \in D /\ m[<<x, j, v>>] < m[q]
   <4> HIDE DEF D
   <4> QED  BY <2>3, <2>4
  <3> HIDE DEF D
  <3> QED  BY <1>9, <3>1
 <2>6. f \in [Z!Places(map, subject) -> Findings(Z!NamesOf(map, subject))]  BY <1>7
 <2>7. Z!Rest(map, f, q[1], q[2], q[3]) = Z!Rest(map, g, q[1], q[2], q[3])
   BY <1>1, <2>1, <2>5, <2>6, RestLooksDown
 <2> QED  BY <2>2, <2>7
<1>9a. \A q \in D : \A f, g \in [D -> V] :
         (\A p \in D : m[p] < m[q] => f[p] = g[p]) => step[<<q, f>>] = step[<<q, g>>]
 <2> HIDE DEF D, V, m, step
 <2> QED  BY <1>9
<1>9b. Descends(D, V, m, most, step)
 <2> HIDE DEF D, V, m, most, step
 <2> QED  BY <1>2, <1>3, <1>5, <1>8, <1>9a DEF Descends
<1>10. PICK f \in [D -> V] : \A q \in D : f[q] = step[<<q, f>>]
 <2> HIDE DEF D, V, m, most, step
 <2> QED  BY <1>9b, Descent
<1>11. ASSUME NEW name \in names, NEW k \in Nat \ {0}, NEW visited \in SUBSET names
       PROVE  f[<<name, k, visited>>] = Z!Rest(map, f, name, k, visited)
 <2> DEFINE q == <<name, k, visited>>
 <2>1. q \in D /\ q[1] = name /\ q[2] = k /\ q[3] = visited
  <3> HIDE DEF names
  <3> QED  OBVIOUS
 <2> HIDE DEF q, D, step
 <2> QED  BY <1>6, <1>10, <2>1 DEF q
<1> QED  BY <1>7, <1>10, <1>11 DEF Walk

-----------------------------------------------------------------------------
\* What a walk from a place finds: the memberships from there on, with every
\* name it visits the memberships of that, and nothing that is not among them.
Ahead(map, name, k) == {Z!Of(map, name)[i] : i \in {j \in 1..Len(Z!Of(map, name)) : k <= j}}
Finds(map, first, visited, found) ==
  /\ visited \subseteq found.visited /\ found.roles \subseteq found.visited
  /\ first \subseteq found.roles
  /\ \A u \in found.visited \ visited : u \in found.roles /\ Held(map, u) \subseteq found.roles
  /\ \A roles : Z!Closed(map, roles) /\ first \subseteq roles => found.roles \subseteq roles

\* What the walk into one membership brings.
Brings(map, role, visited, found) ==
  /\ visited \cup {role} \subseteq found.visited /\ found.roles \subseteq found.visited
  /\ \A u \in found.visited \ visited : u \in found.roles \cup {role} /\ Held(map, u) \subseteq found.roles
  /\ \A roles : Z!Closed(map, roles) /\ role \in roles => found.roles \subseteq roles

\* From the first membership on, all are ahead.
LEMMA AllAhead ==
  ASSUME NEW map, Memberships(map), NEW name
  PROVE  Ahead(map, name, 1) = Held(map, name)
<1>1. Len(Z!Of(map, name)) \in Nat  BY HeldAreNames
<1>2. {j \in 1..Len(Z!Of(map, name)) : 1 <= j} = 1..Len(Z!Of(map, name))  BY <1>1
<1> QED  BY <1>2 DEF Ahead, Held

\* What a visited membership brings.
LEMMA BelowBrings ==
  ASSUME NEW map, Memberships(map), NEW f, NEW role, NEW visited,
         role \notin visited => Finds(map, Ahead(map, role, 1), visited \cup {role}, f[<<role, 1, visited \cup {role}>>])
  PROVE  Brings(map, role, visited, Below(map, f, role, visited))
<1>1. CASE role \in visited
 <2>1. Below(map, f, role, visited).roles = {} /\ Below(map, f, role, visited).visited = visited
   BY <1>1 DEF Below, Z!Resolved
 <2> QED  BY <1>1, <2>1 DEF Brings
<1>2. CASE role \notin visited
 <2> DEFINE found == Below(map, f, role, visited)
 <2>1. Finds(map, Held(map, role), visited \cup {role}, found)  BY <1>2, AllAhead DEF Below
 <2> HIDE DEF found
 <2>2. ASSUME NEW roles, Z!Closed(map, roles), role \in roles PROVE found.roles \subseteq roles
  <3>1. Held(map, role) \subseteq roles  BY <2>2, HeldAreNames DEF Z!Closed
  <3> QED  BY <2>1, <2>2, <3>1 DEF Finds
 <2>3. ASSUME NEW u \in found.visited \ visited PROVE u \in found.roles \cup {role} /\ Held(map, u) \subseteq found.roles
  <3>1. CASE u = role  BY <2>1, <3>1 DEF Finds
  <3>2. CASE u # role  BY <2>1, <3>2 DEF Finds
  <3> QED  BY <3>1, <3>2
 <2>4. visited \cup {role} \subseteq found.visited /\ found.roles \subseteq found.visited  BY <2>1 DEF Finds
 <2>5. Brings(map, role, visited, found)  BY <2>2, <2>3, <2>4 DEF Brings
 <2> QED  BY <2>5 DEF found
<1> QED  BY <1>1, <1>2

\* A membership, what it brings and what the rest finds, together.
LEMMA FindingsJoin ==
  ASSUME NEW map, NEW role, NEW visited, NEW below, Brings(map, role, visited, below),
         NEW later, NEW rest, Finds(map, later, visited \cup below.visited, rest)
  PROVE  Finds(map, {role} \cup later, visited, Z!Resolved({role} \cup below.roles \cup rest.roles, rest.visited))
<1> DEFINE found == Z!Resolved({role} \cup below.roles \cup rest.roles, rest.visited)
<1>1. found.roles = {role} \cup below.roles \cup rest.roles /\ found.visited = rest.visited  BY DEF Z!Resolved
<1> HIDE DEF found
<1>2. visited \subseteq found.visited /\ found.roles \subseteq found.visited /\ {role} \cup later \subseteq found.roles
  BY <1>1 DEF Finds, Brings
<1>3. ASSUME NEW u \in found.visited \ visited PROVE u \in found.roles /\ Held(map, u) \subseteq found.roles
 <2>1. CASE u \in below.visited
  <3>1. u \in below.roles \cup {role} /\ Held(map, u) \subseteq below.roles  BY <1>3, <2>1 DEF Brings
  <3> QED  BY <1>1, <3>1
 <2>2. CASE u \notin below.visited
  <3>1. u \in rest.roles /\ Held(map, u) \subseteq rest.roles  BY <1>1, <1>3, <2>2 DEF Finds
  <3> QED  BY <1>1, <3>1
 <2> QED  BY <2>1, <2>2
<1>4. ASSUME NEW roles, Z!Closed(map, roles), {role} \cup later \subseteq roles PROVE found.roles \subseteq roles
 <2>1. below.roles \subseteq roles  BY <1>4 DEF Brings
 <2>2. rest.roles \subseteq roles  BY <1>4 DEF Finds
 <2> QED  BY <1>1, <1>4, <2>1, <2>2
<1>5. Finds(map, {role} \cup later, visited, found)  BY <1>2, <1>3, <1>4 DEF Finds
<1> QED  BY <1>5 DEF found

\* What is ahead is the membership here and what is ahead of the next.
LEMMA AheadSplits ==
  ASSUME NEW map, Memberships(map), NEW name, NEW k \in Nat \ {0}
  PROVE  /\ k > Len(Z!Of(map, name)) => Ahead(map, name, k) = {}
         /\ k <= Len(Z!Of(map, name)) => Ahead(map, name, k) = {Z!Of(map, name)[k]} \cup Ahead(map, name, k + 1)
<1> DEFINE n == Len(Z!Of(map, name))
           J(i) == {j \in 1..n : i <= j}
<1>1. n \in Nat  BY HeldAreNames
<1> HIDE DEF n
<1>2. k > n => J(k) = {}  BY <1>1
<1>3. k <= n => J(k) = {k} \cup J(k + 1)  BY <1>1
<1>4. \A i : Ahead(map, name, i) = {Z!Of(map, name)[j] : j \in J(i)}  BY DEF Ahead, n
<1> HIDE DEF J
<1> QED  BY <1>2, <1>3, <1>4 DEF n

Seen(map, subject, f, name, k, visited) == Finds(map, Ahead(map, name, k), visited, f[<<name, k, visited>>])

\* A walk whose lighter places find what they should does.
LEMMA WalkStep ==
  ASSUME NEW map, Memberships(map), NEW subject, NEW f, Walk(map, subject, f),
         NEW name \in Z!NamesOf(map, subject), NEW k \in Nat \ {0}, NEW visited \in SUBSET Z!NamesOf(map, subject),
         k <= Len(Z!Of(map, name)) =>
           /\ \A role \in Z!NamesOf(map, subject) \ visited : Seen(map, subject, f, role, 1, visited \cup {role})
           /\ \A more \in SUBSET Z!NamesOf(map, subject) : Seen(map, subject, f, name, k + 1, visited \cup more)
  PROVE  Seen(map, subject, f, name, k, visited)
<1>0. Len(Z!Of(map, name)) \in Nat  BY HeldAreNames
<1>1. f[<<name, k, visited>>] = Z!Rest(map, f, name, k, visited)  BY DEF Walk
<1>2. CASE k > Len(Z!Of(map, name))
 <2> DEFINE found == f[<<name, k, visited>>]
 <2>1. found.roles = {} /\ found.visited = visited  BY <1>1, <1>2, RestEnds DEF Z!Resolved
 <2>2. Ahead(map, name, k) = {}  BY <1>2, AheadSplits
 <2> HIDE DEF found
 <2>3. Finds(map, {}, visited, found)  BY <2>1 DEF Finds
 <2> QED  BY <2>2, <2>3 DEF found, Seen
<1>3. CASE ~(k > Len(Z!Of(map, name)))
 <2> DEFINE role == Z!Of(map, name)[k]
            below == Below(map, f, role, visited)
            rest == After(map, f, name, k, visited)
 <2>1. k <= Len(Z!Of(map, name))  BY <1>0, <1>3
 <2>2. role \in Z!NamesOf(map, subject) /\ below \in Findings(Z!NamesOf(map, subject))  BY <2>1, StepFinds DEF Walk
 <2>3. role \notin visited => Finds(map, Ahead(map, role, 1), visited \cup {role}, f[<<role, 1, visited \cup {role}>>])
  <3> HIDE DEF role
  <3> QED  BY <2>1, <2>2 DEF Seen
 <2>4. Brings(map, role, visited, below)
  <3> HIDE DEF role
  <3> QED  BY <2>3, BelowBrings
 <2>5. below.visited \in SUBSET Z!NamesOf(map, subject)
  <3> HIDE DEF below
  <3> QED  BY <2>2 DEF Findings
 <2>6. Finds(map, Ahead(map, name, k + 1), visited \cup below.visited, rest)
  <3>1. Seen(map, subject, f, name, k + 1, visited \cup below.visited)
   <4> HIDE DEF below
   <4> QED  BY <2>1, <2>5
  <3>2. rest = f[<<name, k + 1, visited \cup below.visited>>]  BY DEF After
  <3> HIDE DEF rest, below
  <3> QED  BY <3>1, <3>2 DEF Seen
 <2>7. Ahead(map, name, k) = {role} \cup Ahead(map, name, k + 1)  BY <2>1, AheadSplits
 <2>8. f[<<name, k, visited>>] = Z!Resolved({role} \cup below.roles \cup rest.roles, rest.visited)
   BY <1>1, <1>3, RestGoesOn
 <2> HIDE DEF role, below, rest
 <2>9. Finds(map, {role} \cup Ahead(map, name, k + 1), visited, Z!Resolved({role} \cup below.roles \cup rest.roles, rest.visited))
   BY <2>4, <2>6, FindingsJoin
 <2> QED  BY <2>7, <2>8, <2>9 DEF Seen
<1> QED  BY <1>2, <1>3

\* The walk from any place finds all that is ahead of it.
LEMMA WalkFinds ==
  ASSUME NEW map, Memberships(map), NEW subject, NEW f, Walk(map, subject, f)
  PROVE  \A name \in Z!NamesOf(map, subject), k \in Nat \ {0}, visited \in SUBSET Z!NamesOf(map, subject) :
           Seen(map, subject, f, name, k, visited)
<1> DEFINE names == Z!NamesOf(map, subject)
<1>1. PICK K \in Nat : \A x : Len(Z!Of(map, x)) <= K  BY ListsEnd
<1> DEFINE W(name, k, visited) == Weight(map, subject, K, name, k, visited)
           G(name, k, visited) == Seen(map, subject, f, name, k, visited)
           most == Cardinality(names) * (K + 1) + K
           T == {n \in Nat : \A name \in names, k \in Nat \ {0}, visited \in SUBSET names :
                               W(name, k, visited) < n => G(name, k, visited)}
<1>2. most \in Nat
 <2>1. Cardinality(names) \in Nat  BY NamesAreFinite, FS_CardinalityType
 <2> HIDE DEF names
 <2> QED  BY <2>1
<1>3. ASSUME NEW name \in names, NEW k \in Nat \ {0}, NEW visited \in SUBSET names
      PROVE  /\ W(name, k, visited) \in Nat /\ W(name, k, visited) <= most
             /\ k <= Len(Z!Of(map, name)) =>
                  /\ \A role \in names \ visited : W(role, 1, visited \cup {role}) < W(name, k, visited)
                  /\ \A more \in SUBSET names : W(name, k + 1, visited \cup more) < W(name, k, visited)
  BY <1>1, LessIsLeft
<1>4. ASSUME NEW name \in names, NEW k \in Nat \ {0}, NEW visited \in SUBSET names,
             k <= Len(Z!Of(map, name)) =>
               /\ \A role \in names \ visited : G(role, 1, visited \cup {role})
               /\ \A more \in SUBSET names : G(name, k + 1, visited \cup more)
      PROVE  G(name, k, visited)  BY <1>4, WalkStep
<1> HIDE DEF names, W, G, most
<1>5. 0 \in T
 <2>1. ASSUME NEW name \in names, NEW k \in Nat \ {0}, NEW visited \in SUBSET names PROVE ~(W(name, k, visited) < 0)
   BY <1>3
 <2> QED  BY <2>1
<1>6. ASSUME NEW n \in Nat, n \in T PROVE n + 1 \in T
 <2>1. ASSUME NEW name \in names, NEW k \in Nat \ {0}, NEW visited \in SUBSET names, W(name, k, visited) < n + 1
       PROVE  G(name, k, visited)
  <3>1. ASSUME k <= Len(Z!Of(map, name)), NEW role \in names \ visited PROVE G(role, 1, visited \cup {role})
   <4>1. W(role, 1, visited \cup {role}) < W(name, k, visited)  BY <1>3, <3>1
   <4>2. visited \cup {role} \in SUBSET names /\ 1 \in Nat \ {0} /\ role \in names  OBVIOUS
   <4>3. W(role, 1, visited \cup {role}) \in Nat /\ W(name, k, visited) \in Nat  BY <1>3, <4>2
   <4>4. W(role, 1, visited \cup {role}) < n  BY <2>1, <4>1, <4>3
   <4> QED  BY <1>6, <4>2, <4>4
  <3>2. ASSUME k <= Len(Z!Of(map, name)), NEW more \in SUBSET names PROVE G(name, k + 1, visited \cup more)
   <4>1. W(name, k + 1, visited \cup more) < W(name, k, visited)  BY <1>3, <3>2
   <4>2. visited \cup more \in SUBSET names /\ k + 1 \in Nat \ {0}  OBVIOUS
   <4>3. W(name, k + 1, visited \cup more) \in Nat /\ W(name, k, visited) \in Nat  BY <1>3, <4>2
   <4>4. W(name, k + 1, visited \cup more) < n  BY <2>1, <4>1, <4>3
   <4> QED  BY <1>6, <4>2, <4>4
  <3> QED  BY <1>4, <3>1, <3>2
 <2> QED  BY <2>1
<1>7. most + 1 \in T
 <2> HIDE DEF T
 <2> QED  BY <1>2, <1>5, <1>6, Induct
<1>8. ASSUME NEW name \in names, NEW k \in Nat \ {0}, NEW visited \in SUBSET names PROVE G(name, k, visited)
 <2>1. W(name, k, visited) \in Nat /\ W(name, k, visited) <= most  BY <1>3
 <2>2. W(name, k, visited) < most + 1  BY <1>2, <2>1
 <2> QED  BY <1>7, <2>2
<1> QED  BY <1>8 DEF names, G

\* Whatever the memberships, cycles among them included, the roles that the
\* walk resolves are the least set closed under membership.
LEMMA RolesAreReachable ==
  ASSUME NEW map, Memberships(map), NEW subject
  PROVE  Z!ResolveRoles(map, subject) = Z!Reachable(map, subject)
<1> DEFINE names == Z!NamesOf(map, subject)
           resolve[q \in Z!Places(map, subject)] == Z!Rest(map, resolve, q[1], q[2], q[3])
<1>1. PICK f : Walk(map, subject, f)  BY WalkExists
<1>0. PICK K \in Nat : \A x : Len(Z!Of(map, x)) <= K  BY ListsEnd
<1>i. ASSUME NEW q \in Z!Places(map, subject)
      PROVE  q[1] \in names /\ q[2] \in Nat \ {0} /\ q[3] \in SUBSET names /\ q = <<q[1], q[2], q[3]>>
 <2>1. q \in names \X (Nat \ {0}) \X SUBSET names  BY DEF Z!Places
 <2> HIDE DEF names
 <2> QED  BY <2>1
<1>2. f = [q \in Z!Places(map, subject) |-> Z!Rest(map, f, q[1], q[2], q[3])]
 <2>1. \A q \in Z!Places(map, subject) : f[q] = Z!Rest(map, f, q[1], q[2], q[3])
  <3> SUFFICES ASSUME NEW q \in Z!Places(map, subject) PROVE f[q] = Z!Rest(map, f, q[1], q[2], q[3])  OBVIOUS
  <3> HIDE DEF names
  <3>1. f[<<q[1], q[2], q[3]>>] = Z!Rest(map, f, q[1], q[2], q[3])  BY <1>1, <1>i DEF Walk, names
  <3> QED  BY <1>i, <3>1
 <2>2. f = [q \in Z!Places(map, subject) |-> f[q]]  BY <1>1 DEF Walk
 <2> QED  BY <2>1, <2>2
<1>3. resolve = [q \in Z!Places(map, subject) |-> Z!Rest(map, resolve, q[1], q[2], q[3])]  BY <1>2
<1>4. Z!ResolveRoles(map, subject) = resolve[<<subject, 1, {subject}>>].roles  BY DEF Z!ResolveRoles
<1> HIDE DEF resolve
<1>5. ASSUME NEW name \in names, NEW k \in Nat \ {0}, NEW visited \in SUBSET names
      PROVE  resolve[<<name, k, visited>>] = Z!Rest(map, resolve, name, k, visited)
 <2>1. <<name, k, visited>> \in Z!Places(map, subject)  BY DEF Z!Places
 <2> HIDE DEF names
 <2> QED  BY <1>3, <2>1
<1> DEFINE W(name, k, visited) == Weight(map, subject, K, name, k, visited)
           most == Cardinality(names) * (K + 1) + K
           T == {n \in Nat : \A name \in names, k \in Nat \ {0}, visited \in SUBSET names :
                               W(name, k, visited) < n => f[<<name, k, visited>>] = resolve[<<name, k, visited>>]}
<1>6. most \in Nat
 <2>1. Cardinality(names) \in Nat  BY NamesAreFinite, FS_CardinalityType
 <2> HIDE DEF names
 <2> QED  BY <2>1
<1>7. ASSUME NEW name \in names, NEW k \in Nat \ {0}, NEW visited \in SUBSET names
      PROVE  W(name, k, visited) \in Nat /\ W(name, k, visited) <= most  BY <1>0, LessIsLeft
<1>8. ASSUME NEW name \in names, NEW k \in Nat \ {0}, NEW visited \in SUBSET names,
             Lighter(map, subject, K, name, k, visited, f, resolve)
      PROVE  f[<<name, k, visited>>] = resolve[<<name, k, visited>>]
 <2>1. f \in [Z!Places(map, subject) -> Findings(Z!NamesOf(map, subject))]  BY <1>1 DEF Walk
 <2>2. Z!Rest(map, f, name, k, visited) = Z!Rest(map, resolve, name, k, visited)
   BY <1>0, <1>8, <2>1, RestLooksDown
 <2>3. f[<<name, k, visited>>] = Z!Rest(map, f, name, k, visited)  BY <1>1 DEF Walk
 <2> QED  BY <1>5, <2>2, <2>3
<1> HIDE DEF most
<1>9. 0 \in T
 <2>1. ASSUME NEW name \in names, NEW k \in Nat \ {0}, NEW visited \in SUBSET names PROVE ~(W(name, k, visited) < 0)
  <3> HIDE DEF W
  <3> QED  BY <1>7
 <2> HIDE DEF W, names
 <2> QED  BY <2>1
<1>10. ASSUME NEW n \in Nat, n \in T PROVE n + 1 \in T
 <2>1. ASSUME NEW name \in names, NEW k \in Nat \ {0}, NEW visited \in SUBSET names, W(name, k, visited) < n + 1
       PROVE  f[<<name, k, visited>>] = resolve[<<name, k, visited>>]
  <3>1. ASSUME NEW x \in names, NEW j \in Nat \ {0}, NEW v \in SUBSET names, W(x, j, v) < W(name, k, visited)
        PROVE  f[<<x, j, v>>] = resolve[<<x, j, v>>]
   <4> HIDE DEF W, names
   <4>1. W(x, j, v) \in Nat /\ W(name, k, visited) \in Nat  BY <1>7
   <4>2. W(x, j, v) < n  BY <2>1, <3>1, <4>1
   <4> QED  BY <1>10, <4>2
  <3>2. Lighter(map, subject, K, name, k, visited, f, resolve)  BY <3>1 DEF Lighter
  <3> QED  BY <1>8, <3>2
 <2> HIDE DEF W, names
 <2> QED  BY <2>1
<1>11. most + 1 \in T
 <2> HIDE DEF T
 <2> QED  BY <1>6, <1>9, <1>10, Induct
<1>12. ASSUME NEW name \in names, NEW k \in Nat \ {0}, NEW visited \in SUBSET names
       PROVE  f[<<name, k, visited>>] = resolve[<<name, k, visited>>]
 <2> HIDE DEF W, names
 <2>1. W(name, k, visited) \in Nat /\ W(name, k, visited) <= most  BY <1>7
 <2>2. W(name, k, visited) < most + 1  BY <1>6, <2>1
 <2> QED  BY <1>11, <2>2
<1> DEFINE found == f[<<subject, 1, {subject}>>]
           held == Held(map, subject)
<1>13. subject \in names  BY HeldAreNames
<1>14. Z!ResolveRoles(map, subject) = found.roles
 <2>1. 1 \in Nat \ {0} /\ {subject} \in SUBSET names  BY <1>13
 <2> HIDE DEF names
 <2> QED  BY <1>4, <1>12, <1>13, <2>1
<1>15. Finds(map, held, {subject}, found) /\ found \in Findings(names)
 <2>1. 1 \in Nat \ {0} /\ {subject} \in SUBSET names  BY <1>13
 <2>2. Seen(map, subject, f, subject, 1, {subject})  BY <1>1, <1>13, <2>1, WalkFinds
 <2>3. <<subject, 1, {subject}>> \in Z!Places(map, subject)  BY <1>13, <2>1 DEF Z!Places
 <2> QED  BY <1>1, <2>2, <2>3, AllAhead DEF Seen, Walk
<1> HIDE DEF found, held
<1>16. Z!Closed(map, found.roles)
 <2> SUFFICES ASSUME NEW u \in found.roles PROVE Held(map, u) \subseteq found.roles  BY HeldAreNames DEF Z!Closed
 <2>1. CASE u = subject  BY <1>15, <2>1 DEF Finds, held
 <2>2. CASE u # subject  BY <1>15, <2>2 DEF Finds
 <2> QED  BY <2>1, <2>2
<1>17. found.roles \in SUBSET names /\ held \subseteq found.roles  BY <1>15 DEF Findings, Finds
<1>18. \A roles : Z!Closed(map, roles) /\ held \subseteq roles => found.roles \subseteq roles  BY <1>15 DEF Finds
<1>19. held = Z!ToSet(Z!Of(map, subject))  BY HeldAreNames DEF held
<1>20. Z!Reachable(map, subject) =
         {r \in names : \A roles \in SUBSET names : Z!Closed(map, roles) /\ held \subseteq roles => r \in roles}
  BY <1>19 DEF Z!Reachable
<1> HIDE DEF names
<1>21. found.roles = Z!Reachable(map, subject)
 <2>1. ASSUME NEW r \in found.roles PROVE r \in Z!Reachable(map, subject)  BY <1>17, <1>18, <1>20
 <2>2. ASSUME NEW r \in Z!Reachable(map, subject) PROVE r \in found.roles  BY <1>16, <1>17, <1>20
 <2> QED  BY <2>1, <2>2
<1> QED  BY <1>14, <1>21

-----------------------------------------------------------------------------

\* Equal beginnings of two lists.
LEMMA WholeIs ==
  ASSUME NEW s, IsList(s), NEW t, IsList(t), Len(s) <= Len(t)
  PROVE  SubSeq(s, 1, Len(s)) = SubSeq(t, 1, Len(s)) <=> \A i \in 1..Len(s) : s[i] = t[i]
<1> DEFINE n == Len(s)
           a == SubSeq(s, 1, n)
           b == SubSeq(t, 1, n)
<1>0. n \in Nat /\ Len(t) \in Nat  BY ListFacts
<1>1. IsList(a) /\ Len(a) = n /\ \A i \in 1..n : a[i] = s[i]
 <2>1. IsList(a) /\ Len(a) = n + 1 - 1 /\ \A i \in 1..n + 1 - 1 : a[i] = s[1 + i - 1]  BY <1>0, Part
 <2>2. n + 1 - 1 = n /\ \A i \in 1..n : 1 + i - 1 = i  BY <1>0
 <2> HIDE DEF n, a
 <2> QED  BY <2>1, <2>2
<1>2. IsList(b) /\ Len(b) = n /\ \A i \in 1..n : b[i] = t[i]
 <2>1. IsList(b) /\ Len(b) = n + 1 - 1 /\ \A i \in 1..n + 1 - 1 : b[i] = t[1 + i - 1]  BY <1>0, Part
 <2>2. n + 1 - 1 = n /\ \A i \in 1..n : 1 + i - 1 = i  BY <1>0
 <2> HIDE DEF n, b
 <2> QED  BY <2>1, <2>2
<1> HIDE DEF n, a, b
<1>3. ASSUME \A i \in 1..n : s[i] = t[i] PROVE a = b
 <2>1. Lists(a, b) /\ Same(a, b)  BY <1>1, <1>2, <1>3 DEF Lists, Same
 <2> QED  BY <2>1, AlikeLists
<1>4. ASSUME a = b PROVE \A i \in 1..n : s[i] = t[i]  BY <1>1, <1>2, <1>4
<1> QED  BY <1>3, <1>4 DEF n, a, b

\* What the community module calls a prefix.
LEMMA PrefixIs ==
  ASSUME NEW s, IsList(s), NEW t, IsList(t)
  PROVE  Z!IsPrefix(s, t) <=> Len(s) <= Len(t) /\ \A i \in 1..Len(s) : s[i] = t[i]
BY WholeIs DEF Z!IsPrefix

\* What the community module calls a reverse.
LEMMA ReverseIs ==
  ASSUME NEW s, IsList(s)
  PROVE  /\ IsList(Z!Reverse(s)) /\ Len(Z!Reverse(s)) = Len(s)
         /\ \A i \in 1..Len(s) : Z!Reverse(s)[i] = s[Len(s) - i + 1]
<1> DEFINE n == Len(s)
           r == [i \in 1..n |-> s[(n - i) + 1]]
<1>0. n \in Nat  BY ListFacts
<1>1. Z!Reverse(s) = r  BY DEF Z!Reverse
<1> HIDE DEF n
<1>2. r \in [1..n -> {r[i] : i \in DOMAIN r}]  OBVIOUS
<1>3. \A i \in 1..n : r[i] = s[n - i + 1]  OBVIOUS
<1> HIDE DEF r
<1>4. r \in Seq({r[i] : i \in DOMAIN r}) /\ Len(r) = n  BY <1>0, <1>2, SMTT(60)
<1> QED  BY <1>1, <1>3, <1>4 DEF IsList, n

\* What the community module calls a suffix.
LEMMA SuffixIs ==
  ASSUME NEW s, IsList(s), NEW t, IsList(t)
  PROVE  Z!IsSuffix(s, t) <=>
           Len(s) <= Len(t) /\ \A i \in 1..Len(s) : s[Len(s) - i + 1] = t[Len(t) - i + 1]
<1>1. Len(s) \in Nat /\ Len(t) \in Nat  BY ListFacts
<1>2. Z!IsSuffix(s, t) <=>
        /\ Len(Z!Reverse(s)) <= Len(Z!Reverse(t))
        /\ \A i \in 1..Len(Z!Reverse(s)) : Z!Reverse(s)[i] = Z!Reverse(t)[i]  BY ReverseIs, PrefixIs DEF Z!IsSuffix
<1>3. Len(s) <= Len(t) => \A i \in 1..Len(s) : i \in 1..Len(t)  BY <1>1
<1> QED  BY <1>2, <1>3, ReverseIs

\* A pattern with its wildcard first, last or nowhere matches as a glob does.
LEMMA PatternIsGlob ==
  ASSUME NEW pattern, Globs(pattern), NEW value, IsList(value)
  PROVE  Z!MatchesPattern(pattern, value) <=> Z!GlobMatches(pattern, value)
<1> DEFINE n == Len(pattern)
<1>0. IsList(pattern) /\ n \in Nat /\ DOMAIN pattern = 1..n /\ Len(value) \in Nat  BY ListFacts DEF Globs
<1>1. IsList(Star) /\ Len(Star) = 1 /\ Star[1] = "*" /\ \A c : <<c>> = Star <=> c = "*"
  BY OneList, SMTT(60) DEF Star
<1>2. \A i, j \in 1..n : pattern[i] = "*" => i \in {1, n} /\ (pattern[j] = "*" => i = j)
  BY <1>0, ZenonT(60) DEF Globs
<1>3. Z!IsSuffix(Star, pattern) <=> n >= 1 /\ pattern[n] = "*"
 <2>1. Z!IsSuffix(Star, pattern) <=> 1 <= n /\ \A i \in 1..1 : Star[1 - i + 1] = pattern[n - i + 1]
  <3>1. Z!IsSuffix(Star, pattern) <=> Len(Star) <= Len(pattern)
           /\ \A i \in 1..Len(Star) : Star[Len(Star) - i + 1] = pattern[Len(pattern) - i + 1]
    BY <1>0, <1>1, SuffixIs, ZenonT(60)
  <3> QED  BY <1>1, <3>1
 <2>2. \A i \in 1..1 : i = 1 /\ 1 - i + 1 = 1 /\ n - i + 1 = n  BY <1>0
 <2>3. 1 \in 1..1  OBVIOUS
 <2> HIDE DEF n
 <2> QED  BY <1>0, <1>1, <2>1, <2>2, <2>3
<1>4. Z!IsPrefix(Star, pattern) <=> n >= 1 /\ pattern[1] = "*"
 <2>1. Z!IsPrefix(Star, pattern) <=> 1 <= n /\ \A i \in 1..1 : Star[i] = pattern[i]
   BY <1>0, <1>1, PrefixIs, SMTT(60)
 <2> HIDE DEF n
 <2> QED  BY <1>0, <1>1, <2>1
<1> DEFINE before(i) == SubSeq(pattern, 1, i - 1)
           after(i) == SubSeq(pattern, i + 1, n)
<1>5. ASSUME NEW i \in 1..n
      PROVE  /\ IsList(before(i)) /\ Len(before(i)) = i - 1 /\ \A j \in 1..i - 1 : before(i)[j] = pattern[j]
             /\ IsList(after(i)) /\ Len(after(i)) = n - i /\ \A j \in 1..n - i : after(i)[j] = pattern[i + j]
 <2>1. i - 1 \in Nat /\ 1 \in Nat /\ 1 <= i - 1 + 1 /\ i - 1 <= n /\ i + 1 \in Nat /\ 1 <= i + 1 /\ i + 1 <= n + 1
   BY <1>0
 <2>2. /\ IsList(before(i)) /\ Len(before(i)) = i - 1 + 1 - 1
       /\ \A j \in 1..i - 1 + 1 - 1 : before(i)[j] = pattern[1 + j - 1]  BY <1>0, <2>1, Part
 <2>3. /\ IsList(after(i)) /\ Len(after(i)) = n + 1 - (i + 1)
       /\ \A j \in 1..n + 1 - (i + 1) : after(i)[j] = pattern[i + 1 + j - 1]  BY <1>0, <2>1, Part
 <2>4. i - 1 + 1 - 1 = i - 1 /\ n + 1 - (i + 1) = n - i
       /\ (\A j \in 1..i - 1 : 1 + j - 1 = j) /\ (\A j \in 1..n - i : i + 1 + j - 1 = i + j)
  <3> HIDE DEF n
  <3> QED  BY <1>0
 <2> HIDE DEF before, after, n
 <2> QED  BY <2>2, <2>3, <2>4
<1>6. Z!MatchesPattern(pattern, value) <=>
        \/ pattern = Star
        \/ pattern = value
        \/ IF Z!IsSuffix(Star, pattern) THEN Z!IsPrefix(SubSeq(pattern, 1, n - Len(Star)), value)
           ELSE Z!IsPrefix(Star, pattern) /\ Z!IsSuffix(SubSeq(pattern, Len(Star) + 1, n), value)
  BY DEF Z!MatchesPattern
<1>7. Z!GlobMatches(pattern, value) <=>
        IF ~ \E i \in 1..n : pattern[i] = "*" THEN pattern = value
        ELSE \E i \in 1..n : /\ pattern[i] = "*"
                             /\ Z!IsPrefix(before(i), value) /\ Z!IsSuffix(after(i), value)
                             /\ Len(before(i)) + Len(after(i)) <= Len(value)
 <2>1. Z!GlobMatches(pattern, value) <=>
         IF ~ \E i \in DOMAIN pattern : <<pattern[i]>> = Star THEN pattern = value
         ELSE \E i \in DOMAIN pattern : /\ <<pattern[i]>> = Star
                            /\ Z!IsPrefix(before(i), value) /\ Z!IsSuffix(after(i), value)
                            /\ Len(before(i)) + Len(after(i)) <= Len(value)  BY DEF Z!GlobMatches
 <2> HIDE DEF before, after, n
 <2> QED  BY <1>0, <1>1, <2>1
<1>8. CASE ~ \E i \in 1..n : pattern[i] = "*"
 <2>1. ~Z!IsSuffix(Star, pattern) /\ ~Z!IsPrefix(Star, pattern)
  <3> HIDE DEF n
  <3> QED  BY <1>0, <1>3, <1>4, <1>8
 <2>2. pattern # Star
  <3>1. pattern = Star => n = 1 /\ pattern[1] = "*"  BY <1>1
  <3> HIDE DEF n
  <3> QED  BY <1>8, <3>1
 <2> HIDE DEF n, before, after
 <2> QED  BY <1>6, <1>7, <1>8, <2>1, <2>2
<1>9. CASE n >= 1 /\ pattern[n] = "*"
 <2>1. n \in 1..n /\ \A i \in 1..n : pattern[i] = "*" => i = n
  <3> HIDE DEF n, before, after
  <3>1. n \in 1..n  BY <1>0, <1>9
  <3> QED  BY <1>2, <1>9, <3>1
 <2>2. Z!IsSuffix(Star, pattern) /\ SubSeq(pattern, 1, n - Len(Star)) = before(n)  BY <1>1, <1>3, <1>9
 <2> HIDE DEF n, before, after
 <2>3. IsList(before(n)) /\ Len(before(n)) = n - 1 /\ \A j \in 1..n - 1 : before(n)[j] = pattern[j]  BY <1>5, <2>1
 <2>4. IsList(after(n)) /\ Len(after(n)) = 0  BY <1>0, <1>5, <2>1
 <2>5. Z!IsPrefix(before(n), value) <=> n - 1 <= Len(value) /\ \A j \in 1..n - 1 : pattern[j] = value[j]
   BY <1>0, <2>3, PrefixIs
 <2>6. Z!IsSuffix(after(n), value)  BY <1>0, <2>4, SuffixIs
 <2>7. pattern = value => Z!IsPrefix(before(n), value)
  <3>1. pattern = value => Len(value) = n  BY DEF n
  <3> QED  BY <1>0, <2>5, <3>1
 <2>8. pattern = Star => Z!IsPrefix(before(n), value)
  <3>1. pattern = Star => n = 1  BY <1>1 DEF n
  <3> QED  BY <1>0, <2>5, <3>1
 <2>9. Z!MatchesPattern(pattern, value) <=> Z!IsPrefix(before(n), value)  BY <1>6, <2>2, <2>7, <2>8
 <2>10. Len(before(n)) + Len(after(n)) <= Len(value) <=> n - 1 <= Len(value)  BY <1>0, <2>3, <2>4
 <2>11. Z!GlobMatches(pattern, value) <=> Z!IsPrefix(before(n), value)  BY <1>7, <1>9, <2>1, <2>5, <2>6, <2>10
 <2> QED  BY <2>9, <2>11
<1>10. CASE ~(n >= 1 /\ pattern[n] = "*") /\ \E i \in 1..n : pattern[i] = "*"
 <2>1. n > 1 /\ 1 \in 1..n /\ pattern[1] = "*" /\ \A i \in 1..n : pattern[i] = "*" => i = 1
  <3> HIDE DEF n, before, after
  <3>1. PICK i \in 1..n : pattern[i] = "*"  BY <1>10
  <3>2. i = 1 /\ n # 1  BY <1>2, <1>10, <3>1
  <3>3. n > 1  BY <1>0, <3>1, <3>2
  <3> QED  BY <1>2, <3>1, <3>2, <3>3
 <2>2. ~Z!IsSuffix(Star, pattern) /\ Z!IsPrefix(Star, pattern) /\ SubSeq(pattern, Len(Star) + 1, n) = after(1)
   BY <1>1, <1>3, <1>4, <1>10, <2>1
 <2> HIDE DEF n, before, after
 <2>3. IsList(before(1)) /\ Len(before(1)) = 0  BY <1>5, <2>1
 <2>4. IsList(after(1)) /\ Len(after(1)) = n - 1 /\ \A j \in 1..n - 1 : after(1)[j] = pattern[1 + j]  BY <1>5, <2>1
 <2>5. Z!IsPrefix(before(1), value)  BY <1>0, <2>3, PrefixIs
 <2>6. Z!IsSuffix(after(1), value) <=>
         n - 1 <= Len(value) /\ \A i \in 1..n - 1 : after(1)[n - 1 - i + 1] = value[Len(value) - i + 1]
   BY <2>4, SuffixIs
 <2>7. pattern = value => Z!IsSuffix(after(1), value)
  <3> SUFFICES ASSUME pattern = value PROVE Z!IsSuffix(after(1), value)  OBVIOUS
  <3>1. Len(value) = n  BY DEF n
  <3>2. ASSUME NEW i \in 1..n - 1 PROVE after(1)[n - 1 - i + 1] = value[n - i + 1]
   <4>1. n - 1 - i + 1 \in 1..n - 1 /\ 1 + (n - 1 - i + 1) = n - i + 1  BY <1>0
   <4> QED  BY <2>4, <4>1
  <3> QED  BY <1>0, <2>6, <3>1, <3>2
 <2>8. pattern # Star
  <3>1. pattern = Star => n = 1  BY <1>1 DEF n
  <3> QED  BY <2>1, <3>1
 <2>9. Z!MatchesPattern(pattern, value) <=> Z!IsSuffix(after(1), value)  BY <1>6, <2>2, <2>7, <2>8, ZenonT(60)
 <2>10. Len(before(1)) + Len(after(1)) <= Len(value) <=> n - 1 <= Len(value)  BY <1>0, <2>3, <2>4
 <2>11. Z!GlobMatches(pattern, value) <=> Z!IsSuffix(after(1), value)  BY <1>7, <2>1, <2>5, <2>6, <2>10
 <2> QED  BY <2>9, <2>11
<1> QED  BY <1>8, <1>9, <1>10

-----------------------------------------------------------------------------

\* Over every small text the pattern matcher is the glob of its definition.
LEMMA TextsMatch == Z!PatternsAreGlobs
<1> SUFFICES ASSUME NEW value \in Z!Texts, NEW text \in Z!Texts
             PROVE  /\ Z!MatchesPattern(text, value) <=> Z!GlobMatches(text, value)
                    /\ Z!MatchesPattern(text \o Star, value) <=> Z!GlobMatches(text \o Star, value)
                    /\ Z!MatchesPattern(Star \o text, value) <=> Z!GlobMatches(Star \o text, value)
  BY DEF Z!PatternsAreGlobs
<1>1. ASSUME NEW t \in Z!Texts PROVE IsList(t) /\ \A i \in DOMAIN t : t[i] # "*"
 <2>1. PICK n \in 0..3 : t \in [1..n -> {"a", "b"}]  BY DEF Z!Texts
 <2>2. t \in [1..n -> {t[i] : i \in DOMAIN t}] /\ n \in Nat  BY <2>1
 <2>3. t \in Seq({t[i] : i \in DOMAIN t})  BY <2>2
 <2>4. \A i \in DOMAIN t : t[i] \in {"a", "b"}  BY <2>1
 <2> QED  BY <2>3, <2>4 DEF IsList
<1>2. IsList(Star) /\ Len(Star) = 1 /\ Star[1] = "*"  BY OneList DEF Star
<1>3. IsList(text) /\ IsList(value) /\ Len(text) \in Nat /\ DOMAIN text = 1..Len(text)
      /\ \A i \in 1..Len(text) : text[i] # "*"  BY <1>1, ListFacts
<1>4. Globs(text)  BY <1>1 DEF Globs
<1>5. Globs(text \o Star)
 <2> DEFINE p == text \o Star
 <2>1. Joint(text, Star, p)  BY <1>2, <1>3, Joined DEF Lists
 <2>2. IsList(p) /\ Len(p) = Len(text) + 1 /\ DOMAIN p = 1..Len(p)  BY <1>2, <2>1, ListFacts DEF Joint
 <2>3. \A i \in 1..Len(text) : p[i] # "*"  BY <1>3, <2>1 DEF Joint
 <2> HIDE DEF p
 <2>4. \A i \in DOMAIN p : p[i] = "*" => i = Len(p)  BY <1>3, <2>2, <2>3
 <2> QED  BY <2>2, <2>4 DEF Globs, p
<1>6. Globs(Star \o text)
 <2> DEFINE p == Star \o text
 <2>1. Joint(Star, text, p)  BY <1>2, <1>3, Joined DEF Lists
 <2>2. IsList(p) /\ Len(p) = 1 + Len(text) /\ DOMAIN p = 1..Len(p)  BY <1>2, <2>1, ListFacts DEF Joint
 <2>3. \A i \in 1..Len(text) : p[1 + i] # "*"  BY <1>2, <1>3, <2>1 DEF Joint
 <2> HIDE DEF p
 <2>4. \A i \in DOMAIN p : p[i] = "*" => i = 1
  <3> SUFFICES ASSUME NEW i \in DOMAIN p, i # 1 PROVE p[i] # "*"  OBVIOUS
  <3>1. i - 1 \in 1..Len(text) /\ 1 + (i - 1) = i  BY <1>3, <2>2
  <3> QED  BY <2>3, <3>1
 <2> QED  BY <2>2, <2>4 DEF Globs, p
<1> QED  BY <1>3, <1>4, <1>5, <1>6, PatternIsGlob

-----------------------------------------------------------------------------

\* Over every graph of three names the roles are the least closed set.
LEMMA GraphsClose == Z!ClosureIsReachability
<1> SUFFICES ASSUME NEW map \in Z!Graph3, NEW subject \in {"u", "r", "t"}
             PROVE  Z!ResolveRoles(map, subject) = Z!Reachable(map, subject)  BY DEF Z!ClosureIsReachability
<1>1. IsFiniteSet({"u", "r", "t"})
 <2>1. IsFiniteSet({"u"})  BY FS_Singleton
 <2>2. IsFiniteSet({"u"} \cup {"r"})  BY <2>1, FS_AddElement
 <2>3. IsFiniteSet(({"u"} \cup {"r"}) \cup {"t"})  BY <2>2, FS_AddElement
 <2>4. ({"u"} \cup {"r"}) \cup {"t"} = {"u", "r", "t"}  OBVIOUS
 <2> QED  BY <2>3, <2>4
<1>2. ASSUME NEW a, NEW b PROVE IsList(<<a, b>>)
 <2> DEFINE s == <<a, b>>
          S == {s[i] : i \in DOMAIN s}
 <2>1. s \in Seq(S)
  <3>1. s = [i \in 1..2 |-> IF i = 1 THEN a ELSE b] /\ DOMAIN s = 1..2  OBVIOUS
  <3>2. a \in S /\ b \in S
   <4>1. s[1] = a /\ s[2] = b /\ 1 \in DOMAIN s /\ 2 \in DOMAIN s  BY <3>1
   <4> HIDE DEF s
   <4> QED  BY <4>1
  <3> HIDE DEF S
  <3> QED  BY <3>2
 <2> QED  BY <2>1 DEF IsList
<1>3. DOMAIN map = {"u", "r", "t"}
      /\ \A x \in DOMAIN map : map[x] \in {<<>>, <<"r">>, <<"t">>, <<"u">>, <<"r", "t">>, <<"t", "u">>, <<"r", "r">>}
  BY DEF Z!Graph3
<1>4. \A x \in DOMAIN map : IsList(map[x])
 <2>1. IsList(<<>>) /\ IsList(<<"r">>) /\ IsList(<<"t">>) /\ IsList(<<"u">>)  BY OneList
 <2>2. IsList(<<"r", "t">>) /\ IsList(<<"t", "u">>) /\ IsList(<<"r", "r">>)  BY <1>2
 <2> QED  BY <1>3, <2>1, <2>2
<1>5. Memberships(map)  BY <1>1, <1>3, <1>4 DEF Memberships
<1> QED  BY <1>5, RolesAreReachable

\* Which rules match is a matter of the rules, not of their places.
LEMMA OrderIsNothing ==
  ASSUME NEW list, IsList(list), NEW s, NEW a, NEW r
  PROVE  Z!AclEvaluate(list, s, a, r) = Z!AclEvaluate(Z!Reverse(list), s, a, r)
<1> DEFINE n == Len(list)
           back == Z!Reverse(list)
           Hits(rule) == /\ Z!MatchesPattern(rule.subject, s)
                         /\ Z!MatchesPattern(rule.action, a)
                         /\ Z!MatchesPattern(rule.resource, r)
           Decided(denied, allowed) == ~(engine.deny_overrides /\ denied) /\ (allowed \/ ~engine.default_deny)
<1>1. n \in Nat /\ DOMAIN list = 1..n /\ DOMAIN back = 1..n /\ \A i \in 1..n : back[i] = list[n - i + 1]
 <2>1. IsList(back) /\ Len(back) = n  BY ReverseIs
 <2> HIDE DEF back
 <2> QED  BY <2>1, ReverseIs, ListFacts DEF back
<1>2. Z!AclEvaluate(list, s, a, r) =
        Decided(\E i \in DOMAIN list : Hits(list[i]) /\ list[i].effect = "deny",
                \E i \in DOMAIN list : Hits(list[i]) /\ list[i].effect # "deny")  BY Zenon DEF Z!AclEvaluate
<1>3. Z!AclEvaluate(back, s, a, r) =
        Decided(\E i \in DOMAIN back : Hits(back[i]) /\ back[i].effect = "deny",
                \E i \in DOMAIN back : Hits(back[i]) /\ back[i].effect # "deny")  BY Zenon DEF Z!AclEvaluate
<1> HIDE DEF Hits, back, n
<1>4. \A i \in 1..n : n - i + 1 \in 1..n /\ list[n - i + 1] = back[i] /\ back[n - i + 1] = list[i]
 <2> SUFFICES ASSUME NEW i \in 1..n
              PROVE  n - i + 1 \in 1..n /\ list[n - i + 1] = back[i] /\ back[n - i + 1] = list[i]  OBVIOUS
 <2>1. n - i + 1 \in 1..n /\ n - (n - i + 1) + 1 = i  BY <1>1
 <2> QED  BY <1>1, <2>1
<1>5. /\ (\E i \in DOMAIN list : Hits(list[i]) /\ list[i].effect = "deny")
           <=> (\E i \in DOMAIN back : Hits(back[i]) /\ back[i].effect = "deny")
      /\ (\E i \in DOMAIN list : Hits(list[i]) /\ list[i].effect # "deny")
           <=> (\E i \in DOMAIN back : Hits(back[i]) /\ back[i].effect # "deny")  BY <1>1, <1>4, SMTT(60)
<1> QED  BY <1>2, <1>3, <1>5 DEF back

\* Roles, patterns and the order of rules do as their definitions say.
LEMMA DecisionsMatch == Z!DecisionsMatchTheirDefinition
<1>1. Z!RulesHaveNoOrder
 <2> SUFFICES ASSUME NEW p \in Policies, RulesOf[p] # NoPayload, NEW s \in Subjects, NEW i \in DOMAIN Wanted
              PROVE  Z!AclEvaluate(RulesOf[p], s, Wanted[i][1], Wanted[i][2]) =
                       Z!AclEvaluate(Z!Reverse(RulesOf[p]), s, Wanted[i][1], Wanted[i][2])
   BY DEF Z!RulesHaveNoOrder
 <2>1. IsList(RulesOf[p])  BY PolicyAssumption
 <2> QED  BY <2>1, OrderIsNothing
<1> QED  BY <1>1, GraphsClose, TextsMatch DEF Z!DecisionsMatchTheirDefinition

-----------------------------------------------------------------------------
\* What rbac decides from the two maps of a policy is what they grant.
Grants(perms, map, s, pair) ==
  \E r \in Z!Reachable(map, s) : \E k \in DOMAIN Z!Of(perms, r) :
     /\ Z!GlobMatches(perms[r][k].action, pair[1])
     /\ Z!GlobMatches(perms[r][k].resource, pair[2])

\* The rbac engine grants what a permission of a role of the subject matches.
LEMMA RbacGrants ==
  ASSUME NEW p \in Policies, PermissionsOf[p] # NoPayload, RolesOf[p] # NoPayload, NEW s,
         NEW pair, IsList(pair[1]), IsList(pair[2])
  PROVE  Z!RbacEvaluate(PermissionsOf[p], RolesOf[p], s, pair[1], pair[2]) <=>
           Grants(PermissionsOf[p], RolesOf[p], s, pair)
<1> DEFINE perms == PermissionsOf[p]
           map == RolesOf[p]
<1>1. Z!ResolveRoles(map, s) = Z!Reachable(map, s)
 <2>1. Memberships(map)  BY PolicyAssumption DEF Memberships
 <2> QED  BY <2>1, RolesAreReachable
<1>2. ASSUME NEW r, NEW k \in DOMAIN Z!Of(perms, r)
      PROVE  /\ Z!MatchesPattern(perms[r][k].resource, pair[2]) <=> Z!GlobMatches(perms[r][k].resource, pair[2])
             /\ Z!MatchesPattern(perms[r][k].action, pair[1]) <=> Z!GlobMatches(perms[r][k].action, pair[1])
 <2>1. r \in DOMAIN perms /\ k \in DOMAIN perms[r]  BY <1>2 DEF Z!Of
 <2>2. Globs(perms[r][k].resource) /\ Globs(perms[r][k].action)  BY <2>1, PolicyAssumption
 <2> HIDE DEF perms
 <2> QED  BY <2>2, PatternIsGlob
<1>3. Z!RbacEvaluate(perms, map, s, pair[1], pair[2]) <=>
        \E r \in Z!ResolveRoles(map, s) : \E k \in DOMAIN Z!Of(perms, r) :
           /\ Z!MatchesPattern(perms[r][k].resource, pair[2])
           /\ Z!MatchesPattern(perms[r][k].action, pair[1])  BY DEF Z!RbacEvaluate
<1> HIDE DEF perms, map
<1>4. Z!RbacEvaluate(perms, map, s, pair[1], pair[2]) <=> Grants(perms, map, s, pair)
  BY <1>1, <1>2, <1>3, SMTT(60) DEF Grants
<1> QED  BY <1>4 DEF perms, map

-----------------------------------------------------------------------------
Holds(p) ==
  /\ engine.kind = "acl" /\ RulesOf[p] # NoPayload => rules = RulesOf[p]
  /\ engine.kind = "rbac" =>
       /\ PermissionsOf[p] # NoPayload => permissions = PermissionsOf[p]
       /\ \A i \in Installers : install[i] \in {"none", p}
       /\ RolesOf[p] # NoPayload /\ (\A i \in Installers : install[i] = "none") => user_roles = RolesOf[p]

InstallInv ==
  /\ engine.kind \in {"rbac", "acl", "noop"}
  /\ install \in [Installers -> Policies \cup {"none"}]
  /\ engine.kind # "rbac" => \A i \in Installers : install[i] = "none"
  /\ latest.alone /\ latest.policy \in Policies => Holds(latest.policy)

\* What the list is to show, told from the policy alone.
Loaded(p) == IF engine.kind = "acl" THEN RulesOf[p] # NoPayload
            ELSE PermissionsOf[p] # NoPayload /\ RolesOf[p] # NoPayload
Granted(p, s, pair) ==
  IF engine.kind = "acl" THEN Z!AclEvaluate(RulesOf[p], s, pair[1], pair[2])
  ELSE Grants(PermissionsOf[p], RolesOf[p], s, pair)
Anyone(p, subjects, pair) == \E s \in subjects : Granted(p, s, pair)
Shows(a) ==
  a.whole /\ a.policy \in Policies /\ engine.kind # "noop" /\ Loaded(a.policy) =>
    /\ a.pairs = Z!Only(Wanted, {pair \in Z!ToSet(Wanted) : Anyone(a.policy, a.for, pair)})
    /\ a.projects = Anyone(a.policy, a.for, Wanted[1])

\* ListShowsTheLastPolicy without its LETs.
LEMMA ShowsIsTheList == Z!ListShowsTheLastPolicy <=> Shows(answer)
BY DEF Z!ListShowsTheLastPolicy, Shows, Loaded, Anyone, Granted, Grants

\* What is asked about are pairs of texts.
LEMMA WantedPairs ==
  /\ \A pair \in Z!ToSet(Wanted) : IsList(pair[1]) /\ IsList(pair[2])
  /\ IsList(Wanted[1][1]) /\ IsList(Wanted[1][2])
<1>1. \A i \in DOMAIN Wanted : IsList(Wanted[i][1]) /\ IsList(Wanted[i][2])  BY PolicyAssumption
<1>2. 1 \in DOMAIN Wanted
 <2>1. IsList(Wanted) /\ Wanted # <<>>  BY PolicyAssumption
 <2>2. Len(Wanted) \in Nat /\ DOMAIN Wanted = 1..Len(Wanted)  BY <2>1, ListFacts
 <2>3. Len(Wanted) # 0
  <3> SUFFICES ASSUME Len(Wanted) = 0 PROVE FALSE  OBVIOUS
  <3>1. Lists(Wanted, <<>>) /\ Same(Wanted, <<>>)  BY <2>1, OneList DEF Lists, Same
  <3> QED  BY <2>1, <3>1, AlikeLists
 <2> QED  BY <2>2, <2>3
<1> QED  BY <1>1, <1>2 DEF Z!ToSet

\* A decision under whole maps is the policy's.
LEMMA DecidesAsGranted ==
  ASSUME InstallInv, latest.alone, NEW p \in Policies, p = latest.policy, engine.kind # "noop", Loaded(p),
         \A i \in Installers : install[i] = "none",
         NEW s, NEW pair, IsList(pair[1]), IsList(pair[2])
  PROVE  Z!Evaluate(permissions, user_roles, rules, s, pair[1], pair[2]) <=> Granted(p, s, pair)
<1>1. Holds(p) /\ engine.kind \in {"rbac", "acl"}  BY DEF InstallInv
<1>2. CASE engine.kind = "acl"
 <2>1. rules = RulesOf[p]  BY <1>1, <1>2 DEF Holds, Loaded
 <2> QED  BY <1>2, <2>1 DEF Z!Evaluate, Granted
<1>3. CASE engine.kind = "rbac"
 <2>1. PermissionsOf[p] # NoPayload /\ RolesOf[p] # NoPayload  BY <1>3 DEF Loaded
 <2>2. permissions = PermissionsOf[p] /\ user_roles = RolesOf[p]  BY <1>1, <1>3, <2>1 DEF Holds
 <2>3. Z!Evaluate(permissions, user_roles, rules, s, pair[1], pair[2]) <=>
         Z!RbacEvaluate(PermissionsOf[p], RolesOf[p], s, pair[1], pair[2])  BY <1>3, <2>2 DEF Z!Evaluate
 <2>4. Granted(p, s, pair) <=> Grants(PermissionsOf[p], RolesOf[p], s, pair)  BY <1>3 DEF Granted
 <2> QED  BY <2>1, <2>3, <2>4, RbacGrants
<1> QED  BY <1>1, <1>2, <1>3

\* A list asked for shows what the last policy grants.
LEMMA AskShows ==
  ASSUME InstallInv, NEW subjects, Z!Ask(subjects)
  PROVE  Shows(answer)'
<1>1. /\ answer'.for = subjects /\ answer'.policy = latest.policy
      /\ answer'.pairs = Z!FilterPairs(permissions, user_roles, rules, subjects, Wanted)
      /\ answer'.projects = Z!AllProjects(permissions, user_roles, rules, subjects, Wanted[1])
      /\ answer'.whole = (latest.alone /\ \A i \in Installers : install[i] = "none")
      /\ engine' = engine  BY DEF Z!Ask
<1>p. PICK p : p = latest.policy  OBVIOUS
<1>s. SUFFICES ASSUME answer'.whole, p \in Policies, engine.kind # "noop", Loaded(p)
             PROVE  /\ answer'.pairs = Z!Only(Wanted, {pair \in Z!ToSet(Wanted) : Anyone(p, subjects, pair)})
                    /\ answer'.projects = Anyone(p, subjects, Wanted[1])
 <2>1. Loaded(p)' <=> Loaded(p)  BY <1>1 DEF Loaded
 <2>2. ASSUME NEW s, NEW pair PROVE Granted(p, s, pair)' <=> Granted(p, s, pair)
   BY <1>1 DEF Granted, Z!AclEvaluate
 <2>3. \A pair : Anyone(p, subjects, pair)' <=> Anyone(p, subjects, pair)  BY <2>2 DEF Anyone
 <2>4. Shows(answer)' <=>
         (answer'.whole /\ p \in Policies /\ engine'.kind # "noop" /\ Loaded(p)' =>
            /\ answer'.pairs = Z!Only(Wanted, {pair \in Z!ToSet(Wanted) : Anyone(p, subjects, pair)'})
            /\ answer'.projects = Anyone(p, subjects, Wanted[1])')
   BY <1>1, <1>p DEF Shows, Loaded, Anyone, Granted
 <2>5. {pair \in Z!ToSet(Wanted) : Anyone(p, subjects, pair)'} = {pair \in Z!ToSet(Wanted) : Anyone(p, subjects, pair)}
   BY <2>3
 <2>6. Anyone(p, subjects, Wanted[1])' = Anyone(p, subjects, Wanted[1])  BY <2>2, Zenon DEF Anyone
 <2> QED  BY <1>1, <2>1, <2>4, <2>5, <2>6, ZenonT(60)
<1>2. latest.alone /\ \A i \in Installers : install[i] = "none"  BY <1>1, <1>s
<1> DEFINE Allowed(s, pair) == Z!Evaluate(permissions, user_roles, rules, s, pair[1], pair[2])
<1>3. \A pair \in Z!ToSet(Wanted) : (\E s \in subjects : Allowed(s, pair)) <=> Anyone(p, subjects, pair)
  BY <1>2, <1>p, <1>s, DecidesAsGranted, WantedPairs DEF Anyone
<1>4. (\E s \in subjects : Allowed(s, Wanted[1])) <=> Anyone(p, subjects, Wanted[1])
  BY <1>2, <1>p, <1>s, DecidesAsGranted, WantedPairs DEF Anyone
<1>5. Z!FilterPairs(permissions, user_roles, rules, subjects, Wanted) =
        Z!Only(Wanted, {pair \in Z!ToSet(Wanted) : \E s \in subjects : Allowed(s, pair)})  BY <1>s DEF Z!FilterPairs
<1>6. {pair \in Z!ToSet(Wanted) : \E s \in subjects : Allowed(s, pair)} =
        {pair \in Z!ToSet(Wanted) : Anyone(p, subjects, pair)}  BY <1>3
<1>7. Z!AllProjects(permissions, user_roles, rules, subjects, Wanted[1]) = (\E s \in subjects : Allowed(s, Wanted[1]))
  BY <1>s DEF Z!AllProjects
<1>8. (\E s \in subjects : Allowed(s, Wanted[1])) = Anyone(p, subjects, Wanted[1])  BY <1>4, Zenon DEF Anyone
<1>9. answer'.projects = Anyone(p, subjects, Wanted[1])  BY <1>1, <1>7, <1>8, Zenon
<1> HIDE DEF Allowed
<1> QED  BY <1>1, <1>5, <1>6, <1>9, Zenon

-----------------------------------------------------------------------------

\* Every engine starts with InstallInv, and has shown nothing.
LEMMA InstallInit ==
  ASSUME Z!AuthzInit
  PROVE  InstallInv /\ Shows(answer)
<1>1. engine.kind \in {"rbac", "acl", "noop"}  BY DEF Z!AuthzInit, Z!Engines
<1>2. /\ install \in [Installers -> Policies \cup {"none"}] /\ \A i \in Installers : install[i] = "none"
      /\ latest.policy \notin Policies /\ answer.policy \notin Policies  BY PolicyAssumption DEF Z!AuthzInit
<1> QED  BY <1>1, <1>2 DEF InstallInv, Shows

\* While nothing else is said, the engine and the last answer stay.
LEMMA ShowsStays ==
  ASSUME Shows(answer), engine' = engine, answer' = answer
  PROVE  Shows(answer)'
<1>1. \A p, s, pair : Granted(p, s, pair)' = Granted(p, s, pair)  BY DEF Granted, Z!AclEvaluate
<1>2. \A p, ss, pair : Anyone(p, ss, pair)' = Anyone(p, ss, pair)  BY <1>1, Zenon DEF Anyone
<1>3. \A p : Loaded(p)' = Loaded(p)  BY Zenon DEF Loaded
<1> QED  BY <1>2, <1>3 DEF Shows

\* An installer parses a policy and sets what it sets first.
LEMMA FirstKept ==
  ASSUME InstallInv, NEW i \in Installers, NEW p \in Policies, Z!InstallFirst(i, p)
  PROVE  InstallInv'
<1>1. engine' = engine /\ engine.kind \in {"rbac", "acl", "noop"}
      /\ install \in [Installers -> Policies \cup {"none"}] /\ p # "none"
  BY PolicyAssumption DEF InstallInv, Z!InstallFirst
<1>2. latest'.policy = p /\ latest'.alone = (\A j \in Installers : install[j] = "none")  BY DEF Z!InstallFirst
<1>3. /\ engine.kind = "rbac" => install' = [install EXCEPT ![i] = p]
      /\ engine.kind # "rbac" => install' = install
      /\ engine.kind = "acl" => rules' = Z!Taken(RulesOf[p], rules)
      /\ engine.kind = "rbac" => permissions' = Z!Taken(PermissionsOf[p], permissions)  BY DEF Z!InstallFirst
<1>4. install' \in [Installers -> Policies \cup {"none"}]  BY <1>1, <1>3
<1>5. engine.kind # "rbac" => \A j \in Installers : install'[j] = "none"  BY <1>3 DEF InstallInv
<1>6. ASSUME \A j \in Installers : install[j] = "none" PROVE Holds(p)'
 <2>1. engine.kind = "acl" /\ RulesOf[p] # NoPayload => rules' = RulesOf[p]  BY <1>3 DEF Z!Taken
 <2>2. engine.kind = "rbac" /\ PermissionsOf[p] # NoPayload => permissions' = PermissionsOf[p]  BY <1>3 DEF Z!Taken
 <2>3. engine.kind = "rbac" => \A j \in Installers : install'[j] \in {"none", p}  BY <1>1, <1>3, <1>6
 <2>4. engine.kind = "rbac" => install'[i] # "none"  BY <1>1, <1>3
 <2> QED  BY <1>1, <2>1, <2>2, <2>3, <2>4 DEF Holds
<1>7. latest'.alone => Holds(latest.policy)'
 <2>1. latest'.alone => \A j \in Installers : install[j] = "none"  BY <1>2
 <2>2. latest'.alone => Holds(p)'  BY <1>6, <2>1
 <2> QED  BY <1>2, <2>2 DEF Holds
<1> QED  BY <1>1, <1>4, <1>5, <1>7 DEF InstallInv

\* An installer sets the rest.
LEMMA SecondKept ==
  ASSUME InstallInv, NEW i \in Installers, Z!InstallSecond(i)
  PROVE  InstallInv'
<1>1. /\ engine' = engine /\ latest' = latest /\ permissions' = permissions /\ rules' = rules
      /\ install[i] # "none" /\ user_roles' = Z!Taken(RolesOf[install[i]], user_roles)
      /\ install' = [install EXCEPT ![i] = "none"]
      /\ engine.kind \in {"rbac", "acl", "noop"} /\ install \in [Installers -> Policies \cup {"none"}]
  BY DEF Z!InstallSecond, InstallInv
<1>2. engine.kind = "rbac"  BY <1>1 DEF InstallInv
<1>3. install' \in [Installers -> Policies \cup {"none"}] /\ \A j \in Installers : install'[j] \in {"none", install[j]}
  BY <1>1
<1>4. PICK p : p = latest.policy  OBVIOUS
<1>5. ASSUME Holds(p) PROVE Holds(p)'
 <2>1. install[i] = p  BY <1>1, <1>2, <1>5 DEF Holds
 <2>2. RolesOf[p] # NoPayload => user_roles' = RolesOf[p]  BY <1>1, <2>1 DEF Z!Taken
 <2>3. \A j \in Installers : install'[j] \in {"none", p}  BY <1>2, <1>3, <1>5 DEF Holds
 <2>4. PermissionsOf[p] # NoPayload => permissions' = PermissionsOf[p]  BY <1>1, <1>2, <1>5 DEF Holds
 <2> QED  BY <1>1, <1>2, <2>2, <2>3, <2>4 DEF Holds
<1>6. latest'.alone /\ latest'.policy \in Policies => Holds(p)'  BY <1>1, <1>4, <1>5 DEF InstallInv
<1>7. Holds(latest.policy)' <=> Holds(p)'  BY <1>1, <1>4 DEF Holds
<1> QED  BY <1>1, <1>2, <1>3, <1>6, <1>7 DEF InstallInv

\* A step that leaves the engine and its installers alone.
LEMMA StaysInstalled ==
  ASSUME InstallInv, engine' = engine, latest' = latest, permissions' = permissions, rules' = rules,
         user_roles' = user_roles, install' = install
  PROVE  InstallInv'
BY DEF InstallInv, Holds

\* Installs and lists keep InstallInv and what was shown.
LEMMA InstallSteps ==
  ASSUME InstallInv, Shows(answer), [Z!AuthzNext]_authzVars
  PROVE  (InstallInv /\ Shows(answer))'
<1>1. ASSUME NEW i \in Installers, NEW p \in Policies, Z!InstallFirst(i, p) PROVE (InstallInv /\ Shows(answer))'
 <2>1. engine' = engine /\ answer' = answer  BY <1>1 DEF Z!InstallFirst
 <2> QED  BY <1>1, <2>1, FirstKept, ShowsStays
<1>2. ASSUME NEW i \in Installers, Z!InstallSecond(i) PROVE (InstallInv /\ Shows(answer))'
 <2>1. engine' = engine /\ answer' = answer  BY <1>2 DEF Z!InstallSecond
 <2> QED  BY <1>2, <2>1, SecondKept, ShowsStays
<1>3. ASSUME NEW subjects \in SUBSET Subjects, Z!Ask(subjects) PROVE (InstallInv /\ Shows(answer))'
 <2>1. InstallInv'  BY <1>3, StaysInstalled DEF Z!Ask
 <2> QED  BY <1>3, <2>1, AskShows
<1>4. ASSUME UNCHANGED authzVars PROVE (InstallInv /\ Shows(answer))'
  BY <1>4, StaysInstalled, ShowsStays DEF authzVars
<1> QED  BY <1>1, <1>2, <1>3, <1>4 DEF Z!AuthzNext

-----------------------------------------------------------------------------

\* What division and remainder are.
LEMMA Division ==
  ASSUME NEW a \in Int, NEW m \in Nat, m > 0
  PROVE  a = m * (a \div m) + (a % m) /\ (a \div m) \in Int
OBVIOUS

\* A multiple leaves no remainder.
LEMMA Mult ==
  ASSUME NEW k \in Int, NEW m \in Nat, m > 0
  PROVE  (m * k) % m = 0
<1>1. (m*k) = m * ((m*k) \div m) + ((m*k) % m) /\ ((m*k) \div m) \in Int /\ (m*k) % m \in 0..(m-1) /\ m*k \in Int
  BY Division
<1> DEFINE q == (m*k) \div m
           r == (m*k) % m
<1>2. q \in Int /\ r \in Int /\ m*k = m*q + r /\ 0 <= r /\ r < m  BY <1>1
<1> HIDE DEF q, r
<1>3. r = m * (k - q)  BY <1>2
<1>4. CASE k - q >= 1
 <2>1. m * (k-q) >= m
  <3>1. PICK e \in Nat : k - q = 1 + e  BY <1>2, <1>4
  <3>2. m * (1 + e) = m + m * e /\ m * e >= 0  OBVIOUS
  <3> QED BY <3>1, <3>2
 <2> QED BY <1>2, <1>3, <2>1
<1>5. CASE k - q <= -1
 <2>1. PICK e \in Nat : k - q = -1 - e  BY <1>2, <1>5
 <2>2. m * (-1 - e) = -m - m * e /\ m * e >= 0  OBVIOUS
 <2> QED BY <1>2, <1>3, <2>1, <2>2
<1>6. CASE k - q = 0
 <2>1. m * 0 = 0  OBVIOUS
 <2> QED BY <1>3, <1>6, <2>1 DEF r
<1> QED BY <1>2, <1>4, <1>5, <1>6

\* A remainder is off by a multiple.
LEMMA Residue ==
  ASSUME NEW a \in Int, NEW m \in Nat, m > 0
  PROVE  ((a % m) - a) % m = 0
<1>1. a = m * (a \div m) + (a % m) /\ (a \div m) \in Int /\ (a % m) \in Int  BY Division
<1> DEFINE q == a \div m
           r == a % m
<1>2. q \in Int /\ r \in Int /\ a = m * q + r  BY <1>1
<1> HIDE DEF q, r
<1>3. r - a = m * (-q)  BY <1>2
<1>4. -q \in Int  BY <1>2
<1>5. (m * (-q)) % m = 0  BY <1>4, Mult
<1> QED BY <1>3, <1>5 DEF r

\* Powers of two, up to the width.
LEMMA Powers ==
  /\ Wide \in Nat /\ Wide >= 2 /\ N!Power[0] = 1
  /\ \A n \in 0..Wide : N!Power[n] \in Nat /\ N!Power[n] >= 1
  /\ \A n \in 1..Wide : N!Power[n] = 2 * N!Power[n - 1]
<1>0. Wide \in Nat /\ Wide >= 2  BY PolicyAssumption
<1> DEFINE D == 0..Wide
           m == [n \in D |-> n]
           step == [p \in D \X [D -> Nat] |-> IF p[1] = 0 THEN 1 ELSE 2 * p[2][p[1] - 1]]
<1>1. \A q \in D, f \in [D -> Nat] : step[<<q, f>>] = IF q = 0 THEN 1 ELSE 2 * f[q - 1]  OBVIOUS
<1>2. Descends(D, Nat, m, Wide, step)
 <2>1. Nat # {} /\ m \in [D -> Nat] /\ \A q \in D : m[q] <= Wide  BY <1>0
 <2>2. \A q \in D : \A f \in [D -> Nat] : step[<<q, f>>] \in Nat
  <3> SUFFICES ASSUME NEW q \in D, NEW f \in [D -> Nat] PROVE (IF q = 0 THEN 1 ELSE 2 * f[q - 1]) \in Nat  BY <1>1
  <3>1. q # 0 => q - 1 \in D  BY <1>0
  <3>2. q # 0 => f[q - 1] \in Nat  BY <3>1
  <3> QED  BY <3>2
 <2>3. ASSUME NEW q \in D, NEW f \in [D -> Nat], NEW g \in [D -> Nat], \A p \in D : m[p] < m[q] => f[p] = g[p]
       PROVE  step[<<q, f>>] = step[<<q, g>>]
  <3>1. q # 0 => q - 1 \in D /\ m[q - 1] = q - 1 /\ m[q] = q /\ q - 1 < q  BY <1>0
  <3>2. q # 0 => f[q - 1] = g[q - 1]
   <4> HIDE DEF m, D
   <4> QED  BY <2>3, <3>1
  <3> HIDE DEF step, D
  <3> QED  BY <1>1, <3>2
 <2> HIDE DEF D, m, step
 <2>4. \A q \in D : \A f, g \in [D -> Nat] : (\A p \in D : m[p] < m[q] => f[p] = g[p]) => step[<<q, f>>] = step[<<q, g>>]
   BY <2>3
 <2> QED  BY <1>0, <2>1, <2>2, <2>4 DEF Descends
<1>3. PICK f \in [D -> Nat] : \A q \in D : f[q] = step[<<q, f>>]
 <2> HIDE DEF D, m, step
 <2> QED  BY <1>2, Descent
<1>4. f = [n \in 0..Wide |-> IF n = 0 THEN 1 ELSE 2 * f[n - 1]]
 <2>1. \A n \in D : f[n] = IF n = 0 THEN 1 ELSE 2 * f[n - 1]
  <3> HIDE DEF D, step
  <3> QED  BY <1>1, <1>3
 <2> QED  BY <2>1
<1>5. N!Power = [n \in 0..Wide |-> IF n = 0 THEN 1 ELSE 2 * N!Power[n - 1]]  BY <1>4 DEF N!Power
<1>6. \A n \in 0..Wide : N!Power[n] = IF n = 0 THEN 1 ELSE 2 * N!Power[n - 1]  BY <1>5
<1> DEFINE T == {n \in Nat : n <= Wide => N!Power[n] \in Nat /\ N!Power[n] >= 1}
<1>7. 0 \in T  BY <1>0, <1>6
<1>8. ASSUME NEW n \in Nat, n \in T PROVE n + 1 \in T
 <2> SUFFICES ASSUME n + 1 <= Wide PROVE N!Power[n + 1] \in Nat /\ N!Power[n + 1] >= 1  OBVIOUS
 <2>1. n + 1 \in 0..Wide /\ n + 1 # 0 /\ n + 1 - 1 = n /\ n <= Wide  BY <1>0
 <2>2. N!Power[n + 1] = 2 * N!Power[n]  BY <1>6, <2>1
 <2>3. N!Power[n] \in Nat /\ N!Power[n] >= 1  BY <1>8, <2>1
 <2> QED  BY <2>2, <2>3
<1>9. Nat \subseteq T
 <2> HIDE DEF T
 <2> QED  BY <1>7, <1>8, Induct
<1>10. \A n \in 0..Wide : N!Power[n] \in Nat /\ N!Power[n] >= 1  BY <1>0, <1>9
<1> QED  BY <1>0, <1>6, <1>10

\* The bounds of a type of some width.
LEMMA Bounds ==
  ASSUME NEW width \in 1..Wide, NEW signed \in BOOLEAN
  PROVE  \E m \in Nat, h \in Nat :
           /\ h >= 1 /\ m = 2 * h /\ m = N!Power[width] /\ h = N!Power[width - 1]
           /\ N!Least(width, signed) = IF signed THEN -h ELSE 0
           /\ N!Greatest(width, signed) = IF signed THEN h - 1 ELSE m - 1
           /\ N!Greatest(width, signed) = N!Least(width, signed) + m - 1
<1>1. width - 1 \in 0..Wide /\ width \in 0..Wide  BY Powers
<1>2. N!Power[width - 1] \in Nat /\ N!Power[width - 1] >= 1 /\ N!Power[width] = 2 * N!Power[width - 1] /\ N!Power[width] \in Nat
  BY <1>1, Powers
<1>3. /\ N!Least(width, signed) = IF signed THEN -(N!Power[width - 1]) ELSE 0
      /\ N!Greatest(width, signed) = IF signed THEN N!Power[width - 1] - 1 ELSE N!Power[width] - 1
  BY DEF N!Least, N!Greatest
<1> QED  BY <1>2, <1>3

\* An integer is read modulo the width, a float as its nearest bound.
LEMMA WrappedReads ==
  ASSUME NEW n \in Int, NEW width \in 1..Wide, NEW signed \in BOOLEAN
  PROVE  LET read == N!Wrapped(n, width, signed)
         IN  /\ n >= N!Least(width, signed) /\ n <= N!Greatest(width, signed) => read = n
             /\ read >= N!Least(width, signed) /\ read <= N!Greatest(width, signed)
             /\ (read - n) % N!Power[width] = 0
<1>1. PICK m \in Nat, h \in Nat :
        /\ h >= 1 /\ m = 2 * h /\ m = N!Power[width]
        /\ N!Least(width, signed) = IF signed THEN -h ELSE 0
        /\ N!Greatest(width, signed) = N!Least(width, signed) + m - 1  BY Bounds
<1>2. PICK low \in Int : low = N!Least(width, signed)  BY <1>1
<1> DEFINE a == n - low
           r == a % m
           read == N!Wrapped(n, width, signed)
<1>3. a \in Int /\ m > 0  BY <1>1
<1>4. read = r + low  BY <1>1, <1>2 DEF N!Wrapped
<1> HIDE DEF a, read
<1>5. r \in 0..(m - 1)  BY <1>3
<1>6. 0 <= a /\ a < m => r = a  BY <1>3
<1>7. (r - a) % m = 0  BY <1>3, Residue
<1> HIDE DEF r
<1>8. n >= low /\ n <= low + m - 1 => read = n  BY <1>3, <1>4, <1>6 DEF a
<1>9. read >= low /\ read <= low + m - 1  BY <1>4, <1>5
<1>10. read - n = r - a  BY <1>4, <1>5 DEF a
<1> QED  BY <1>1, <1>2, <1>7, <1>8, <1>9, <1>10 DEF read

\* A saturated number is the nearest one that fits.
LEMMA SaturatedReads ==
  ASSUME NEW n \in Int, NEW width \in 1..Wide, NEW signed \in BOOLEAN
  PROVE  LET read == N!Saturated(n, width, signed)
             fits == n >= N!Least(width, signed) /\ n <= N!Greatest(width, signed)
         IN  /\ read \in Int /\ (fits => read = n)
             /\ read >= N!Least(width, signed) /\ read <= N!Greatest(width, signed)
             /\ ~fits => read = IF n < 0 THEN N!Least(width, signed) ELSE N!Greatest(width, signed)
<1>1. PICK m \in Nat, h \in Nat :
        /\ h >= 1 /\ m = 2 * h
        /\ N!Least(width, signed) = IF signed THEN -h ELSE 0
        /\ N!Greatest(width, signed) = N!Least(width, signed) + m - 1  BY Bounds
<1>2. PICK low \in Int : low = N!Least(width, signed) /\ low <= 0 /\ low + m - 1 >= 0  BY <1>1
<1>3. N!Saturated(n, width, signed) = IF n < low THEN low ELSE IF n > low + m - 1 THEN low + m - 1 ELSE n
  BY <1>1, <1>2 DEF N!Saturated
<1> QED  BY <1>1, <1>2, <1>3

\* Truncation makes a whole number.
LEMMA Truncates ==
  ASSUME NEW halves \in Int
  PROVE  N!Truncated(halves) \in Int
<1>1. halves \div 2 \in Int /\ (-halves) \div 2 \in Int  OBVIOUS
<1> QED  BY <1>1 DEF N!Truncated

\* Claim getters read every number of the claims back as its definition says.
LEMMA NumbersRead == N!NumbersReadBack
<1> SUFFICES ASSUME NEW v \in N!Numbers, NEW width \in 1..Wide, NEW signed \in BOOLEAN
             PROVE  LET read == N!NumericGetter(v, width, signed).value
                        whole == IF v.rep = "f64" THEN N!Truncated(v.n) ELSE v.n
                        fits == whole >= N!Least(width, signed) /\ whole <= N!Greatest(width, signed)
                    IN  /\ fits => read = whole
                        /\ read >= N!Least(width, signed) /\ read <= N!Greatest(width, signed)
                        /\ v.rep # "f64" => (read - whole) % N!Power[width] = 0
                        /\ v.rep = "f64" /\ ~fits =>
                              read = IF whole < 0 THEN N!Least(width, signed) ELSE N!Greatest(width, signed)
                        /\ N!ParseNumericDate(v).value.some <=> whole # 0  BY DEF N!NumbersReadBack
<1>0. Wide \in Nat /\ Wide >= 2 /\ Wide \in 1..Wide  BY Powers
<1>1. PICK m \in Nat, h \in Nat :
        /\ h >= 1 /\ m = 2 * h /\ h = N!Power[Wide - 1]
        /\ N!Least(Wide, TRUE) = -h /\ N!Greatest(Wide, TRUE) = h - 1
        /\ N!Least(Wide, FALSE) = 0 /\ N!Greatest(Wide, FALSE) = m - 1
 <2>1. PICK m \in Nat, h \in Nat :
         /\ h >= 1 /\ m = 2 * h /\ m = N!Power[Wide] /\ h = N!Power[Wide - 1]
         /\ N!Least(Wide, TRUE) = -h /\ N!Greatest(Wide, TRUE) = h - 1  BY <1>0, Bounds
 <2>2. PICK m2 \in Nat, h2 \in Nat :
         /\ m2 = N!Power[Wide] /\ N!Least(Wide, FALSE) = 0 /\ N!Greatest(Wide, FALSE) = m2 - 1  BY <1>0, Bounds
 <2> QED  BY <2>1, <2>2
<1>2. h >= 2
 <2>1. Wide - 1 \in 1..Wide /\ Wide - 1 - 1 \in 0..Wide  BY <1>0
 <2>2. N!Power[Wide - 1] = 2 * N!Power[Wide - 1 - 1] /\ N!Power[Wide - 1 - 1] \in Nat /\ N!Power[Wide - 1 - 1] >= 1
   BY <2>1, Powers
 <2> QED  BY <1>1, <2>2
<1>3. \A n \in Int : N!Saturated(n, Wide, TRUE) = 0 <=> n = 0
 <2> SUFFICES ASSUME NEW n \in Int PROVE N!Saturated(n, Wide, TRUE) = 0 <=> n = 0  OBVIOUS
 <2>0. PICK low \in Int, high \in Int : low = -h /\ high = h - 1 /\ low < 0 /\ high > 0  BY <1>2
 <2>1. N!Saturated(n, Wide, TRUE) = IF n < low THEN low ELSE IF n > high THEN high ELSE n
   BY <1>1, <2>0 DEF N!Saturated
 <2> DEFINE kept == N!Saturated(n, Wide, TRUE)
 <2> HIDE DEF kept
 <2>2. kept = IF n < low THEN low ELSE IF n > high THEN high ELSE n  BY <2>1 DEF kept
 <2>3. kept = 0 <=> n = 0  BY <2>0, <2>2
 <2> QED  BY <2>3 DEF kept
<1>4. /\ v.type = "number" /\ v.n \in Int /\ v.rep \in {"i64", "u64", "f64"}
 <2>1. CASE \E n \in N!Least(Wide, TRUE)..N!Greatest(Wide, FALSE) : v = N!Whole(n)
  <3>1. PICK n \in N!Least(Wide, TRUE)..N!Greatest(Wide, FALSE) : v = N!Whole(n)  BY <2>1
  <3>2. n \in Int  BY <1>1, <3>1
  <3> QED  BY <3>1, <3>2 DEF N!Whole
 <2>2. CASE \E n \in 4 * N!Least(Wide, TRUE)..4 * N!Greatest(Wide, FALSE) : v = N!Halves(n)
  <3>1. PICK n \in 4 * N!Least(Wide, TRUE)..4 * N!Greatest(Wide, FALSE) : v = N!Halves(n)  BY <2>2
  <3>2. n \in Int  BY <1>1, <3>1
  <3> QED  BY <3>1, <3>2 DEF N!Halves
 <2> QED  BY <2>1, <2>2 DEF N!Numbers
<1> DEFINE read == N!NumericGetter(v, width, signed).value
           whole == IF v.rep = "f64" THEN N!Truncated(v.n) ELSE v.n
<1>5. read = N!Cast(v, width, signed)  BY <1>4 DEF N!NumericGetter, N!Read
<1>6. whole \in Int  BY <1>4, Truncates
<1>7. read = IF v.rep = "f64" THEN N!Saturated(whole, width, signed) ELSE N!Wrapped(whole, width, signed)
  BY <1>5 DEF N!Cast
<1>8. N!ParseNumericDate(v).value.some <=> whole # 0
 <2>1. N!ParseNumericDate(v).value.some <=>
         (IF v.rep = "i64" THEN v.n
          ELSE N!Saturated(IF v.rep = "u64" THEN v.n ELSE N!Truncated(v.n), Wide, TRUE)) # 0
   BY <1>4 DEF N!ParseNumericDate, N!Read, N!Date
 <2>2. CASE v.rep = "i64"  BY <2>1, <2>2
 <2>3. CASE v.rep = "u64"  BY <1>3, <1>4, <2>1, <2>3
 <2>4. CASE v.rep = "f64"  BY <1>3, <1>6, <2>1, <2>4
 <2> QED  BY <1>4, <2>2, <2>3, <2>4
<1> HIDE DEF read, whole
<1>9. CASE v.rep = "f64"  BY <1>6, <1>7, <1>8, <1>9, SaturatedReads DEF read, whole
<1>10. CASE v.rep # "f64"  BY <1>6, <1>7, <1>8, <1>10, WrappedReads DEF read, whole
<1> QED  BY <1>9, <1>10

-----------------------------------------------------------------------------
(* VerdictsAreCurrent of the whole specification.                          *)
VerdictInv == HandshakeInv /\ InstallInv /\ Shows(answer)

\* The first state has VerdictInv.
LEMMA VerdictInit ==
  ASSUME MCInit
  PROVE  VerdictInv
<1>1. N!AuthnInit /\ Z!AuthzInit  BY DEF MCInit
<1> QED  BY <1>1, HandshakeInit, InstallInit DEF VerdictInv

\* Every step keeps VerdictInv.
LEMMA VerdictSteps ==
  ASSUME VerdictInv, [MCNext]_allVars
  PROVE  VerdictInv'
<1>1. [N!AuthnNext]_authnVars  BY DEF MCNext, InEdge, InAssembly, InAuthn, InAuthz, InBinder, InCrud, allVars
<1>2. [Z!AuthzNext]_authzVars  BY DEF MCNext, InEdge, InAssembly, InAuthn, InAuthz, InBinder, InCrud, allVars
<1>3. HandshakeInv'  BY <1>1, HandshakeSteps DEF VerdictInv
<1>4. (InstallInv /\ Shows(answer))'  BY <1>2, InstallSteps DEF VerdictInv
<1> QED  BY <1>3, <1>4 DEF VerdictInv

\* VerdictInv makes verdicts current.
LEMMA VerdictsHold ==
  ASSUME VerdictInv
  PROVE  VerdictsAreCurrent
<1>1. N!AnswersAreCurrent  BY AnswersCurrent DEF VerdictInv
<1>2. Z!ListShowsTheLastPolicy  BY ShowsIsTheList DEF VerdictInv
<1> QED  BY <1>1, <1>2, NumbersRead, DecisionsMatch DEF VerdictsAreCurrent

(* VerdictsAreCurrent for any names, tokens, clocks, policies and lists:   *)
(* an engine's verdict on a handshake is right at a moment of the request; *)
(* a filtered list is what the last installed policy grants, taken whole;  *)
(* and roles, patterns, rules and claim getters do what their definitions  *)
(* say (rushwind-auth-* and rushwind-authz-* engines).                     *)
THEOREM VerdictsStand == MCSpec => []VerdictsAreCurrent
<1>1. MCInit => VerdictInv  BY VerdictInit
<1>2. VerdictInv /\ [MCNext]_allVars => VerdictInv'  BY VerdictSteps
<1>3. VerdictInv => VerdictsAreCurrent  BY VerdictsHold
<1> QED  BY <1>1, <1>2, <1>3, PTL DEF MCSpec
=============================================================================
