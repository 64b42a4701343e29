---------------------------- MODULE FileOpsProofs ----------------------------
(***************************************************************************)
(* Proofs about FileOps: types, what a walk may take away, what "Don't     *)
(* overwrite" keeps, and that the worker's pastes lose nothing.             *)
(***************************************************************************)
EXTENDS FileOps, SequenceTheorems, TLAPS

-----------------------------------------------------------------------------
(***************************************************************************)
(* Paths: prefixes, and moving what is below one path to below another.    *)
(***************************************************************************)
LEMMA PrefixDef ==
  ASSUME NEW S, NEW a \in Seq(S), NEW b \in Seq(S)
  PROVE  IsPrefix(a, b) <=> Len(a) <= Len(b) /\ \A i \in 1..Len(a) : a[i] = b[i]
<1>1. ASSUME Len(a) <= Len(b)
      PROVE  SubSeq(b, 1, Len(a)) \in Seq(S) /\ Len(SubSeq(b, 1, Len(a))) = Len(a)
             /\ \A i \in 1..Len(a) : SubSeq(b, 1, Len(a))[i] = b[i]
  BY <1>1, LenProperties, SubSeqProperties
<1>2. ASSUME Len(a) <= Len(b)
      PROVE  a = SubSeq(b, 1, Len(a)) <=> \A i \in 1..Len(a) : a[i] = b[i]
  BY <1>1, <1>2, SeqEqual
<1>3. SubSeq(a, 1, Len(a)) = a
  BY SubSeqFull
<1> QED
  BY <1>2, <1>3 DEF IsPrefix

LEMMA PrefixSelf ==
  ASSUME NEW S, NEW a \in Seq(S)
  PROVE  IsPrefix(a, a)
BY PrefixDef, LenProperties

LEMMA PrefixTrans ==
  ASSUME NEW S, NEW a \in Seq(S), NEW b \in Seq(S), NEW c \in Seq(S),
         IsPrefix(a, b), IsPrefix(b, c)
  PROVE  IsPrefix(a, c)
BY PrefixDef, LenProperties

LEMMA PrefixSame ==
  ASSUME NEW S, NEW a \in Seq(S), NEW b \in Seq(S), IsPrefix(a, b), Len(a) = Len(b)
  PROVE  a = b
BY PrefixDef, SeqEqual

LEMMA PrefixTree ==
  ASSUME NEW S, NEW a \in Seq(S), NEW b \in Seq(S), NEW c \in Seq(S),
         IsPrefix(a, c), IsPrefix(b, c), Len(a) <= Len(b)
  PROVE  IsPrefix(a, b)
BY PrefixDef, LenProperties

(* The path above p has every proper prefix of p as a prefix. *)
LEMMA FrontIs ==
  ASSUME NEW S, NEW p \in Seq(S), p # <<>>
  PROVE  /\ Front(p) \in Seq(S) /\ Len(Front(p)) = Len(p) - 1
         /\ IsPrefix(Front(p), p) /\ Front(p) # p
         /\ \A q \in Seq(S) : IsPrefix(q, p) /\ q # p => IsPrefix(q, Front(p))
<1>1. Len(p) \in Nat \ {0}
  BY EmptySeq
<1>2. /\ Front(p) \in Seq(S) /\ Len(Front(p)) = Len(p) - 1
      /\ \A i \in 1..(Len(p) - 1) : Front(p)[i] = p[i]
  <2>1. /\ SubSeq(p, 1, Len(p) - 1) \in Seq(S)
        /\ Len(SubSeq(p, 1, Len(p) - 1)) =
             IF 1 <= Len(p) - 1 THEN Len(p) - 1 - 1 + 1 ELSE 0
        /\ \A i \in 1..(Len(p) - 1 - 1 + 1) : SubSeq(p, 1, Len(p) - 1)[i] = p[1 + i - 1]
    BY <1>1, LenProperties, SubSeqProperties
  <2> HIDE DEF Front
  <2>2. Front(p) = SubSeq(p, 1, Len(p) - 1)
    BY DEF Front
  <2>3. (IF 1 <= Len(p) - 1 THEN Len(p) - 1 - 1 + 1 ELSE 0) = Len(p) - 1
        /\ Len(p) - 1 - 1 + 1 = Len(p) - 1
        /\ \A i \in 1..(Len(p) - 1) : 1 + i - 1 = i
    <3>1. \A n \in Nat \ {0} : /\ (IF 1 <= n - 1 THEN n - 1 - 1 + 1 ELSE 0) = n - 1
                                /\ n - 1 - 1 + 1 = n - 1
                                /\ \A i \in 1..(n - 1) : 1 + i - 1 = i
      OBVIOUS
    <3> QED
      BY <3>1, <1>1
  <2> QED
    BY <2>1, <2>2, <2>3
<1>3. IsPrefix(Front(p), p)
  BY <1>1, <1>2, PrefixDef
<1>4. ASSUME NEW q \in Seq(S), IsPrefix(q, p), q # p
      PROVE  IsPrefix(q, Front(p))
  <2>1. Len(q) # Len(p) /\ Len(q) <= Len(p) /\ Len(q) \in Nat
    BY <1>4, PrefixSame, PrefixDef, LenProperties
  <2> QED
    BY <1>1, <1>2, <1>3, <1>4, <2>1, PrefixTree
<1> QED
  BY <1>1, <1>2, <1>3, <1>4

LEMMA LastIs ==
  ASSUME NEW S, NEW p \in Seq(S), p # <<>>
  PROVE  Last(p) \in S
BY EmptySeq, LenProperties DEF Last

(* The paths above p are its proper prefixes. *)
LEMMA AboveIs ==
  ASSUME NEW p \in Path, NEW q
  PROVE  q \in Above(p) <=> q \in Path /\ IsPrefix(q, p) /\ q # p
<1>1. p \in Seq(Name) /\ p # <<>> /\ Len(p) \in Nat \ {0} /\ DOMAIN p = 1..Len(p)
  BY EmptySeq, LenProperties DEF Path
<1>2. ASSUME NEW i \in 1..(Len(p) - 1), q = SubSeq(p, 1, i)
      PROVE  q \in Path /\ IsPrefix(q, p) /\ q # p
  <2>1. /\ q \in Seq(Name) /\ Len(q) = i
        /\ \A j \in 1..i : q[j] = p[j]
    <3>1. /\ SubSeq(p, 1, i) \in Seq(Name)
          /\ Len(SubSeq(p, 1, i)) = IF 1 <= i THEN i - 1 + 1 ELSE 0
          /\ \A j \in 1..(i - 1 + 1) : SubSeq(p, 1, i)[j] = p[1 + j - 1]
      BY <1>1, LenProperties, SubSeqProperties
    <3>2. i \in Nat \ {0} /\ (IF 1 <= i THEN i - 1 + 1 ELSE 0) = i /\ i - 1 + 1 = i
          /\ \A j \in 1..i : 1 + j - 1 = j
      BY <1>1
    <3> QED
      BY <3>1, <3>2, <1>2
  <2>2. q # <<>> /\ Len(q) # Len(p)
    <3>1. \A n \in Nat : \A m \in 1..(n - 1) : m # 0 /\ m # n
      OBVIOUS
    <3>2. Len(<<>>) = 0
      OBVIOUS
    <3> QED
      BY <2>1, <3>1, <3>2, <1>1
  <2>3. Len(q) <= Len(p) /\ \A j \in 1..Len(q) : q[j] = p[j]
    BY <2>1, <1>1
  <2> QED
    BY <2>1, <2>2, <2>3, <1>1, PrefixDef DEF Path
<1>3. ASSUME q \in Path, IsPrefix(q, p), q # p
      PROVE  q \in Above(p)
  <2>1. q \in Seq(Name) /\ Len(q) \in Nat \ {0}
    BY <1>3, EmptySeq DEF Path
  <2>2. Len(q) <= Len(p) /\ Len(q) # Len(p)
    BY <2>1, <1>1, <1>3, PrefixDef, PrefixSame
  <2>3. q = SubSeq(p, 1, Len(q))
    <3>1. SubSeq(q, 1, Len(q)) = q
      BY <2>1, SubSeqFull
    <3> QED
      BY <3>1, <1>3 DEF IsPrefix
  <2>4. Len(q) \in 1..(Len(p) - 1)
    BY <2>1, <2>2, <1>1
  <2> QED
    BY <2>3, <2>4 DEF Above
<1> QED
  BY <1>2, <1>3 DEF Above

LEMMA IntoIs ==
  ASSUME NEW dest \in Seq(Name), NEW p \in Path
  PROVE  Into(dest, p) \in Path
<1>1. p \in Seq(Name) /\ p # <<>>
  BY DEF Path
<1>2. Last(p) \in Name
  BY <1>1, LastIs
<1> QED
  BY <1>2, AppendProperties DEF Into, Path

(* b without its first names, those of a. *)
Rest(a, b) == SubSeq(b, Len(a) + 1, Len(b))

IsRest(S, a, b, s) ==
  /\ s \in Seq(S) /\ Len(s) = Len(b) - Len(a)
  /\ \A i \in 1..(Len(b) - Len(a)) : s[i] = b[Len(a) + i]

LEMMA RestIs ==
  ASSUME NEW S, NEW a \in Seq(S), NEW b \in Seq(S), IsPrefix(a, b)
  PROVE  IsRest(S, a, b, Rest(a, b))
<1>1. Len(a) \in Nat /\ Len(b) \in Nat /\ Len(a) <= Len(b)
  BY PrefixDef, LenProperties
<1>2. \A i \in (Len(a) + 1)..Len(b) : b[i] \in S
  BY <1>1, LenProperties
<1>3. /\ SubSeq(b, Len(a) + 1, Len(b)) \in Seq(S)
      /\ Len(SubSeq(b, Len(a) + 1, Len(b))) =
           IF Len(a) + 1 <= Len(b) THEN Len(b) - (Len(a) + 1) + 1 ELSE 0
      /\ \A i \in 1..(Len(b) - (Len(a) + 1) + 1) :
           SubSeq(b, Len(a) + 1, Len(b))[i] = b[Len(a) + 1 + i - 1]
  BY <1>1, <1>2, SubSeqProperties
<1> QED
  BY <1>1, <1>3 DEF Rest, IsRest

Joins(S, a, b, s) ==
  /\ s \in Seq(S) /\ Len(s) = Len(a) + Len(b)
  /\ \A i \in 1..Len(a) : s[i] = a[i]
  /\ \A k \in 1..Len(b) : s[Len(a) + k] = b[k]

LEMMA Joined ==
  ASSUME NEW S, NEW a \in Seq(S), NEW b \in Seq(S)
  PROVE  Joins(S, a, b, a \o b)
<1>1. Len(a) \in Nat /\ Len(b) \in Nat
  BY LenProperties
<1>2. /\ a \o b \in Seq(S) /\ Len(a \o b) = Len(a) + Len(b)
      /\ \A i \in 1 .. Len(a) + Len(b) :
           (a \o b)[i] = IF i <= Len(a) THEN a[i] ELSE b[i - Len(a)]
  BY ConcatProperties
<1>3. ASSUME NEW k \in 1..Len(b)
      PROVE  (a \o b)[Len(a) + k] = b[k]
  <2>1. Len(a) + k \in 1 .. Len(a) + Len(b) /\ ~(Len(a) + k <= Len(a))
        /\ Len(a) + k - Len(a) = k
    BY <1>1
  <2> QED
    BY <1>2, <2>1
<1>4. \A i \in 1..Len(a) : i \in 1 .. Len(a) + Len(b) /\ i <= Len(a)
  BY <1>1
<1> QED
  BY <1>2, <1>3, <1>4 DEF Joins

(* What is below a, put below c: all of it is known by its place below a. *)
IsGraft(S, a, b, c, new) ==
  /\ new \in Seq(S) /\ Len(new) = Len(c) + (Len(b) - Len(a))
  /\ \A i \in 1..Len(c) : new[i] = c[i]
  /\ \A k \in 1..(Len(b) - Len(a)) : new[Len(c) + k] = b[Len(a) + k]
  /\ IsPrefix(c, new)
  /\ a \o Rest(c, new) = b

LEMMA Grafted ==
  ASSUME NEW S, NEW a \in Seq(S), NEW b \in Seq(S), NEW c \in Seq(S), IsPrefix(a, b)
  PROVE  IsGraft(S, a, b, c, c \o Rest(a, b))
<1> DEFINE new == c \o Rest(a, b)
<1>1. Len(a) \in Nat /\ Len(b) \in Nat /\ Len(c) \in Nat /\ Len(a) <= Len(b)
      /\ Len(b) - Len(a) \in Nat
  BY PrefixDef, LenProperties
<1>2. /\ new \in Seq(S) /\ Len(new) = Len(c) + (Len(b) - Len(a))
      /\ \A i \in 1..Len(c) : new[i] = c[i]
      /\ \A k \in 1..(Len(b) - Len(a)) : new[Len(c) + k] = b[Len(a) + k]
  <2> DEFINE tail == Rest(a, b)
  <2>1. tail \in Seq(S) /\ Len(tail) = Len(b) - Len(a)
        /\ \A i \in 1..(Len(b) - Len(a)) : tail[i] = b[Len(a) + i]
    BY RestIs DEF IsRest
  <2> HIDE DEF tail
  <2>2. new = c \o tail
    BY DEF tail
  <2> HIDE DEF new
  <2>3. Joins(S, c, tail, c \o tail)
    BY <2>1, Joined
  <2> QED
    BY <2>1, <2>2, <2>3 DEF Joins
<1> HIDE DEF new
<1>3. IsPrefix(c, new)
  <2>1. Len(c) <= Len(new)
    BY <1>1, <1>2
  <2> QED
    BY <2>1, <1>2, PrefixDef
<1> DEFINE tail == Rest(c, new)
           back == a \o tail
<1> HIDE DEF tail
<1>4. tail \in Seq(S) /\ Len(tail) = Len(b) - Len(a)
      /\ \A k \in 1..(Len(b) - Len(a)) : tail[k] = b[Len(a) + k]
  <2>1. tail \in Seq(S) /\ Len(tail) = Len(new) - Len(c)
        /\ \A i \in 1..(Len(new) - Len(c)) : tail[i] = new[Len(c) + i]
    <3>1. IsRest(S, c, new, tail)
      BY <1>2, <1>3, RestIs DEF tail
    <3> QED
      BY <3>1 DEF IsRest
  <2>2. Len(new) - Len(c) = Len(b) - Len(a)
    BY <1>1, <1>2
  <2> QED
    BY <2>1, <2>2, <1>2
<1>5. /\ back \in Seq(S) /\ Len(back) = Len(a) + Len(tail)
      /\ \A i \in 1..Len(a) : back[i] = a[i]
      /\ \A k \in 1..Len(tail) : back[Len(a) + k] = tail[k]
  <2>1. Joins(S, a, tail, back)
    BY <1>4, Joined
  <2> QED
    BY <2>1 DEF Joins
<1> HIDE DEF back
<1>6. Len(back) = Len(b)
  BY <1>1, <1>4, <1>5
<1>7. ASSUME NEW i \in 1..Len(b)
      PROVE  back[i] = b[i]
  <2>1. CASE i \in 1..Len(a)
    BY <2>1, <1>5, PrefixDef
  <2>2. CASE ~(i \in 1..Len(a))
    <3>1. PICK k \in 1..(Len(b) - Len(a)) : i = Len(a) + k
      <4>1. i - Len(a) \in 1..(Len(b) - Len(a)) /\ i = Len(a) + (i - Len(a))
        BY <1>1, <2>2
      <4> QED
        BY <4>1
    <3> QED
      BY <3>1, <1>4, <1>5
  <2> QED
    BY <2>1, <2>2
<1>8. back = b
  BY <1>5, <1>6, <1>7, SeqEqual
<1> QED
  <2>1. a \o Rest(c, new) = b
    BY <1>8 DEF back, tail
  <2>2. IsGraft(S, a, b, c, new)
    BY <1>2, <1>3, <2>1 DEF IsGraft
  <2> QED
    BY <2>2 DEF new

LEMMA GraftedPrefix ==
  ASSUME NEW S, NEW a \in Seq(S), NEW b \in Seq(S), NEW c \in Seq(S), NEW d \in Seq(S),
         IsPrefix(a, b), IsPrefix(b, d)
  PROVE  /\ IsPrefix(c \o Rest(a, b), c \o Rest(a, d))
         /\ b # d => c \o Rest(a, b) # c \o Rest(a, d)
<1> DEFINE new == c \o Rest(a, b)
           far == c \o Rest(a, d)
<1>1. IsPrefix(a, d)
  BY PrefixTrans
<1>2. Len(a) \in Nat /\ Len(b) \in Nat /\ Len(c) \in Nat /\ Len(d) \in Nat
      /\ Len(a) <= Len(b) /\ Len(b) <= Len(d) /\ \A i \in 1..Len(b) : b[i] = d[i]
  BY PrefixDef, LenProperties
<1> HIDE DEF new, far
<1>3. /\ new \in Seq(S) /\ Len(new) = Len(c) + (Len(b) - Len(a))
      /\ \A i \in 1..Len(c) : new[i] = c[i]
      /\ \A k \in 1..(Len(b) - Len(a)) : new[Len(c) + k] = b[Len(a) + k]
      /\ a \o Rest(c, new) = b
  <2>1. IsGraft(S, a, b, c, new)
    BY Grafted DEF new
  <2> QED
    BY <2>1 DEF IsGraft
<1>4. /\ far \in Seq(S) /\ Len(far) = Len(c) + (Len(d) - Len(a))
      /\ \A i \in 1..Len(c) : far[i] = c[i]
      /\ \A k \in 1..(Len(d) - Len(a)) : far[Len(c) + k] = d[Len(a) + k]
      /\ a \o Rest(c, far) = d
  <2>1. IsGraft(S, a, d, c, far)
    BY <1>1, Grafted DEF far
  <2> QED
    BY <2>1 DEF IsGraft
<1>5. ASSUME NEW i \in 1..Len(new)
      PROVE  new[i] = far[i]
  <2>1. CASE i \in 1..Len(c)
    BY <2>1, <1>3, <1>4
  <2>2. CASE ~(i \in 1..Len(c))
    <3>1. PICK k \in 1..(Len(b) - Len(a)) : i = Len(c) + k
      <4>1. i - Len(c) \in 1..(Len(b) - Len(a)) /\ i = Len(c) + (i - Len(c))
        BY <1>2, <1>3, <2>2
      <4> QED
        BY <4>1
    <3>2. k \in 1..(Len(d) - Len(a)) /\ Len(a) + k \in 1..Len(b)
      BY <1>2
    <3> QED
      BY <3>1, <3>2, <1>2, <1>3, <1>4
  <2> QED
    BY <2>1, <2>2
<1>6. Len(new) <= Len(far)
  BY <1>2, <1>3, <1>4
<1> QED
  BY <1>3, <1>4, <1>5, <1>6, PrefixDef DEF new, far

-----------------------------------------------------------------------------
(***************************************************************************)
(* Trees: what is above a file or a directory is a directory.              *)
(***************************************************************************)
IsPart(x) == \E d \in Data : \E n \in 0..Size[d] : x = [of |-> d, blocks |-> n]

Tree(f) ==
  /\ DOMAIN f \subseteq Path
  /\ \A p \in DOMAIN f : f[p] = Dir \/ IsPart(f[p])
  /\ \A p \in DOMAIN f : \A q \in Path :
       IsPrefix(q, p) /\ q # p => q \in DOMAIN f /\ f[q] = Dir

LEMMA FileIs ==
  ASSUME NEW x, x = Dir \/ IsPart(x)
  PROVE  /\ x.of = "dir" <=> x = Dir
         /\ x # Dir => /\ x.of \in Data /\ x.blocks \in 0..Size[x.of]
                       /\ x = [of |-> x.of, blocks |-> x.blocks]
         /\ x.blocks \in Nat
BY FileOpsAssumption DEF FileOpsAssumption, Dir, IsPart

(* Nothing is below a file. *)
LEMMA FileAlone ==
  ASSUME NEW f, Tree(f), NEW p \in DOMAIN f, f[p] # Dir,
         NEW q \in DOMAIN f, IsPrefix(p, q)
  PROVE  q = p
BY DEF Tree

LEMMA FileUnder ==
  ASSUME Tree(fs), NEW p \in DOMAIN fs, fs[p] # Dir
  PROVE  Under(p) = {p}
<1>1. IsPrefix(p, p)
  BY PrefixSelf DEF Tree, Path
<1> QED
  BY <1>1, FileAlone DEF Under

LEMMA NothingUnder ==
  ASSUME Tree(fs), NEW p \in Path, p \notin DOMAIN fs
  PROVE  Under(p) = {}
BY DEF Tree, Under

(* What lies below a directory is at or under one of its entries. *)
LEMMA ChildAbove ==
  ASSUME Tree(fs), NEW p \in Path, NEW q \in DOMAIN fs, IsPrefix(p, q), q # p
  PROVE  \E c \in Children(p) : IsPrefix(c, q)
<1>1. q \in Seq(Name) /\ Len(q) \in Nat /\ p \in Seq(Name) /\ Len(p) \in Nat
  BY LenProperties DEF Tree, Path
<1>2. Len(p) < Len(q)
  BY <1>1, PrefixDef, PrefixSame
<1> DEFINE c == SubSeq(q, 1, Len(p) + 1)
<1>3. Len(p) + 1 \in 1..Len(q) /\ Len(p) + 1 # 0
  BY <1>1, <1>2
<1>4. c \in Seq(Name) /\ Len(c) = Len(p) + 1
      /\ \A i \in 1..(Len(p) + 1) : c[i] = q[i]
  <2> DEFINE n == Len(p) + 1
  <2>1. n \in 1..Len(q)
    BY <1>3
  <2> HIDE DEF n
  <2>2. /\ SubSeq(q, 1, n) \in Seq(Name)
        /\ Len(SubSeq(q, 1, n)) = IF 1 <= n THEN n - 1 + 1 ELSE 0
        /\ \A j \in 1..(n - 1 + 1) : SubSeq(q, 1, n)[j] = q[1 + j - 1]
    BY <1>1, <2>1, LenProperties, SubSeqProperties
  <2>3. n \in Nat \ {0} /\ (IF 1 <= n THEN n - 1 + 1 ELSE 0) = n /\ n - 1 + 1 = n
        /\ \A j \in 1..n : 1 + j - 1 = j
    BY <1>1, <2>1
  <2> QED
    BY <2>2, <2>3 DEF n
<1> HIDE DEF c
<1>5. IsPrefix(c, q)
  <2>1. Len(c) <= Len(q)
    BY <1>3, <1>4, <1>1
  <2> QED
    BY <2>1, <1>1, <1>4, PrefixDef
<1>6. IsPrefix(p, c)
  <2>1. Len(p) <= Len(c)
    BY <1>1, <1>4
  <2> QED
    BY <2>1, <1>1, <1>4, <1>5, PrefixTree
<1>7. c \in Path
  <2>1. Len(c) # 0 /\ Len(<<>>) = 0
    BY <1>1, <1>4
  <2> QED
    BY <2>1, <1>4 DEF Path
<1>8. c \in DOMAIN fs
  BY <1>5, <1>7 DEF Tree
<1>9. c \in Children(p)
  BY <1>4, <1>6, <1>8 DEF Children, Under
<1> QED
  BY <1>5, <1>9

LEMMA NoChildren ==
  ASSUME Tree(fs), NEW p \in DOMAIN fs, Children(p) = {}
  PROVE  Under(p) = {p}
<1>1. p \in Path /\ IsPrefix(p, p)
  BY PrefixSelf DEF Tree, Path
<1>2. \A q \in DOMAIN fs : IsPrefix(p, q) => q = p
  BY <1>1, ChildAbove
<1> QED
  BY <1>1, <1>2 DEF Under

(* mkdir changes nothing that is there, and makes directories only. *)
MkDirsAdds(f, p) ==
  /\ DOMAIN f \subseteq DOMAIN MkDirs(f, p)
  /\ \A q \in DOMAIN f : MkDirs(f, p)[q] = f[q]
  /\ \A q \in DOMAIN MkDirs(f, p) \ DOMAIN f : MkDirs(f, p)[q] = Dir

LEMMA MkDirsAdd ==
  ASSUME NEW f, NEW p
  PROVE  MkDirsAdds(f, p)
BY DEF MkDirs, MkDirsAdds, ++

LEMMA MkDirsTree ==
  ASSUME NEW f, Tree(f), NEW p \in Seq(Name)
  PROVE  Tree(MkDirs(f, p))
<1> DEFINE above == {SubSeq(p, 1, i) : i \in 1..Len(p)}
           made == {q \in above \ DOMAIN f :
                      \A r \in DOMAIN f : IsPrefix(r, q) => f[r].of = "dir"}
           g == MkDirs(f, p)
<1>1. DOMAIN g = DOMAIN f \cup made
  BY DEF MkDirs, ++
<1>2. \A q \in above : q \in Path /\ IsPrefix(q, p)
  <2> SUFFICES ASSUME NEW i \in 1..Len(p)
               PROVE  SubSeq(p, 1, i) \in Path /\ IsPrefix(SubSeq(p, 1, i), p)
    OBVIOUS
  <2>1. /\ SubSeq(p, 1, i) \in Seq(Name)
        /\ Len(SubSeq(p, 1, i)) = IF 1 <= i THEN i - 1 + 1 ELSE 0
        /\ \A j \in 1..(i - 1 + 1) : SubSeq(p, 1, i)[j] = p[1 + j - 1]
    BY LenProperties, SubSeqProperties
  <2>2. i \in Nat \ {0} /\ (IF 1 <= i THEN i - 1 + 1 ELSE 0) = i /\ i - 1 + 1 = i
        /\ (\A j \in 1..i : 1 + j - 1 = j) /\ i <= Len(p)
    BY LenProperties
  <2>3. Len(SubSeq(p, 1, i)) = i /\ \A j \in 1..i : SubSeq(p, 1, i)[j] = p[j]
    BY <2>1, <2>2
  <2>4. SubSeq(p, 1, i) # <<>>
    <3>1. Len(<<>>) = 0
      OBVIOUS
    <3> QED
      BY <3>1, <2>2, <2>3
  <2> QED
    BY <2>1, <2>2, <2>3, <2>4, PrefixDef DEF Path
<1>3. \A q \in Path : IsPrefix(q, p) => q \in above
  <2> SUFFICES ASSUME NEW q \in Path, IsPrefix(q, p)
               PROVE  q \in above
    OBVIOUS
  <2>1. q \in Seq(Name) /\ q # <<>> /\ Len(q) \in Nat \ {0}
    BY EmptySeq DEF Path
  <2>2. q = SubSeq(p, 1, Len(q)) /\ Len(q) <= Len(p)
    <3>1. SubSeq(q, 1, Len(q)) = q
      BY <2>1, SubSeqFull
    <3> QED
      BY <3>1 DEF IsPrefix
  <2>3. Len(q) \in 1..Len(p)
    BY <2>1, <2>2, LenProperties
  <2> QED
    BY <2>2, <2>3
<1> HIDE DEF above, g
<1>4. \A q \in made : g[q] = Dir
  BY <1>1, MkDirsAdd DEF MkDirsAdds, g
<1>5. \A q \in DOMAIN f : g[q] = f[q]
  BY MkDirsAdd DEF MkDirsAdds, g
<1>6. ASSUME NEW q \in made, NEW r \in Path, IsPrefix(r, q), r # q
      PROVE  r \in DOMAIN g /\ g[r] = Dir
  <2>1. q \in Seq(Name) /\ r \in Seq(Name) /\ IsPrefix(q, p)
    BY <1>2 DEF Path
  <2>2. r \in above
    BY <2>1, <1>3, <1>6, PrefixTrans
  <2>3. CASE r \in DOMAIN f
    <3>1. f[r].of = "dir"
      BY <1>6, <2>3
    <3>2. f[r] = Dir
      BY <3>1, <2>3, FileIs DEF Tree
    <3> QED
      BY <3>2, <2>3, <1>1, <1>5
  <2>4. CASE r \notin DOMAIN f
    <3>1. ASSUME NEW s \in DOMAIN f, IsPrefix(s, r)
          PROVE  f[s].of = "dir"
      <4>1. s \in Seq(Name)
        BY DEF Tree, Path
      <4>2. IsPrefix(s, q)
        BY <4>1, <2>1, <1>6, <3>1, PrefixTrans
      <4> QED
        BY <4>2
    <3>2. r \in made
      BY <3>1, <2>2, <2>4
    <3> QED
      BY <3>2, <1>1, <1>4
  <2> QED
    BY <2>3, <2>4
<1>7. DOMAIN g \subseteq Path
  BY <1>1, <1>2 DEF Tree
<1>8. \A q \in DOMAIN g : g[q] = Dir \/ IsPart(g[q])
  BY <1>1, <1>4, <1>5 DEF Tree
<1>9. ASSUME NEW q \in DOMAIN f, NEW r \in Path, IsPrefix(r, q), r # q
      PROVE  r \in DOMAIN g /\ g[r] = Dir
  BY <1>1, <1>5, <1>9 DEF Tree
<1> QED
  <2>1. Tree(g)
    BY <1>1, <1>6, <1>7, <1>8, <1>9 DEF Tree
  <2> QED
    BY <2>1 DEF g

LEMMA UnlinkedTree ==
  ASSUME NEW f, Tree(f), NEW gone,
         \A p \in DOMAIN f \ gone : \A q \in gone : IsPrefix(q, p) => q = p
  PROVE  Tree(Unlinked(f, gone))
BY DEF Tree, Unlinked

(* A file is written where there is a directory for it. *)
LEMMA PutTree ==
  ASSUME NEW f, Tree(f), NEW to \in Path, NEW x, IsPart(x),
         Front(to) \in DOMAIN f, f[Front(to)] = Dir, to \in DOMAIN f => f[to] # Dir
  PROVE  Tree([p \in {to} |-> x] ++ f)
<1> DEFINE g == [p \in {to} |-> x] ++ f
<1>1. DOMAIN g = DOMAIN f \cup {to} /\ g[to] = x
      /\ \A p \in DOMAIN f : p # to => g[p] = f[p]
  BY DEF ++
<1> HIDE DEF g
<1>2. to \in Seq(Name) /\ to # <<>> /\ Front(to) \in Seq(Name) /\ Front(to) \in Path
  BY FrontIs DEF Path, Tree
<1>3. ASSUME NEW q \in Path, IsPrefix(q, to), q # to
      PROVE  q \in DOMAIN f /\ f[q] = Dir
  <2>1. IsPrefix(q, Front(to))
    BY <1>2, <1>3, FrontIs DEF Path
  <2> QED
    BY <2>1, <1>3 DEF Tree
<1>4. ASSUME NEW p \in DOMAIN f, IsPrefix(to, p), p # to
      PROVE  FALSE
  BY <1>4 DEF Tree
<1>5. DOMAIN g \subseteq Path
  BY <1>1 DEF Tree
<1>6. \A p \in DOMAIN g : g[p] = Dir \/ IsPart(g[p])
  BY <1>1 DEF Tree
<1>7. ASSUME NEW p \in DOMAIN g, NEW q \in Path, IsPrefix(q, p), q # p
      PROVE  q \in DOMAIN g /\ g[q] = Dir
  <2>1. CASE p = to
    BY <2>1, <1>1, <1>3, <1>7
  <2>2. CASE p # to
    <3>1. p \in DOMAIN f /\ q # to
      BY <2>2, <1>1, <1>4, <1>7
    <3> QED
      BY <3>1, <1>1, <1>7 DEF Tree
  <2> QED
    BY <2>1, <2>2
<1> QED
  BY <1>5, <1>6, <1>7 DEF Tree, g

LEMMA ResizedTree ==
  ASSUME NEW f, Tree(f), NEW p \in DOMAIN f, f[p] # Dir, NEW n \in 0..Size[f[p].of]
  PROVE  /\ Tree([f EXCEPT ![p].blocks = n])
         /\ [f EXCEPT ![p].blocks = n][p] = [of |-> f[p].of, blocks |-> n]
<1> DEFINE g == [f EXCEPT ![p].blocks = n]
<1>1. f[p].of \in Data /\ f[p] = [of |-> f[p].of, blocks |-> f[p].blocks]
  BY FileIs DEF Tree
<1>2. DOMAIN g = DOMAIN f /\ \A q \in DOMAIN f : q # p => g[q] = f[q]
  OBVIOUS
<1>3. g[p] = [of |-> f[p].of, blocks |-> n]
  <2>1. g[p] = [f[p] EXCEPT !.blocks = n]
    OBVIOUS
  <2> QED
    BY <1>1, <2>1
<1> HIDE DEF g
<1>4. IsPart(g[p])
  BY <1>1, <1>3 DEF IsPart
<1>5. DOMAIN g \subseteq Path /\ \A q \in DOMAIN g : g[q] = Dir \/ IsPart(g[q])
  BY <1>2, <1>4 DEF Tree
<1>6. ASSUME NEW q \in DOMAIN g, NEW r \in Path, IsPrefix(r, q), r # q
      PROVE  r \in DOMAIN g /\ g[r] = Dir
  <2>1. r \in DOMAIN f /\ f[r] = Dir
    BY <1>2, <1>6 DEF Tree
  <2> QED
    BY <2>1, <1>2
<1>7. Tree(g)
  BY <1>5, <1>6 DEF Tree
<1> QED
  BY <1>3, <1>7 DEF g

(***************************************************************************)
(* rename moves what is at or under "from"; the rest stays, but a file it  *)
(* replaces.                                                               *)
(***************************************************************************)
Kept(from, to) == DOMAIN fs \ (Under(from) \cup Under(to))

RenameMoves(from, to, f) ==
  /\ Tree(f)
  /\ DOMAIN f = Kept(from, to) \cup {to \o Rest(from, q) : q \in Under(from)}
  /\ \A q \in Kept(from, to) : f[q] = fs[q]
  /\ \A q \in Under(from) : f[to \o Rest(from, q)] = fs[q]
  /\ Under(to) \subseteq {to}
  /\ to \in DOMAIN fs => Under(from) = {from} /\ fs[from] # Dir /\ fs[to] # Dir
                         /\ f[to] = fs[from] /\ to \in DOMAIN f

LEMMA RenamedTree ==
  ASSUME Tree(fs), NEW from \in Path, NEW to \in Path, from # to,
         RenameError(from, to) = "none"
  PROVE  RenameMoves(from, to, Renamed(from, to))
<1> DEFINE suffix(q) == to \o Rest(from, q)
           moved == {suffix(q) : q \in Under(from)}
           kept == Kept(from, to)
           f == Renamed(from, to)
<1>1. /\ from \in DOMAIN fs /\ Front(to) \in DOMAIN fs /\ fs[Front(to)] = Dir
      /\ ~IsPrefix(from, to)
      /\ to \in DOMAIN fs => fs[from] # Dir /\ fs[to] # Dir
  <2>1. /\ Exists(from) /\ IsDir(Front(to)) /\ ~IsPrefix(from, to)
        /\ Exists(to) => ~IsDir(from) /\ ~IsDir(to)
    BY DEF RenameError
  <2> QED
    BY <2>1, FileIs DEF Exists, IsDir, Tree
<1>2. from \in Seq(Name) /\ to \in Seq(Name) /\ to # <<>> /\ from # <<>>
      /\ Len(to) \in Nat \ {0}
  BY EmptySeq DEF Path
<1>3. \A q \in DOMAIN fs : q \in Seq(Name) /\ q \in Path /\ q # <<>>
  BY DEF Tree, Path
<1>4. Under(to) \subseteq {to}
  <2>1. CASE to \in DOMAIN fs
    BY <2>1, <1>1, FileUnder
  <2>2. CASE to \notin DOMAIN fs
    BY <2>2, NothingUnder
  <2> QED
    BY <2>1, <2>2
<1>5. ASSUME NEW q \in Under(from)
      PROVE  /\ q \in DOMAIN fs /\ IsPrefix(from, q) /\ q \in Seq(Name)
             /\ IsGraft(Name, from, q, to, suffix(q))
             /\ suffix(q) \in Path /\ IsPrefix(to, suffix(q))
             /\ from \o Rest(to, suffix(q)) = q
  <2>1. q \in DOMAIN fs /\ IsPrefix(from, q)
    BY DEF Under
  <2>2. IsGraft(Name, from, q, to, suffix(q))
    BY <2>1, <1>2, <1>3, Grafted
  <2> HIDE DEF suffix
  <2>3. /\ suffix(q) \in Seq(Name) /\ IsPrefix(to, suffix(q))
        /\ from \o Rest(to, suffix(q)) = q
    BY <2>2 DEF IsGraft
  <2>4. Len(to) <= Len(suffix(q)) /\ Len(<<>>) = 0
    BY <2>3, <1>2, PrefixDef
  <2>5. suffix(q) # <<>>
    BY <2>4, <1>2
  <2> QED
    BY <2>1, <2>2, <2>3, <2>5, <1>3 DEF Path
<1>6. DOMAIN f = kept \cup moved
      /\ (\A q \in kept : f[q] = fs[q])
      /\ \A r \in moved : r \notin kept => f[r] = fs[from \o Rest(to, r)]
  BY DEF Renamed, Kept, Rest, ++
<1> HIDE DEF f, suffix
<1>7. ASSUME NEW q \in Under(from)
      PROVE  f[suffix(q)] = fs[q] /\ suffix(q) \in DOMAIN f
  <2>1. suffix(q) \in moved
    OBVIOUS
  <2>2. suffix(q) \notin kept
    BY <1>5 DEF Kept, Under
  <2> QED
    BY <2>1, <2>2, <1>5, <1>6
<1>8. ASSUME NEW q \in Path, IsPrefix(q, to), q # to
      PROVE  q \in kept /\ fs[q] = Dir
  <2>1. q \in Seq(Name)
    BY <1>8 DEF Path
  <2>2. IsPrefix(q, Front(to)) /\ Front(to) \in Path /\ Front(to) \in Seq(Name)
    BY <2>1, <1>1, <1>2, <1>3, <1>8, FrontIs
  <2>3. q \in DOMAIN fs /\ fs[q] = Dir
    BY <2>2, <1>1, <1>8 DEF Tree
  <2>4. ~IsPrefix(from, q)
    BY <2>1, <1>1, <1>2, <1>8, PrefixTrans
  <2>5. q \notin Under(to)
    BY <1>4, <1>8
  <2> QED
    BY <2>3, <2>4, <2>5 DEF Kept, Under
<1>9. ASSUME NEW p \in DOMAIN f, NEW q \in Path, IsPrefix(q, p), q # p
      PROVE  q \in DOMAIN f /\ f[q] = Dir
  <2>1. CASE p \in kept
    <3>1. p \in DOMAIN fs /\ ~IsPrefix(from, p) /\ p \notin Under(to)
      BY <2>1 DEF Kept, Under
    <3>2. q \in DOMAIN fs /\ fs[q] = Dir /\ q \in Seq(Name)
      BY <3>1, <1>9, <1>3 DEF Tree
    <3>3. ~IsPrefix(from, q)
      BY <3>1, <3>2, <1>2, <1>3, <1>9, PrefixTrans
    <3>4. q \notin Under(to)
      <4>1. SUFFICES ASSUME q = to PROVE FALSE
        BY <1>4
      <4>2. p \in Under(to)
        BY <4>1, <3>1, <1>9 DEF Under
      <4> QED
        BY <4>2, <3>1
    <3>5. q \in kept
      BY <3>2, <3>3, <3>4 DEF Kept, Under
    <3> QED
      BY <3>2, <3>5, <1>6
  <2>2. CASE p \in moved
    <3>1. PICK r \in Under(from) : p = suffix(r)
      BY <2>2
    <3>2. /\ r \in DOMAIN fs /\ IsPrefix(from, r) /\ r \in Seq(Name)
          /\ IsPrefix(to, p) /\ from \o Rest(to, p) = r /\ p \in Seq(Name)
      BY <3>1, <1>5 DEF Path
    <3>3. q \in Seq(Name) /\ Len(q) \in Nat /\ Len(to) \in Nat
      BY <1>2, <1>9, LenProperties DEF Path
    <3>4. CASE IsPrefix(q, to) /\ q # to
      BY <3>4, <1>6, <1>8, <1>9
    <3>5. CASE IsPrefix(to, q)
      <4> DEFINE s == from \o Rest(to, q)
      <4>1. IsGraft(Name, to, q, from, s)
        BY <3>3, <3>5, <1>2, Grafted
      <4>2. s \in Seq(Name) /\ IsPrefix(from, s) /\ to \o Rest(from, s) = q
            /\ Len(s) = Len(from) + (Len(q) - Len(to))
        BY <4>1 DEF IsGraft
      <4>3. IsPrefix(s, r) /\ s # r
        <5>1. /\ IsPrefix(from \o Rest(to, q), from \o Rest(to, p))
              /\ q # p => from \o Rest(to, q) # from \o Rest(to, p)
          BY <3>2, <3>3, <3>5, <1>2, <1>9, GraftedPrefix
        <5> QED
          BY <5>1, <3>2, <1>9
      <4> HIDE DEF s
      <4>4. s # <<>>
        <5>1. Len(from) <= Len(s) /\ Len(from) \in Nat \ {0} /\ Len(<<>>) = 0
          BY <4>2, <1>2, PrefixDef, EmptySeq
        <5> QED
          BY <5>1
      <4>5. s \in DOMAIN fs /\ fs[s] = Dir
        BY <4>2, <4>3, <4>4, <3>2 DEF Tree, Path
      <4>6. s \in Under(from)
        BY <4>2, <4>5 DEF Under
      <4>7. suffix(s) = q
        BY <4>2 DEF suffix
      <4> QED
        BY <4>5, <4>6, <4>7, <1>7
    <3>6. IsPrefix(to, q) \/ (IsPrefix(q, to) /\ q # to)
      <4>1. CASE Len(to) <= Len(q)
        BY <4>1, <3>2, <3>3, <1>2, <1>9, PrefixTree
      <4>2. CASE ~(Len(to) <= Len(q))
        <5>1. Len(q) <= Len(to) /\ q # to
          BY <4>2, <3>3
        <5> QED
          BY <5>1, <3>2, <3>3, <1>2, <1>9, PrefixTree
      <4> QED
        BY <4>1, <4>2
    <3> QED
      BY <3>4, <3>5, <3>6
  <2> QED
    BY <2>1, <2>2, <1>6, <1>9
<1>10. DOMAIN f \subseteq Path
  BY <1>3, <1>5, <1>6 DEF Kept
<1>11. ASSUME NEW p \in DOMAIN f
       PROVE  f[p] = Dir \/ IsPart(f[p])
  <2>1. CASE p \in kept
    BY <2>1, <1>6 DEF Kept, Tree
  <2>2. CASE p \in moved
    BY <2>2, <1>5, <1>7 DEF Tree
  <2> QED
    BY <2>1, <2>2, <1>6, <1>11
<1>12. Tree(f)
  BY <1>9, <1>10, <1>11 DEF Tree
<1>13. ASSUME to \in DOMAIN fs
       PROVE  Under(from) = {from} /\ fs[from] # Dir /\ fs[to] # Dir
              /\ f[to] = fs[from] /\ to \in DOMAIN f
  <2>1. Under(from) = {from} /\ fs[from] # Dir /\ fs[to] # Dir
    BY <1>1, <1>13, FileUnder
  <2>2. suffix(from) = to
    <3>1. /\ Rest(from, from) \in Seq(Name) /\ Len(Rest(from, from)) = 0
      <4>1. IsRest(Name, from, from, Rest(from, from))
        BY <1>2, PrefixSelf, RestIs
      <4> QED
        BY <4>1, <1>2, LenProperties DEF IsRest
    <3>2. Rest(from, from) = <<>>
      BY <3>1, EmptySeq
    <3> QED
      BY <3>2, <1>2, ConcatEmptySeq DEF suffix
  <2> QED
    BY <2>1, <2>2, <1>7
<1> QED
  <2>1. \A q \in Under(from) : f[to \o Rest(from, q)] = fs[q]
    BY <1>7 DEF suffix
  <2>2. DOMAIN f = kept \cup {to \o Rest(from, q) : q \in Under(from)}
    BY <1>6 DEF suffix
  <2> QED
    BY <2>1, <2>2, <1>4, <1>6, <1>12, <1>13 DEF RenameMoves, f

-----------------------------------------------------------------------------
(***************************************************************************)
(* The inductive invariant: the devices hold a tree, and each thread is at *)
(* a place of its walk that fits its job.                                   *)
(***************************************************************************)
Fields == {"pc", "job", "items", "item", "stack", "from", "to", "data", "block", "ret",
           "removing", "failed", "was", "alone", "plain"}

Pasting == {"enter", "entries", "file", "ask", "move", "copy", "block", "test", "unlink"}
Removing == {"rm", "rmloop", "rmtest"}
Pcs == {"idle", "items", "done"} \cup Pasting \cup Removing
InDirectory == {"entries", "rmloop", "rmtest"}
AtPath == {"rm"} \cup (Pasting \ {"entries"})

EntryRecord == [path : Path, isDir : BOOLEAN, size : Nat]
Inside(job, p) == \E i \in job.items : IsPrefix(i, p)

(* A directory that a walk is in: under an item, as are the entries to do. *)
Levels(job) ==
  {l \in [src : Path, dest : Seq(Name), todo : SUBSET EntryRecord] :
     Inside(job, l.src) /\ \A e \in l.todo : Front(e.path) = l.src}

(* What a thread record holds. *)
Shape(r) ==
  /\ r = [f \in Fields |-> r[f]]
  /\ r.pc \in Pcs /\ r.ret \in {-1, 0, 1} /\ r.block \in Nat
  /\ r.alone \in BOOLEAN /\ r.plain \in BOOLEAN /\ r.failed \in BOOLEAN
  /\ r.from \in Seq(Name) /\ r.to \in Seq(Name)

(* The job and what is left of it. *)
Errand(t, r) ==
  /\ r.job.kind \in {"none", "move", "copy", "remove"}
  /\ r.job.items \subseteq Path /\ r.job.dest \in Seq(Name)
  /\ r.items \subseteq r.job.items
  /\ Tree(r.was)
  /\ t \in Worker => r.job.items \subseteq DOMAIN r.was
  /\ r.pc # "idle" => r.job.kind # "none"
  /\ r.pc \notin {"idle", "items"} => r.item.path \in r.job.items

(* Where the thread is. *)
Place(t, r) ==
  /\ r.pc \in AtPath => r.from \in Path /\ Inside(r.job, r.from)
  /\ r.pc \in Pasting \ {"entries"} => r.to \in Path
  /\ r.pc \in Pasting => r.job.kind \in {"move", "copy"}
  /\ r.pc \in {"move", "unlink"} => r.job.kind = "move"
  /\ r.pc \in Removing => r.job.kind # "copy" /\ (t \in Worker => r.job.kind = "remove")
  /\ r.pc \in {"file", "ask"} => t \in Worker
  /\ r.pc = "ask" => r.job.overwrite = "PROMPT"
  /\ r.pc \in {"block", "test"} => r.data \in Data /\ r.block \in 0..Size[r.data]

Walk(r) ==
  /\ r.stack \in Seq(Levels(r.job))
  /\ r.pc \in InDirectory => r.stack # <<>>

ThreadOK(t, r) == Shape(r) /\ Errand(t, r) /\ Place(t, r) /\ Walk(r)

ThreadsOK ==
  /\ thread = [t \in Threads |-> thread[t]]
  /\ \A t \in Threads : ThreadOK(t, thread[t])

Inv ==
  /\ Tree(fs)
  /\ bytes_transfered \in Nat /\ bytes_to_download \in Nat
  /\ stop_activity \in BOOLEAN /\ activity_inprogess \in BOOLEAN
  /\ jobs \in [Threads -> SUBSET JobRecord]
  /\ ThreadsOK
  /\ forfeit \subseteq Data

-----------------------------------------------------------------------------
(***************************************************************************)
(* Steps of one thread, as changes of its record.                          *)
(***************************************************************************)
LEMMA Merged ==
  ASSUME NEW g, g = [f \in Fields |-> g[f]], NEW r, DOMAIN r \subseteq Fields
  PROVE  /\ r ++ g = [f \in Fields |-> (r ++ g)[f]]
         /\ \A f \in Fields : (r ++ g)[f] = IF f \in DOMAIN r THEN r[f] ELSE g[f]
<1>1. DOMAIN g = Fields
  OBVIOUS
<1>2. DOMAIN r \cup DOMAIN g = Fields
  BY <1>1
<1> QED
  BY <1>2 DEF ++

LEMMA SetMoves ==
  ASSUME ThreadsOK, NEW t \in Threads, NEW r, Set(t, r), ThreadOK(t, r ++ thread[t])
  PROVE  ThreadsOK'
<1>1. thread' = [u \in Threads |-> IF u = t THEN r ++ thread[t]
                                  ELSE [thread[u] EXCEPT !.alone = FALSE]]
  BY DEF Set
<1>2. ASSUME NEW u \in Threads, u # t
      PROVE  ThreadOK(u, [thread[u] EXCEPT !.alone = FALSE])
  <2> DEFINE g == thread[u]
             n == [g EXCEPT !.alone = FALSE]
  <2>1. ThreadOK(u, g)
    BY DEF ThreadsOK
  <2> HIDE DEF g
  <2>2. /\ n = [f \in Fields |-> n[f]]
        /\ n.pc = g.pc /\ n.job = g.job /\ n.items = g.items /\ n.item = g.item
        /\ n.stack = g.stack /\ n.from = g.from /\ n.to = g.to /\ n.data = g.data
        /\ n.block = g.block /\ n.ret = g.ret /\ n.failed = g.failed
        /\ n.was = g.was /\ n.plain = g.plain /\ n.alone = FALSE
    BY <2>1 DEF ThreadOK, Shape, Fields
  <2> HIDE DEF n
  <2>3. Shape(n)
    BY <2>1, <2>2 DEF ThreadOK, Shape
  <2>4. Errand(u, n)
    BY <2>1, <2>2 DEF ThreadOK, Errand
  <2>5. Place(u, n)
    BY <2>1, <2>2 DEF ThreadOK, Place
  <2>6. Walk(n)
    BY <2>1, <2>2 DEF ThreadOK, Walk
  <2> QED
    BY <2>3, <2>4, <2>5, <2>6 DEF ThreadOK, n, g
<1> QED
  BY <1>1, <1>2 DEF ThreadsOK

(* A step that keeps the job, and what is left of it. *)
Going(n, g) ==
  /\ n = [f \in Fields |-> n[f]]
  /\ n.job = g.job /\ n.items = g.items /\ n.was = g.was /\ n.item = g.item
  /\ n.alone = g.alone /\ n.failed = g.failed /\ n.plain \in BOOLEAN

LEMMA GoingErrand ==
  ASSUME NEW t, NEW g, ThreadOK(t, g), NEW n, Going(n, g), g.pc \notin {"idle", "items"}
  PROVE  Errand(t, n)
BY DEF ThreadOK, Errand, Going

(* A thread returns to the directory it is in, or is done. *)
Resumes(n, g, pcs) ==
  /\ Going(n, g)
  /\ n.from = g.from /\ n.to = g.to /\ n.data = g.data /\ n.block = g.block
  /\ n.ret \in {-1, 0, 1}
  /\ \/ n.pc = "done" /\ n.stack \in {<<>>, g.stack}
     \/ n.pc \in pcs /\ n.stack \in Seq(Levels(g.job)) \ {<<>>}

LEMMA ResumesOK ==
  ASSUME NEW t, NEW g, ThreadOK(t, g), NEW n,
         \/ Resumes(n, g, {"entries"}) /\ g.pc \in Pasting
         \/ Resumes(n, g, {"rmtest", "rmloop"}) /\ g.pc \in Removing
  PROVE  ThreadOK(t, n)
<1>1. g.pc \notin {"idle", "items"}
  BY DEF Pasting, Removing
<1>2. Going(n, g) /\ n.pc \in {"done", "entries", "rmtest", "rmloop"}
  BY DEF Resumes
<1>3. Shape(n)
  BY <1>2 DEF ThreadOK, Shape, Resumes, Going, Pcs, Pasting, Removing
<1>4. Errand(t, n)
  BY <1>1, <1>2, GoingErrand
<1>5. Place(t, n)
  BY <1>2 DEF ThreadOK, Place, Resumes, Going, Pasting, Removing, AtPath
<1>6. Walk(n)
  BY <1>2, EmptySeq DEF ThreadOK, Walk, Resumes, Going, InDirectory
<1> QED
  BY <1>3, <1>4, <1>5, <1>6 DEF ThreadOK

LEMMA OddIs ==
  ASSUME NEW g, g = [f \in Fields |-> g[f]], NEW r, DOMAIN r \subseteq Fields \ {"plain"}
  PROVE  /\ DOMAIN (r ++ Odd) \subseteq Fields
         /\ \A f \in Fields \ {"plain"} : ((r ++ Odd) ++ g)[f] = (r ++ g)[f]
         /\ ((r ++ Odd) ++ g).plain = FALSE
         /\ (r ++ Odd) ++ g = [f \in Fields |-> ((r ++ Odd) ++ g)[f]]
<1>1. DOMAIN Odd = {"plain"} /\ Odd["plain"] = FALSE /\ "plain" \in Fields
  BY DEF Odd, Fields
<1> DEFINE o == r ++ Odd
<1>2. /\ DOMAIN o = DOMAIN r \cup {"plain"}
      /\ \A f \in DOMAIN r : o[f] = r[f]
      /\ o["plain"] = FALSE
  BY <1>1 DEF ++
<1> HIDE DEF o
<1>3. DOMAIN o \subseteq Fields
  BY <1>1, <1>2
<1>4. /\ o ++ g = [f \in Fields |-> (o ++ g)[f]]
      /\ \A f \in Fields : (o ++ g)[f] = IF f \in DOMAIN o THEN o[f] ELSE g[f]
  BY <1>3, Merged
<1>5. \A f \in Fields : (r ++ g)[f] = IF f \in DOMAIN r THEN r[f] ELSE g[f]
  BY Merged
<1> QED
  BY <1>1, <1>2, <1>3, <1>4, <1>5 DEF o

(* So it is whether or not the step counts as odd. *)
ResumesBy(r, g, pcs) ==
  /\ DOMAIN r \subseteq Fields /\ Resumes(r ++ g, g, pcs)
  /\ DOMAIN (r ++ Odd) \subseteq Fields /\ Resumes((r ++ Odd) ++ g, g, pcs)

LEMMA ResumesByIs ==
  ASSUME NEW t, NEW g, ThreadOK(t, g), NEW r, NEW pcs,
         DOMAIN r \subseteq {"pc", "stack", "ret"},
         "pc" \in DOMAIN r,
         "ret" \in DOMAIN r => r["ret"] \in {-1, 0, 1},
         \/ r["pc"] = "done" /\ ("stack" \in DOMAIN r => r["stack"] = <<>>)
         \/ r["pc"] \in pcs
            /\ (IF "stack" \in DOMAIN r THEN r["stack"] ELSE g.stack)
                 \in Seq(Levels(g.job)) \ {<<>>}
  PROVE  ResumesBy(r, g, pcs)
<1>1. g = [f \in Fields |-> g[f]] /\ g.plain \in BOOLEAN /\ g.ret \in {-1, 0, 1}
  BY DEF ThreadOK, Shape
<1>2. DOMAIN r \subseteq Fields /\ DOMAIN r \subseteq Fields \ {"plain"}
  BY DEF Fields
<1> DEFINE n == r ++ g
           m == (r ++ Odd) ++ g
<1>3. /\ n = [f \in Fields |-> n[f]]
      /\ \A f \in Fields : n[f] = IF f \in DOMAIN r THEN r[f] ELSE g[f]
  BY <1>1, <1>2, Merged
<1>4. /\ m = [f \in Fields |-> m[f]] /\ DOMAIN (r ++ Odd) \subseteq Fields
      /\ \A f \in Fields \ {"plain"} : m[f] = n[f]
      /\ m.plain = FALSE
  BY <1>1, <1>2, OddIs
<1> HIDE DEF n, m
<1>5. /\ n.job = g.job /\ n.items = g.items /\ n.was = g.was /\ n.item = g.item
      /\ n.alone = g.alone /\ n.failed = g.failed /\ n.plain = g.plain
      /\ n.from = g.from /\ n.to = g.to /\ n.data = g.data /\ n.block = g.block
      /\ n.pc = r["pc"]
      /\ n.ret = IF "ret" \in DOMAIN r THEN r["ret"] ELSE g.ret
      /\ n.stack = IF "stack" \in DOMAIN r THEN r["stack"] ELSE g.stack
  BY <1>3 DEF Fields
<1>6. /\ m.job = n.job /\ m.items = n.items /\ m.was = n.was /\ m.item = n.item
      /\ m.alone = n.alone /\ m.failed = n.failed /\ m.plain = FALSE
      /\ m.from = n.from /\ m.to = n.to /\ m.data = n.data /\ m.block = n.block
      /\ m.pc = n.pc /\ m.ret = n.ret /\ m.stack = n.stack
  BY <1>4 DEF Fields
<1>7. Resumes(n, g, pcs)
  <2>1. Going(n, g) /\ n.ret \in {-1, 0, 1}
    BY <1>1, <1>3, <1>5 DEF Going
  <2>2. \/ n.pc = "done" /\ n.stack \in {<<>>, g.stack}
        \/ n.pc \in pcs /\ n.stack \in Seq(Levels(g.job)) \ {<<>>}
    BY <1>5
  <2> QED
    BY <1>5, <2>1, <2>2 DEF Resumes
<1>8. Resumes(m, g, pcs)
  <2>1. Going(m, g)
    BY <1>4, <1>6, <1>7 DEF Going, Resumes
  <2> QED
    BY <1>6, <1>7, <2>1 DEF Resumes
<1> QED
  BY <1>2, <1>4, <1>7, <1>8 DEF ResumesBy, n, m

LEMMA ReturnResumes ==
  ASSUME NEW t, ThreadOK(t, thread[t]), NEW ret \in {-1, 0, 1}
  PROVE  ResumesBy(Return(t, ret), thread[t], {"entries"})
<1> DEFINE r == Return(t, ret)
<1>1. CASE ret = 1 /\ thread[t].stack # <<>>
  <2>1. r = [pc |-> "entries"]
    BY <1>1 DEF Return
  <2> HIDE DEF r
  <2>2. DOMAIN r = {"pc"} /\ r["pc"] = "entries"
    BY <2>1
  <2>3. thread[t].stack \in Seq(Levels(thread[t].job)) \ {<<>>}
    BY <1>1 DEF ThreadOK, Walk
  <2> QED
    BY <2>2, <2>3, ResumesByIs DEF r
<1>2. CASE ~(ret = 1 /\ thread[t].stack # <<>>)
  <2>1. r = [pc |-> "done", stack |-> <<>>, ret |-> ret]
    BY <1>2 DEF Return
  <2> HIDE DEF r
  <2>2. DOMAIN r = {"pc", "stack", "ret"} /\ r["pc"] = "done" /\ r["stack"] = <<>>
        /\ r["ret"] = ret
    BY <2>1
  <2> QED
    BY <2>2, ResumesByIs DEF r
<1> QED
  BY <1>1, <1>2

LEMMA RmReturnResumes ==
  ASSUME NEW t, ThreadOK(t, thread[t]), NEW ret \in {-1, 0, 1}
  PROVE  ResumesBy(RmReturn(t, ret), thread[t], {"rmtest", "rmloop"})
<1> DEFINE r == RmReturn(t, ret)
<1>1. CASE thread[t].stack = <<>>
  <2>1. r = [pc |-> "done", ret |-> ret]
    BY <1>1 DEF RmReturn
  <2> HIDE DEF r
  <2>2. DOMAIN r = {"pc", "ret"} /\ r["pc"] = "done" /\ r["ret"] = ret
    BY <2>1
  <2> QED
    BY <2>2, ResumesByIs DEF r
<1>2. CASE thread[t].stack # <<>> /\ ret = 1
  <2>1. r = [pc |-> "rmtest"]
    BY <1>2 DEF RmReturn
  <2> HIDE DEF r
  <2>2. DOMAIN r = {"pc"} /\ r["pc"] = "rmtest"
    BY <2>1
  <2>3. thread[t].stack \in Seq(Levels(thread[t].job)) \ {<<>>}
    BY <1>2 DEF ThreadOK, Walk
  <2> QED
    BY <2>2, <2>3, ResumesByIs DEF r
<1>3. CASE thread[t].stack # <<>> /\ ret # 1
  <2>1. r = [pc |-> "done", stack |-> <<>>, ret |-> ret]
    BY <1>3 DEF RmReturn
  <2> HIDE DEF r
  <2>2. DOMAIN r = {"pc", "stack", "ret"} /\ r["pc"] = "done" /\ r["stack"] = <<>>
        /\ r["ret"] = ret
    BY <2>1
  <2> QED
    BY <2>2, ResumesByIs DEF r
<1> QED
  BY <1>1, <1>2, <1>3

LEMMA LeaveResumes ==
  ASSUME NEW t, ThreadOK(t, thread[t]), thread[t].stack # <<>>
  PROVE  /\ ResumesBy(Leave(t), thread[t], {"entries"})
         /\ ResumesBy(RmLeave(t), thread[t], {"rmtest", "rmloop"})
<1> DEFINE above == Front(thread[t].stack)
           r == Leave(t)
           s == RmLeave(t)
<1>1. above \in Seq(Levels(thread[t].job))
  BY FrontIs DEF ThreadOK, Walk
<1>2. CASE above = <<>>
  <2>1. r = [pc |-> "done", stack |-> <<>>, ret |-> 1] /\ s = r
    BY <1>2 DEF Leave, RmLeave
  <2> HIDE DEF r, s
  <2>2. DOMAIN r = {"pc", "stack", "ret"} /\ r["pc"] = "done" /\ r["stack"] = <<>>
        /\ r["ret"] = 1
    BY <2>1
  <2>3. ResumesBy(r, thread[t], {"entries"})
    BY <2>2, ResumesByIs
  <2>4. ResumesBy(s, thread[t], {"rmtest", "rmloop"})
    BY <2>1, <2>2, ResumesByIs
  <2> QED
    BY <2>3, <2>4 DEF r, s
<1>3. CASE above # <<>>
  <2>1. r = [pc |-> "entries", stack |-> above] /\ s = [pc |-> "rmtest", stack |-> above]
    BY <1>3 DEF Leave, RmLeave
  <2> HIDE DEF r, s, above
  <2>2. DOMAIN r = {"pc", "stack"} /\ r["pc"] = "entries" /\ r["stack"] = above
        /\ DOMAIN s = {"pc", "stack"} /\ s["pc"] = "rmtest" /\ s["stack"] = above
    BY <2>1
  <2>3. ResumesBy(r, thread[t], {"entries"})
    BY <2>2, <1>1, <1>3, ResumesByIs
  <2>4. ResumesBy(s, thread[t], {"rmtest", "rmloop"})
    BY <2>2, <1>1, <1>3, ResumesByIs
  <2> QED
    BY <2>3, <2>4 DEF r, s
<1> QED
  BY <1>2, <1>3

LEMMA ResumesKeep ==
  ASSUME ThreadsOK, NEW t \in Threads, NEW r, NEW pcs, ResumesBy(r, thread[t], pcs),
         \/ pcs = {"entries"} /\ thread[t].pc \in Pasting
         \/ pcs = {"rmtest", "rmloop"} /\ thread[t].pc \in Removing,
         Set(t, r) \/ Set(t, r ++ Odd)
  PROVE  ThreadsOK'
<1>1. ThreadOK(t, thread[t])
  BY DEF ThreadsOK
<1>2. ThreadOK(t, r ++ thread[t]) /\ ThreadOK(t, (r ++ Odd) ++ thread[t])
  BY <1>1, ResumesOK DEF ResumesBy
<1> QED
  BY <1>2, SetMoves

(* The changes that r makes to g, among those that keep the job. *)
Steps == {"pc", "stack", "from", "to", "data", "block", "ret"}
Takes(n, r, g) ==
  /\ Going(n, g)
  /\ \A f \in Steps : n[f] = IF f \in DOMAIN r THEN r[f] ELSE g[f]

LEMMA TakesBy ==
  ASSUME NEW t, NEW g, ThreadOK(t, g), NEW r, DOMAIN r \subseteq Steps \cup {"removing"}
  PROVE  Takes(r ++ g, r, g) /\ Takes((r ++ Odd) ++ g, r, g)
<1>1. g = [f \in Fields |-> g[f]] /\ g.plain \in BOOLEAN
  BY DEF ThreadOK, Shape
<1>2. DOMAIN r \subseteq Fields /\ DOMAIN r \subseteq Fields \ {"plain"}
  BY DEF Fields, Steps
<1> DEFINE n == r ++ g
           m == (r ++ Odd) ++ g
<1>3. /\ n = [f \in Fields |-> n[f]]
      /\ \A f \in Fields : n[f] = IF f \in DOMAIN r THEN r[f] ELSE g[f]
  BY <1>1, <1>2, Merged
<1>4. /\ m = [f \in Fields |-> m[f]]
      /\ \A f \in Fields \ {"plain"} : m[f] = n[f]
      /\ m.plain = FALSE
  BY <1>1, <1>2, OddIs
<1> HIDE DEF n, m
<1>5. \A f \in Steps : f \in Fields /\ f \in Fields \ {"plain"}
  BY DEF Fields, Steps
<1>6. Going(n, g)
  <2>1. /\ n.job = g.job /\ n.items = g.items /\ n.was = g.was /\ n.item = g.item
        /\ n.alone = g.alone /\ n.failed = g.failed /\ n.plain = g.plain
    BY <1>2, <1>3 DEF Fields, Steps
  <2> QED
    BY <2>1, <1>1, <1>3 DEF Going
<1>7. Going(m, g)
  <2>1. /\ m.job = n.job /\ m.items = n.items /\ m.was = n.was /\ m.item = n.item
        /\ m.alone = n.alone /\ m.failed = n.failed
    BY <1>4 DEF Fields
  <2> QED
    BY <2>1, <1>4, <1>6 DEF Going
<1> QED
  BY <1>3, <1>4, <1>5, <1>6, <1>7 DEF Takes, n, m

LEMMA TakesKeep ==
  ASSUME ThreadsOK, NEW t \in Threads, NEW r, DOMAIN r \subseteq Steps \cup {"removing"},
         \A n : Takes(n, r, thread[t]) => ThreadOK(t, n),
         Set(t, r) \/ Set(t, r ++ Odd)
  PROVE  ThreadsOK'
<1>1. ThreadOK(t, thread[t])
  BY DEF ThreadsOK
<1>2. ThreadOK(t, r ++ thread[t]) /\ ThreadOK(t, (r ++ Odd) ++ thread[t])
  BY <1>1, TakesBy
<1> QED
  BY <1>2, SetMoves

(* The four parts, for a thread at its work. *)
LEMMA TakesOK ==
  ASSUME NEW t, NEW g, ThreadOK(t, g), g.pc \notin {"idle", "items"},
         NEW r, NEW n, Takes(n, r, g),
         n.pc \in Pcs, n.ret \in {-1, 0, 1}, n.block \in Nat,
         n.from \in Seq(Name), n.to \in Seq(Name),
         Place(t, n), Walk(n)
  PROVE  ThreadOK(t, n)
<1>1. Going(n, g)
  BY DEF Takes
<1>2. Errand(t, n)
  BY <1>1, GoingErrand
<1>3. Shape(n)
  BY <1>1 DEF Shape, Going, ThreadOK
<1> QED
  BY <1>2, <1>3 DEF ThreadOK

-----------------------------------------------------------------------------
(***************************************************************************)
(* The directories a walk is in.                                           *)
(***************************************************************************)
LEMMA TopIs ==
  ASSUME NEW t, ThreadOK(t, thread[t]), thread[t].stack # <<>>
  PROVE  /\ Top(t) \in Levels(thread[t].job)
         /\ Front(thread[t].stack) \in Seq(Levels(thread[t].job))
BY LastIs, FrontIs DEF ThreadOK, Walk, Top

LEMMA EntryInside ==
  ASSUME NEW job, job.items \subseteq Path, NEW l \in Levels(job), NEW e \in l.todo
  PROVE  /\ e.path \in Path /\ Inside(job, e.path) /\ e.size \in Nat
         /\ Into(l.dest, e.path) \in Path
<1>1. l.src \in Path /\ l.dest \in Seq(Name) /\ Inside(job, l.src)
      /\ e.path \in Path /\ e.size \in Nat /\ Front(e.path) = l.src
  BY DEF Levels, EntryRecord
<1>2. IsPrefix(l.src, e.path)
  BY <1>1, FrontIs DEF Path
<1>3. PICK i \in job.items : IsPrefix(i, l.src)
  BY <1>1 DEF Inside
<1>4. IsPrefix(i, e.path)
  BY <1>1, <1>2, <1>3, PrefixTrans DEF Path
<1> QED
  BY <1>1, <1>4, IntoIs DEF Inside

LEMMA LevelIs ==
  ASSUME Tree(fs), NEW job, NEW p \in Path, Inside(job, p), NEW d \in Seq(Name),
         NEW todo, todo \subseteq Entries(p)
  PROVE  [src |-> p, dest |-> d, todo |-> todo] \in Levels(job)
<1>1. ASSUME NEW q \in Children(p)
      PROVE  Entry(q) \in EntryRecord /\ Front(Entry(q).path) = p
  <2>1. q \in DOMAIN fs /\ q \in Path /\ IsPrefix(p, q) /\ Len(q) = Len(p) + 1
    BY DEF Children, Under, Tree
  <2>2. q \in Seq(Name) /\ p \in Seq(Name) /\ Len(p) \in Nat
    BY <2>1, LenProperties DEF Path
  <2>3. Len(q) - 1 = Len(p)
    BY <2>1, <2>2
  <2>4. Front(q) = p
    <3>1. Front(q) = SubSeq(q, 1, Len(p))
      BY <2>3 DEF Front
    <3>2. SubSeq(p, 1, Len(p)) = p
      BY <2>2, SubSeqFull
    <3> QED
      BY <3>1, <3>2, <2>1 DEF IsPrefix
  <2>5. Blocks(q) \in Nat
    BY <2>1, FileIs DEF Blocks, FileExists, Exists, Tree
  <2>6. IsDir(q) \in BOOLEAN
    BY DEF IsDir
  <2> QED
    BY <2>1, <2>4, <2>5, <2>6 DEF Entry, EntryRecord
<1>2. \A e \in todo : e \in EntryRecord /\ Front(e.path) = p
  BY <1>1 DEF Entries
<1> QED
  BY <1>2 DEF Levels

LEMMA Pushed ==
  ASSUME NEW job, NEW s \in Seq(Levels(job)), NEW l \in Levels(job)
  PROVE  Append(s, l) \in Seq(Levels(job)) \ {<<>>}
BY AppendProperties

(* An entry is taken up. *)
LEMMA TopTaken ==
  ASSUME NEW t, ThreadOK(t, thread[t]), thread[t].stack # <<>>, NEW e \in Top(t).todo
  PROVE  Front(thread[t].stack) \o <<[Top(t) EXCEPT !.todo = @ \ {e}]>>
           \in Seq(Levels(thread[t].job)) \ {<<>>}
<1> DEFINE L == Levels(thread[t].job)
           l == [Top(t) EXCEPT !.todo = @ \ {e}]
           above == Front(thread[t].stack)
<1>1. Top(t) \in L /\ above \in Seq(L)
  BY TopIs
<1>2. l \in L
  BY <1>1 DEF Levels
<1> HIDE DEF L, l, above
<1>3. Append(above, l) \in Seq(L) /\ Append(above, l) # <<>>
      /\ Append(above, l) = above \o <<l>>
  BY <1>1, <1>2, AppendProperties, AppendIsConcat
<1> QED
  BY <1>3 DEF L, l, above

-----------------------------------------------------------------------------
(***************************************************************************)
(* Every step keeps every thread at a place that fits its job.             *)
(***************************************************************************)
LEMMA Here ==
  ASSUME ThreadsOK, NEW t \in Threads
  PROVE  /\ ThreadOK(t, thread[t]) /\ Shape(thread[t]) /\ Errand(t, thread[t])
         /\ Place(t, thread[t]) /\ Walk(thread[t])
BY DEF ThreadsOK, ThreadOK

LEMMA ThreadsReturn ==
  ASSUME Inv, NEW t \in Threads,
         EnterStopped(t) \/ EnterRefused(t) \/ MoveRenamed(t) \/ MoveRefused(t)
           \/ CopyNothing(t) \/ CopyUnmade(t) \/ Unlink(t)
  PROVE  ThreadsOK'
<1>1. ThreadsOK /\ ThreadOK(t, thread[t])
  BY Here DEF Inv
<1>2. thread[t].pc \in Pasting
  BY DEF EnterStopped, EnterRefused, MoveRenamed, MoveRefused, CopyNothing, CopyUnmade, Unlink,
         At, Pasting
<1>3. \E ret \in {-1, 0, 1} : Set(t, Return(t, ret)) \/ Set(t, Return(t, ret) ++ Odd)
  <2>1. CASE EnterStopped(t)
    BY <2>1 DEF EnterStopped
  <2>2. CASE EnterRefused(t)
    BY <2>2 DEF EnterRefused
  <2>3. CASE MoveRenamed(t)
    BY <2>3 DEF MoveRenamed
  <2>4. CASE MoveRefused(t)
    BY <2>4 DEF MoveRefused
  <2>5. CASE CopyNothing(t)
    BY <2>5 DEF CopyNothing
  <2>6. CASE Unlink(t)
    BY <2>6 DEF Unlink
  <2>7. CASE CopyUnmade(t)
    BY <2>7 DEF CopyUnmade
  <2> QED
    BY <2>1, <2>2, <2>3, <2>4, <2>5, <2>6, <2>7
<1>4. PICK ret \in {-1, 0, 1} : Set(t, Return(t, ret)) \/ Set(t, Return(t, ret) ++ Odd)
  BY <1>3
<1>5. ResumesBy(Return(t, ret), thread[t], {"entries"})
  BY <1>1, ReturnResumes
<1> QED
  BY <1>1, <1>2, <1>4, <1>5, ResumesKeep

LEMMA ThreadsLeave ==
  ASSUME Inv, NEW t \in Threads, EntriesStopped(t) \/ EntriesDone(t)
  PROVE  ThreadsOK'
<1>1. ThreadsOK /\ ThreadOK(t, thread[t])
  BY Here DEF Inv
<1>2. thread[t].pc = "entries" /\ (Set(t, Leave(t)) \/ Set(t, Leave(t) ++ Odd))
  BY DEF EntriesStopped, EntriesDone, At
<1>3. thread[t].stack # <<>> /\ thread[t].pc \in Pasting
  BY <1>1, <1>2 DEF ThreadOK, Walk, InDirectory, Pasting
<1>4. ResumesBy(Leave(t), thread[t], {"entries"})
  BY <1>1, <1>3, LeaveResumes
<1> QED
  BY <1>1, <1>2, <1>3, <1>4, ResumesKeep

LEMMA ThreadsEnter ==
  ASSUME Inv, NEW t \in Threads, EnterListed(t) \/ EnterUnmade(t)
  PROVE  ThreadsOK'
<1> DEFINE g == thread[t]
           pushed(todo) == Append(g.stack, [src |-> g.from, dest |-> g.to, todo |-> todo])
           r(todo) == [pc |-> "entries", stack |-> pushed(todo)]
<1>1. ThreadsOK /\ ThreadOK(t, g) /\ Tree(fs) /\ g.pc = "enter"
  BY Here DEF Inv, EnterListed, EnterUnmade, At
<1>2. /\ g.from \in Path /\ Inside(g.job, g.from) /\ g.to \in Seq(Name)
      /\ g.stack \in Seq(Levels(g.job)) /\ g.pc \in Pasting
  BY <1>1 DEF ThreadOK, Place, Shape, Walk, AtPath, Pasting
<1>3. ASSUME NEW todo, todo \subseteq Entries(g.from)
      PROVE  ResumesBy(r(todo), g, {"entries"})
  <2>1. pushed(todo) \in Seq(Levels(g.job)) \ {<<>>}
    BY <1>1, <1>2, <1>3, LevelIs, Pushed
  <2> DEFINE s == pushed(todo)
             q == [pc |-> "entries", stack |-> s]
  <2> HIDE DEF s
  <2>2. DOMAIN q = {"pc", "stack"} /\ q["pc"] = "entries" /\ q["stack"] = s
    OBVIOUS
  <2> HIDE DEF q
  <2>3. ResumesBy(q, g, {"entries"})
    BY <1>1, <2>1, <2>2, ResumesByIs DEF s
  <2> QED
    BY <2>3 DEF q, s
<1>4. PICK todo : todo \subseteq Entries(g.from)
                  /\ (Set(t, r(todo)) \/ Set(t, r(todo) ++ Odd))
  <2> DEFINE renamed == Renames(t) /\ RenameError(g.from, g.to) = "none"
             listed == IF renamed THEN {} ELSE Entries(g.from)
  <2>1. \/ Set(t, r(listed)) \/ Set(t, r({}) ++ Odd)
        \/ Set(t, r(Entries(g.from)) ++ Odd)
    <3>1. CASE EnterListed(t)
      BY <3>1 DEF EnterListed
    <3>2. CASE EnterUnmade(t)
      BY <3>2 DEF EnterUnmade
    <3> QED
      BY <3>1, <3>2
  <2>2. {} \subseteq Entries(g.from) /\ listed \subseteq Entries(g.from)
    OBVIOUS
  <2> HIDE DEF r, listed
  <2> QED
    BY <2>1, <2>2
<1> HIDE DEF r
<1> QED
  BY <1>1, <1>2, <1>3, <1>4, ResumesKeep

LEMMA ThreadsNextEntry ==
  ASSUME Inv, NEW t \in Threads, NextEntry(t)
  PROVE  ThreadsOK'
<1> DEFINE g == thread[t]
<1>1. ThreadsOK /\ ThreadOK(t, g) /\ g.pc = "entries"
  BY Here DEF Inv, NextEntry, At
<1>2. g.stack # <<>> /\ g.job.kind \in {"move", "copy"} /\ g.job.items \subseteq Path
  BY <1>1 DEF ThreadOK, Walk, Place, Errand, InDirectory, Pasting
<1> DEFINE pc(e) == IF e.isDir THEN "enter" ELSE IF t \in Worker THEN "file" ELSE g.job.kind
           left(e) == Front(g.stack) \o <<[Top(t) EXCEPT !.todo = @ \ {e}]>>
           dest(e) == Into(Top(t).dest, e.path)
<1>3. PICK e \in Top(t).todo :
        Set(t, [pc |-> pc(e), from |-> e.path, to |-> dest(e), stack |-> left(e)])
  BY DEF NextEntry, Kind
<1> DEFINE r == [pc |-> pc(e), from |-> e.path, to |-> dest(e), stack |-> left(e)]
<1>4. left(e) \in Seq(Levels(g.job)) \ {<<>>}
  BY <1>1, <1>2, TopTaken
<1>5. e.path \in Path /\ Inside(g.job, e.path) /\ dest(e) \in Path
  BY <1>1, <1>2, TopIs, EntryInside
<1>6. /\ pc(e) \in {"enter", "file", "move", "copy"}
      /\ pc(e) \in {"move", "copy"} => pc(e) = g.job.kind
      /\ pc(e) = "file" => t \in Worker
  BY <1>2
<1> HIDE DEF pc, left, dest
<1>7. DOMAIN r = {"pc", "from", "to", "stack"} /\ r["pc"] = pc(e) /\ r["from"] = e.path
      /\ r["to"] = dest(e) /\ r["stack"] = left(e)
  OBVIOUS
<1>8. Set(t, r)
  BY <1>3
<1> HIDE DEF r
<1>9. ASSUME NEW n, Takes(n, r, g)
      PROVE  ThreadOK(t, n)
  <2>1. /\ n.pc = pc(e) /\ n.from = e.path /\ n.to = dest(e) /\ n.stack = left(e)
        /\ n.job = g.job /\ n.block = g.block /\ n.ret = g.ret /\ n.data = g.data
    BY <1>7, <1>9 DEF Takes, Steps, Going
  <2>2. Walk(n)
    BY <2>1, <1>4 DEF Walk
  <2>3. Place(t, n)
    BY <2>1, <1>2, <1>5, <1>6 DEF Place, AtPath, Pasting, Removing
  <2>4. /\ n.pc \in Pcs /\ n.ret \in {-1, 0, 1} /\ n.block \in Nat
        /\ n.from \in Seq(Name) /\ n.to \in Seq(Name)
    BY <2>1, <1>1, <1>5, <1>6 DEF Pcs, Pasting, ThreadOK, Shape, Path
  <2> QED
    BY <1>1, <1>9, <2>2, <2>3, <2>4, TakesOK
<1>10. DOMAIN r \subseteq Steps \cup {"removing"}
  BY <1>7 DEF Steps
<1> QED
  BY <1>1, <1>8, <1>9, <1>10, TakesKeep

(* The thread goes on with the same file. *)
LEMMA GoesOn ==
  ASSUME ThreadsOK, NEW t \in Threads, thread[t].pc \in Pasting \ {"entries"},
         NEW pc \in {"ask", "move", "copy", "block", "test", "unlink"},
         pc \in {"move", "unlink"} => thread[t].job.kind = "move",
         pc = "ask" => t \in Worker /\ thread[t].job.overwrite = "PROMPT",
         pc \in {"block", "test"} => thread[t].data \in Data
                                      /\ thread[t].block \in 0..Size[thread[t].data],
         Set(t, [pc |-> pc]) \/ Set(t, [pc |-> pc] ++ Odd)
  PROVE  ThreadsOK'
<1> DEFINE g == thread[t]
           r == [pc |-> pc]
<1>1. ThreadOK(t, g)
  BY Here
<1>2. DOMAIN r = {"pc"} /\ r["pc"] = pc
  OBVIOUS
<1> HIDE DEF r
<1>3. ASSUME NEW n, Takes(n, r, g)
      PROVE  ThreadOK(t, n)
  <2>1. /\ n.pc = pc /\ n.from = g.from /\ n.to = g.to /\ n.stack = g.stack
        /\ n.job = g.job /\ n.block = g.block /\ n.ret = g.ret /\ n.data = g.data
    BY <1>2, <1>3 DEF Takes, Steps, Going
  <2>2. Walk(n)
    BY <2>1, <1>1 DEF Walk, ThreadOK, InDirectory
  <2>3. Place(t, n)
    BY <2>1, <1>1 DEF ThreadOK, Place, AtPath, Pasting, Removing
  <2>4. /\ n.pc \in Pcs /\ n.ret \in {-1, 0, 1} /\ n.block \in Nat
        /\ n.from \in Seq(Name) /\ n.to \in Seq(Name)
    BY <2>1, <1>1 DEF Pcs, Pasting, ThreadOK, Shape
  <2>5. g.pc \notin {"idle", "items"}
    BY DEF Pasting
  <2> QED
    BY <1>1, <1>3, <2>2, <2>3, <2>4, <2>5, TakesOK
<1>4. DOMAIN r \subseteq Steps \cup {"removing"}
  BY <1>2 DEF Steps
<1>5. Set(t, r) \/ Set(t, r ++ Odd)
  BY DEF r
<1> QED
  BY <1>3, <1>4, <1>5, TakesKeep

LEMMA ThreadsFile ==
  ASSUME Inv, NEW t \in Threads, File(t) \/ Answer(t) \/ MoveCopies(t)
  PROVE  ThreadsOK'
<1> DEFINE g == thread[t]
           kind == g.job.kind
<1>1. ThreadsOK /\ ThreadOK(t, g)
  BY Here DEF Inv
<1>2. g.pc \in {"file", "ask", "move"}
  BY DEF File, Answer, MoveCopies, At
<1>3. g.pc \in Pasting \ {"entries"} /\ kind \in {"move", "copy"}
      /\ (g.pc = "file" => t \in Worker)
  BY <1>1, <1>2 DEF Pasting, ThreadOK, Place
<1>4. \/ Set(t, Return(t, 1) ++ Odd)
      \/ Set(t, [pc |-> kind])
      \/ Set(t, [pc |-> "ask"]) /\ g.pc = "file" /\ g.job.overwrite = "PROMPT"
      \/ Set(t, [pc |-> "copy"])
  <2>1. CASE File(t)
    <3> DEFINE there == FileExists(g.to)
    <3>1. CASE there /\ Overwrite(t) = "PROMPT"
      BY <2>1, <3>1 DEF File, At, Overwrite
    <3>2. CASE there /\ Overwrite(t) = "NONE"
      BY <2>1, <3>2 DEF File
    <3>3. CASE ~(there /\ Overwrite(t) = "PROMPT") /\ ~(there /\ Overwrite(t) = "NONE")
      BY <2>1, <3>3 DEF File, Kind
    <3> QED
      BY <3>1, <3>2, <3>3
  <2>2. CASE Answer(t)
    BY <2>2 DEF Answer, Kind
  <2>3. CASE MoveCopies(t)
    BY <2>3 DEF MoveCopies
  <2> QED
    BY <2>1, <2>2, <2>3
<1>5. CASE Set(t, Return(t, 1) ++ Odd)
  <2>1. ResumesBy(Return(t, 1), g, {"entries"})
    BY <1>1, ReturnResumes
  <2> QED
    BY <1>1, <1>3, <1>5, <2>1, ResumesKeep
<1>6. CASE Set(t, [pc |-> kind])
  BY <1>1, <1>3, <1>6, GoesOn
<1>7. CASE Set(t, [pc |-> "ask"]) /\ g.pc = "file" /\ g.job.overwrite = "PROMPT"
  BY <1>1, <1>3, <1>7, GoesOn
<1>8. CASE Set(t, [pc |-> "copy"])
  BY <1>1, <1>3, <1>8, GoesOn
<1> QED
  BY <1>4, <1>5, <1>6, <1>7, <1>8

(* A copy: what is open at the destination is a file's data, block by block. *)
LEMMA Copying ==
  ASSUME ThreadsOK, NEW t \in Threads, thread[t].pc \in {"copy", "block"},
         NEW pc \in {"block", "test"}, NEW r,
         NEW data \in Data, NEW block \in 0..Size[data],
         \/ DOMAIN r = {"pc", "data", "block"} /\ r["data"] = data
         \/ DOMAIN r = {"pc", "block"} /\ data = thread[t].data,
         r["pc"] = pc, r["block"] = block,
         Set(t, r)
  PROVE  ThreadsOK'
<1> DEFINE g == thread[t]
<1>1. ThreadOK(t, g)
  BY Here
<1>2. Size[data] \in Nat
  BY FileOpsAssumption DEF FileOpsAssumption
<1>3. ASSUME NEW n, Takes(n, r, g)
      PROVE  ThreadOK(t, n)
  <2>1. /\ n.pc = pc /\ n.from = g.from /\ n.to = g.to /\ n.stack = g.stack
        /\ n.job = g.job /\ n.block = block /\ n.ret = g.ret /\ n.data = data
    BY <1>3 DEF Takes, Steps, Going
  <2>2. Walk(n)
    BY <2>1, <1>1 DEF Walk, ThreadOK, InDirectory
  <2>3. Place(t, n)
    BY <2>1, <1>1 DEF ThreadOK, Place, AtPath, Pasting, Removing
  <2>4. /\ n.pc \in Pcs /\ n.ret \in {-1, 0, 1}
        /\ n.from \in Seq(Name) /\ n.to \in Seq(Name)
    BY <2>1, <1>1 DEF Pcs, Pasting, ThreadOK, Shape
  <2>5. n.block \in Nat
    BY <2>1, <1>2
  <2> QED
    BY <1>1, <1>3, <2>2, <2>3, <2>4, <2>5, TakesOK
<1>4. DOMAIN r \subseteq Steps \cup {"removing"}
  BY DEF Steps
<1> QED
  BY <1>3, <1>4, TakesKeep

LEMMA ThreadsCopyBegin ==
  ASSUME Inv, NEW t \in Threads, CopyBegin(t)
  PROVE  ThreadsOK'
<1> DEFINE g == thread[t]
           data == fs[g.from].of
           r == [pc |-> "block", data |-> data, block |-> 0]
<1>1. ThreadsOK /\ ThreadOK(t, g) /\ g.pc = "copy" /\ Tree(fs)
  BY Here DEF Inv, CopyBegin, At
<1>2. g.from \in DOMAIN fs /\ data \in Data /\ 0 \in 0..Size[data]
  <2>1. g.from \in DOMAIN fs /\ fs[g.from].of # "dir"
    BY DEF CopyBegin, FileExists, Exists
  <2>2. data \in Data
    BY <2>1, <1>1, FileIs DEF Tree
  <2> HIDE DEF data
  <2>3. Size[data] \in Nat
    BY <2>2, FileOpsAssumption DEF FileOpsAssumption
  <2> QED
    BY <2>1, <2>2, <2>3
<1>3. Set(t, r) \/ Set(t, Return(t, 0) ++ Odd)
  BY DEF CopyBegin
<1>4. CASE Set(t, r)
  <2> HIDE DEF data
  <2>1. DOMAIN r = {"pc", "data", "block"} /\ r["pc"] = "block" /\ r["data"] = data
        /\ r["block"] = 0
    OBVIOUS
  <2> HIDE DEF r
  <2> QED
    BY <1>1, <1>2, <1>4, <2>1, Copying
<1>5. CASE Set(t, Return(t, 0) ++ Odd)
  <2>1. ResumesBy(Return(t, 0), g, {"entries"})
    BY <1>1, ReturnResumes
  <2>2. g.pc \in Pasting
    BY <1>1 DEF Pasting
  <2> QED
    BY <1>1, <1>5, <2>1, <2>2, ResumesKeep
<1> QED
  BY <1>3, <1>4, <1>5

LEMMA SourceIs ==
  ASSUME Tree(fs), NEW t, thread[t].data \in Data
  PROVE  Source(t) \in 0..Size[thread[t].data]
<1>1. Size[thread[t].data] \in Nat
  BY FileOpsAssumption DEF FileOpsAssumption
<1>2. ASSUME FileExists(thread[t].from), fs[thread[t].from].of = thread[t].data
      PROVE  fs[thread[t].from].blocks \in 0..Size[thread[t].data]
  BY <1>2, FileIs DEF FileExists, Exists, Tree
<1> QED
  BY <1>1, <1>2 DEF Source

LEMMA ThreadsCopyBlock ==
  ASSUME Inv, NEW t \in Threads, CopyBlock(t)
  PROVE  ThreadsOK'
<1> DEFINE g == thread[t]
           more == g.block < Source(t)
           block == IF more THEN g.block + 1 ELSE g.block
           r == [pc |-> "test", block |-> block]
<1>1. ThreadsOK /\ ThreadOK(t, g) /\ g.pc = "block" /\ Tree(fs)
  BY Here DEF Inv, CopyBlock, At
<1>2. g.data \in Data /\ g.block \in 0..Size[g.data] /\ Size[g.data] \in Nat
  BY <1>1, FileOpsAssumption DEF ThreadOK, Place, FileOpsAssumption
<1>3. block \in 0..Size[g.data]
  BY <1>1, <1>2, SourceIs
<1>4. Set(t, r) \/ Set(t, Return(t, 0) ++ Odd)
  BY DEF CopyBlock
<1>5. CASE Set(t, r)
  <2> HIDE DEF block
  <2>1. DOMAIN r = {"pc", "block"} /\ r["pc"] = "test" /\ r["block"] = block
    OBVIOUS
  <2> HIDE DEF r
  <2> QED
    BY <1>1, <1>2, <1>3, <1>5, <2>1, Copying
<1>6. CASE Set(t, Return(t, 0) ++ Odd)
  <2>1. ResumesBy(Return(t, 0), g, {"entries"})
    BY <1>1, ReturnResumes
  <2>2. g.pc \in Pasting
    BY <1>1 DEF Pasting
  <2> QED
    BY <1>1, <1>6, <2>1, <2>2, ResumesKeep
<1> QED
  BY <1>4, <1>5, <1>6

LEMMA ThreadsReadFails ==
  ASSUME Inv, NEW t \in Threads, ReadFails(t)
  PROVE  ThreadsOK'
<1> DEFINE g == thread[t]
<1>1. ThreadsOK /\ ThreadOK(t, g) /\ g.pc = "block"
  BY Here DEF Inv, ReadFails, At
<1>2. g.data \in Data /\ g.block \in 0..Size[g.data] /\ g.pc \in Pasting \ {"entries"}
  BY <1>1 DEF ThreadOK, Place, Pasting
<1>3. Set(t, [pc |-> "test"])
  BY DEF ReadFails
<1> QED
  BY <1>1, <1>2, <1>3, GoesOn

LEMMA ThreadsCopyTest ==
  ASSUME Inv, NEW t \in Threads, CopyTest(t)
  PROVE  ThreadsOK'
<1> DEFINE g == thread[t]
           unlink == [pc |-> "unlink"]
<1>1. ThreadsOK /\ ThreadOK(t, g) /\ g.pc = "test"
  BY Here DEF Inv, CopyTest, At
<1>2. g.data \in Data /\ g.block \in 0..Size[g.data] /\ g.pc \in Pasting \ {"entries"}
  BY <1>1 DEF ThreadOK, Place, Pasting
<1>3. \/ Set(t, [pc |-> "block"])
      \/ g.job.kind = "move" /\ (Set(t, unlink) \/ Set(t, unlink ++ Odd))
      \/ Set(t, Return(t, 1)) \/ Set(t, Return(t, 1) ++ Odd)
  <2>1. CASE ~Copied(t)
    BY <2>1 DEF CopyTest
  <2>2. CASE Copied(t) /\ Kind(t) = "move"
    BY <2>2 DEF CopyTest, Kind
  <2>3. CASE Copied(t) /\ Kind(t) # "move"
    BY <2>3 DEF CopyTest
  <2> QED
    BY <2>1, <2>2, <2>3
<1>4. CASE Set(t, [pc |-> "block"])
  BY <1>1, <1>2, <1>4, GoesOn
<1>5. CASE g.job.kind = "move" /\ (Set(t, unlink) \/ Set(t, unlink ++ Odd))
  BY <1>1, <1>2, <1>5, GoesOn
<1>6. CASE Set(t, Return(t, 1)) \/ Set(t, Return(t, 1) ++ Odd)
  <2>1. ResumesBy(Return(t, 1), g, {"entries"})
    BY <1>1, ReturnResumes
  <2> QED
    BY <1>1, <1>2, <1>6, <2>1, ResumesKeep
<1> QED
  BY <1>3, <1>4, <1>5, <1>6

LEMMA ThreadsRm ==
  ASSUME Inv, NEW t \in Threads, RmEnter(t) \/ RmTest(t) \/ RmDone(t)
  PROVE  ThreadsOK'
<1> DEFINE g == thread[t]
           pcs == {"rmtest", "rmloop"}
           stop == [pc |-> "done", stack |-> <<>>, ret |-> 0]
           fail == [pc |-> "done", stack |-> <<>>, ret |-> -1]
           loop == [pc |-> "rmloop"]
           s == Append(g.stack, [src |-> g.from, dest |-> <<>>, todo |-> Entries(g.from)])
           push == [pc |-> "rmloop", stack |-> s]
<1>1. ThreadsOK /\ ThreadOK(t, g) /\ Tree(fs) /\ g.pc \in Removing
  BY Here DEF Inv, RmEnter, RmTest, RmDone, At, Removing
<1>2. g.pc # "rm" => g.stack # <<>>
  BY <1>1 DEF ThreadOK, Walk, Removing, InDirectory
<1>3. \E r : ResumesBy(r, g, pcs) /\ (Set(t, r) \/ Set(t, r ++ Odd))
  <2>1. ASSUME NEW ret \in {-1, 0, 1}
        PROVE  ResumesBy(RmReturn(t, ret), g, pcs)
    BY <1>1, RmReturnResumes
  <2>2. ResumesBy(stop, g, pcs) /\ ResumesBy(fail, g, pcs)
    <3>1. DOMAIN stop = {"pc", "stack", "ret"} /\ stop["pc"] = "done"
          /\ stop["stack"] = <<>> /\ stop["ret"] = 0
      OBVIOUS
    <3>2. DOMAIN fail = {"pc", "stack", "ret"} /\ fail["pc"] = "done"
          /\ fail["stack"] = <<>> /\ fail["ret"] = -1
      OBVIOUS
    <3> HIDE DEF stop, fail, pcs
    <3> QED
      BY <1>1, <3>1, <3>2, ResumesByIs
  <2>3. CASE RmEnter(t)
    <3>1. g.from \in Path /\ Inside(g.job, g.from) /\ g.stack \in Seq(Levels(g.job))
      BY <1>1, <2>3 DEF RmEnter, At, ThreadOK, Place, Walk, AtPath
    <3>2. ResumesBy(push, g, pcs)
      <4>1. <<>> \in Seq(Name)
        OBVIOUS
      <4>2. s \in Seq(Levels(g.job)) \ {<<>>}
        BY <1>1, <3>1, <4>1, LevelIs, Pushed
      <4> HIDE DEF s
      <4>3. DOMAIN push = {"pc", "stack"} /\ push["pc"] = "rmloop" /\ push["stack"] = s
        OBVIOUS
      <4>4. push["pc"] \in pcs
        BY <4>3
      <4> HIDE DEF push, pcs
      <4> QED
        BY <1>1, <4>2, <4>3, <4>4, ResumesByIs
    <3>3. \/ Set(t, push) \/ Set(t, RmReturn(t, 1)) \/ Set(t, RmReturn(t, 1) ++ Odd)
          \/ Set(t, RmReturn(t, -1) ++ Odd)
      BY <2>3 DEF RmEnter
    <3> HIDE DEF push, pcs
    <3> QED
      BY <2>1, <3>2, <3>3
  <2>4. CASE RmTest(t)
    <3>1. g.stack \in Seq(Levels(g.job)) \ {<<>>}
      BY <1>1, <1>2, <2>4 DEF RmTest, At, ThreadOK, Walk
    <3>2. ResumesBy(loop, g, pcs)
      <4>1. DOMAIN loop = {"pc"} /\ loop["pc"] = "rmloop" /\ loop["pc"] \in pcs
        OBVIOUS
      <4> HIDE DEF loop, pcs
      <4> QED
        BY <1>1, <3>1, <4>1, ResumesByIs
    <3>3. Set(t, loop) \/ Set(t, stop ++ Odd)
      BY <2>4 DEF RmTest
    <3> HIDE DEF loop, stop, pcs
    <3> QED
      BY <2>2, <3>2, <3>3
  <2>5. CASE RmDone(t)
    <3>1. ResumesBy(RmLeave(t), g, pcs)
      BY <1>1, <1>2, <2>5, LeaveResumes DEF RmDone, At
    <3>2. Set(t, RmLeave(t)) \/ Set(t, stop ++ Odd) \/ Set(t, fail ++ Odd)
      BY <2>5 DEF RmDone
    <3> HIDE DEF fail, stop, pcs
    <3> QED
      BY <2>2, <3>1, <3>2
  <2> QED
    BY <2>3, <2>4, <2>5
<1>4. PICK r : ResumesBy(r, g, pcs) /\ (Set(t, r) \/ Set(t, r ++ Odd))
  BY <1>3
<1>5. g.pc \in Pasting \/ g.pc \in Removing
  BY <1>1
<1> QED
  BY <1>1, <1>4, ResumesKeep

(* The next path to go to lies inside the job. *)
LEMMA ItemInside ==
  ASSUME NEW job, job.items \subseteq Path, NEW p \in job.items
  PROVE  p \in Path /\ p \in Seq(Name) /\ Inside(job, p)
BY PrefixSelf DEF Path, Inside

LEMMA ThreadsRmNext ==
  ASSUME Inv, NEW t \in Threads, RmNext(t)
  PROVE  ThreadsOK'
<1> DEFINE g == thread[t]
           left(e) == Front(g.stack) \o <<[Top(t) EXCEPT !.todo = @ \ {e}]>>
<1>1. ThreadsOK /\ ThreadOK(t, g) /\ g.pc = "rmloop"
  BY Here DEF Inv, RmNext, At
<1>2. /\ g.stack # <<>> /\ g.job.kind # "copy" /\ (t \in Worker => g.job.kind = "remove")
      /\ g.job.items \subseteq Path
  BY <1>1 DEF ThreadOK, Walk, Place, Errand, InDirectory, Removing
<1>3. PICK e \in Top(t).todo : Set(t, [pc |-> "rm", from |-> e.path, stack |-> left(e)])
  BY DEF RmNext
<1> DEFINE r == [pc |-> "rm", from |-> e.path, stack |-> left(e)]
<1>4. left(e) \in Seq(Levels(g.job)) \ {<<>>}
  BY <1>1, <1>2, TopTaken
<1>5. e.path \in Path /\ Inside(g.job, e.path)
  BY <1>1, <1>2, TopIs, EntryInside
<1> HIDE DEF left
<1>6. DOMAIN r = {"pc", "from", "stack"} /\ r["pc"] = "rm" /\ r["from"] = e.path
      /\ r["stack"] = left(e)
  OBVIOUS
<1>7. Set(t, r)
  BY <1>3
<1> HIDE DEF r
<1>8. ASSUME NEW n, Takes(n, r, g)
      PROVE  ThreadOK(t, n)
  <2>1. /\ n.pc = "rm" /\ n.from = e.path /\ n.to = g.to /\ n.stack = left(e)
        /\ n.job = g.job /\ n.block = g.block /\ n.ret = g.ret /\ n.data = g.data
    BY <1>6, <1>8 DEF Takes, Steps, Going
  <2>2. Walk(n)
    BY <2>1, <1>4 DEF Walk
  <2>3. Place(t, n)
    BY <2>1, <1>2, <1>5 DEF Place, AtPath, Pasting, Removing
  <2>4. /\ n.pc \in Pcs /\ n.ret \in {-1, 0, 1} /\ n.block \in Nat
        /\ n.from \in Seq(Name) /\ n.to \in Seq(Name)
    BY <2>1, <1>1, <1>5 DEF Pcs, Removing, ThreadOK, Shape, Path
  <2> QED
    BY <1>1, <1>8, <2>2, <2>3, <2>4, TakesOK
<1>9. DOMAIN r \subseteq Steps \cup {"removing"}
  BY <1>6 DEF Steps
<1> QED
  BY <1>1, <1>7, <1>8, <1>9, TakesKeep

LEMMA ThreadsItemDone ==
  ASSUME Inv, NEW t \in Threads, ItemDone(t)
  PROVE  ThreadsOK'
<1> DEFINE g == thread[t]
           fails == g.failed \/ (g.ret = 0 /\ ~g.removing)
           rm == [pc |-> "rm", from |-> g.item.path, removing |-> TRUE]
           next == [pc |-> "items", failed |-> fails]
<1>1. ThreadsOK /\ ThreadOK(t, g) /\ g.pc = "done"
  BY Here DEF Inv, ItemDone, At
<1>2. /\ g.item.path \in g.job.items /\ g.job.items \subseteq Path
      /\ g.job.kind # "none"
  BY <1>1 DEF ThreadOK, Errand
<1>3. \/ t \in Http /\ g.job.kind = "move" /\ Set(t, rm)
      \/ Set(t, next)
  BY DEF ItemDone, Kind
<1>4. CASE t \in Http /\ g.job.kind = "move" /\ Set(t, rm)
  <2>1. DOMAIN rm = {"pc", "from", "removing"} /\ rm["pc"] = "rm"
        /\ rm["from"] = g.item.path
    OBVIOUS
  <2>2. Set(t, rm) /\ t \notin Worker
    BY <1>4, FileOpsAssumption DEF FileOpsAssumption
  <2> HIDE DEF rm
  <2>3. ASSUME NEW n, Takes(n, rm, g)
        PROVE  ThreadOK(t, n)
    <3>1. /\ n.pc = "rm" /\ n.from = g.item.path /\ n.to = g.to /\ n.stack = g.stack
          /\ n.job = g.job /\ n.block = g.block /\ n.ret = g.ret /\ n.data = g.data
      BY <2>1, <2>3 DEF Takes, Steps, Going
    <3>2. Walk(n)
      BY <3>1, <1>1 DEF Walk, ThreadOK, InDirectory
    <3>3. n.from \in Path /\ n.from \in Seq(Name) /\ Inside(n.job, n.from)
      BY <3>1, <1>2, ItemInside
    <3>4. Place(t, n)
      BY <3>1, <3>3, <2>2, <1>4 DEF Place, AtPath, Pasting, Removing
    <3>5. /\ n.pc \in Pcs /\ n.ret \in {-1, 0, 1} /\ n.block \in Nat /\ n.to \in Seq(Name)
      BY <3>1, <1>1 DEF Pcs, Removing, ThreadOK, Shape
    <3> QED
      BY <1>1, <2>3, <3>2, <3>3, <3>4, <3>5, TakesOK
  <2>4. DOMAIN rm \subseteq Steps \cup {"removing"}
    BY <2>1 DEF Steps
  <2> QED
    BY <1>1, <2>2, <2>3, <2>4, TakesKeep
<1>5. CASE Set(t, next)
  <2> DEFINE n == next ++ g
  <2>1. g = [f \in Fields |-> g[f]] /\ g.failed \in BOOLEAN /\ fails \in BOOLEAN
    BY <1>1 DEF ThreadOK, Shape
  <2> HIDE DEF fails
  <2>2. DOMAIN next = {"pc", "failed"} /\ next["pc"] = "items" /\ next["failed"] = fails
    OBVIOUS
  <2>3. Set(t, next)
    BY <1>5
  <2> HIDE DEF next
  <2>4. DOMAIN next \subseteq Fields
    BY <2>2 DEF Fields
  <2>5. /\ n = [f \in Fields |-> n[f]]
        /\ \A f \in Fields : n[f] = IF f \in DOMAIN next THEN next[f] ELSE g[f]
    BY <2>1, <2>4, Merged
  <2> HIDE DEF n
  <2>6. /\ n.pc = "items" /\ n.failed = fails /\ n.job = g.job /\ n.items = g.items
        /\ n.item = g.item /\ n.stack = g.stack /\ n.from = g.from /\ n.to = g.to
        /\ n.data = g.data /\ n.block = g.block /\ n.ret = g.ret /\ n.was = g.was
        /\ n.alone = g.alone /\ n.plain = g.plain
    BY <2>2, <2>5 DEF Fields
  <2>7. Shape(n)
    BY <2>1, <2>5, <2>6, <1>1 DEF ThreadOK, Shape, Pcs
  <2>8. Errand(t, n)
    BY <2>6, <1>1 DEF ThreadOK, Errand
  <2>9. Place(t, n)
    BY <2>6 DEF Place, AtPath, Pasting, Removing
  <2>10. Walk(n)
    BY <2>6, <1>1 DEF ThreadOK, Walk, InDirectory
  <2>11. ThreadOK(t, n)
    BY <2>7, <2>8, <2>9, <2>10 DEF ThreadOK
  <2> QED
    BY <1>1, <2>3, <2>11, SetMoves DEF n
<1> QED
  BY <1>3, <1>4, <1>5

LEMMA ThreadsFinish ==
  ASSUME Inv, NEW t \in Threads, Finish(t)
  PROVE  ThreadsOK'
<1> DEFINE g == thread[t]
           plain == g.plain /\ g.items = {}
           r == [pc |-> "idle", item |-> NoItem, from |-> <<>>, to |-> <<>>, block |-> 0,
                 plain |-> plain]
           n == r ++ g
<1>1. ThreadsOK /\ ThreadOK(t, g)
  BY Here DEF Inv
<1>2. g = [f \in Fields |-> g[f]] /\ plain \in BOOLEAN
  BY <1>1 DEF ThreadOK, Shape
<1>3. Set(t, r)
  BY DEF Finish
<1> HIDE DEF plain
<1>4. DOMAIN r = {"pc", "item", "from", "to", "block", "plain"} /\ r["pc"] = "idle"
      /\ r["from"] = <<>> /\ r["to"] = <<>> /\ r["block"] = 0 /\ r["plain"] = plain
  OBVIOUS
<1> HIDE DEF r
<1>5. DOMAIN r \subseteq Fields
  BY <1>4 DEF Fields
<1>6. /\ n = [f \in Fields |-> n[f]]
      /\ \A f \in Fields : n[f] = IF f \in DOMAIN r THEN r[f] ELSE g[f]
  BY <1>2, <1>5, Merged
<1> HIDE DEF n
<1>7. /\ n.pc = "idle" /\ n.from = <<>> /\ n.to = <<>> /\ n.block = 0 /\ n.plain = plain
      /\ n.job = g.job /\ n.items = g.items /\ n.stack = g.stack /\ n.failed = g.failed
      /\ n.ret = g.ret /\ n.was = g.was /\ n.alone = g.alone
  BY <1>4, <1>6 DEF Fields
<1>8. <<>> \in Seq(Name)
  OBVIOUS
<1>9. Shape(n)
  <2>1. /\ n.pc \in Pcs /\ n.ret \in {-1, 0, 1} /\ n.block \in Nat
        /\ n.alone \in BOOLEAN /\ n.failed \in BOOLEAN
        /\ n.from \in Seq(Name) /\ n.to \in Seq(Name)
    BY <1>1, <1>7, <1>8 DEF ThreadOK, Shape, Pcs
  <2>2. n.plain \in BOOLEAN
    BY <1>2, <1>7
  <2> QED
    BY <1>6, <2>1, <2>2 DEF Shape
<1>10. Errand(t, n)
  BY <1>7, <1>1 DEF ThreadOK, Errand
<1>11. Place(t, n)
  BY <1>7 DEF Place, AtPath, Pasting, Removing
<1>12. Walk(n)
  BY <1>7, <1>1 DEF ThreadOK, Walk, InDirectory
<1>13. ThreadOK(t, n)
  BY <1>9, <1>10, <1>11, <1>12 DEF ThreadOK
<1> QED
  BY <1>1, <1>3, <1>13, SetMoves DEF n

LEMMA ThreadsNextItem ==
  ASSUME Inv, NEW t \in Threads, NextItem(t)
  PROVE  ThreadsOK'
<1> DEFINE g == thread[t]
           job == g.job
           item(p) == Item(t, p)
           to(p) == Into(job.dest, p)
           pc(p) == IF Kind(t) = "remove" THEN "rm"
                    ELSE IF Skipped(t, item(p)) THEN "items"
                    ELSE IF item(p).isDir THEN "enter"
                    ELSE IF t \in Worker THEN "file" ELSE Kind(t)
           r(p) == [pc |-> pc(p), items |-> g.items \ {p}, item |-> item(p),
                    from |-> p, to |-> to(p), removing |-> FALSE]
<1>1. ThreadsOK /\ ThreadOK(t, g) /\ g.pc = "items"
  BY Here DEF Inv, NextItem, At
<1>2. PICK p \in g.items : Set(t, r(p))
  BY DEF NextItem
<1>3. /\ p \in job.items /\ job.items \subseteq Path /\ job.dest \in Seq(Name)
      /\ job.kind \in {"move", "copy", "remove"}
  BY <1>1 DEF ThreadOK, Errand
<1>4. p \in Path /\ p \in Seq(Name) /\ Inside(job, p) /\ to(p) \in Path
      /\ to(p) \in Seq(Name)
  BY <1>3, ItemInside, IntoIs DEF Path
<1>5. item(p).path = p
  BY DEF Item
<1>6. /\ pc(p) \in {"rm", "items", "enter", "file", "move", "copy"}
      /\ pc(p) = "rm" => job.kind = "remove"
      /\ pc(p) \in {"enter", "file", "move", "copy"} => job.kind \in {"move", "copy"}
      /\ pc(p) = "move" => job.kind = "move"
      /\ pc(p) = "file" => t \in Worker
  BY <1>3 DEF Kind
<1> DEFINE q == r(p)
           n == q ++ g
<1>7. Set(t, q)
  BY <1>2
<1> HIDE DEF pc, to, item
<1>8. DOMAIN q = {"pc", "items", "item", "from", "to", "removing"} /\ q["pc"] = pc(p)
      /\ q["items"] = g.items \ {p} /\ q["item"] = item(p) /\ q["from"] = p
      /\ q["to"] = to(p)
  OBVIOUS
<1> HIDE DEF q
<1>9. DOMAIN q \subseteq Fields /\ g = [f \in Fields |-> g[f]]
  BY <1>1, <1>8 DEF Fields, ThreadOK, Shape
<1>10. /\ n = [f \in Fields |-> n[f]]
       /\ \A f \in Fields : n[f] = IF f \in DOMAIN q THEN q[f] ELSE g[f]
  BY <1>9, Merged
<1> HIDE DEF n
<1>11. /\ n.pc = pc(p) /\ n.items = g.items \ {p} /\ n.item = item(p) /\ n.from = p
       /\ n.to = to(p) /\ n.job = job /\ n.stack = g.stack /\ n.failed = g.failed
       /\ n.ret = g.ret /\ n.was = g.was /\ n.alone = g.alone /\ n.plain = g.plain
       /\ n.block = g.block
  BY <1>8, <1>10 DEF Fields
<1>12. Shape(n)
  BY <1>1, <1>4, <1>6, <1>10, <1>11 DEF ThreadOK, Shape, Pcs, Pasting, Removing
<1>13. Errand(t, n)
  BY <1>1, <1>3, <1>5, <1>11 DEF ThreadOK, Errand
<1>14. Place(t, n)
  BY <1>4, <1>6, <1>11 DEF Place, AtPath, Pasting, Removing
<1>15. Walk(n)
  BY <1>1, <1>6, <1>11 DEF ThreadOK, Walk, InDirectory
<1>16. ThreadOK(t, n)
  BY <1>12, <1>13, <1>14, <1>15 DEF ThreadOK
<1> QED
  BY <1>1, <1>7, <1>16, SetMoves DEF n

LEMMA ThreadsBegin ==
  ASSUME Inv, NEW t \in Threads, Begin(t)
  PROVE  ThreadsOK' /\ jobs' \in [Threads -> SUBSET JobRecord]
<1> DEFINE g == thread[t]
           r(job) == [Idle EXCEPT !.pc = "items", !.job = job, !.was = fs,
                                  !.items = job.items]
<1>1. ThreadsOK /\ ThreadOK(t, g) /\ g = [f \in Fields |-> g[f]] /\ Tree(fs)
      /\ jobs \in [Threads -> SUBSET JobRecord]
  BY Here DEF Inv, Shape
<1>2. PICK job \in jobs[t] : /\ t \in Worker => \A p \in job.items : Exists(p)
                             /\ jobs' = [jobs EXCEPT ![t] = @ \ {job}]
                             /\ Set(t, r(job))
  BY DEF Begin
<1>3. job \in JobRecord /\ jobs' \in [Threads -> SUBSET JobRecord]
  BY <1>1, <1>2
<1>4. /\ job.kind \in {"move", "copy", "remove"} /\ job.items \subseteq Path
      /\ job.dest \in Seq(Name)
  BY <1>3 DEF JobRecord
<1>5. t \in Worker => job.items \subseteq DOMAIN fs
  BY <1>2 DEF Exists
<1> DEFINE q == r(job)
           n == q ++ g
<1>6. Set(t, q)
  BY <1>2
<1>7. /\ DOMAIN q = Fields /\ q["pc"] = "items" /\ q["job"] = job /\ q["was"] = fs
      /\ q["items"] = job.items /\ q["stack"] = <<>> /\ q["from"] = <<>> /\ q["to"] = <<>>
      /\ q["block"] = 0 /\ q["ret"] = 1 /\ q["failed"] = FALSE /\ q["alone"] = TRUE
      /\ q["plain"] = TRUE
  BY DEF Idle, Fields
<1> HIDE DEF q
<1>8. /\ n = [f \in Fields |-> n[f]]
      /\ \A f \in Fields : n[f] = q[f]
  BY <1>1, <1>7, Merged
<1> HIDE DEF n
<1>9. /\ n.pc = "items" /\ n.job = job /\ n.was = fs /\ n.items = job.items
      /\ n.stack = <<>> /\ n.from = <<>> /\ n.to = <<>> /\ n.block = 0 /\ n.ret = 1
      /\ n.failed = FALSE /\ n.alone = TRUE /\ n.plain = TRUE
  BY <1>7, <1>8 DEF Fields
<1>10. <<>> \in Seq(Name)
  OBVIOUS
<1>11. Shape(n)
  <2>1. /\ n.pc \in Pcs /\ n.ret \in {-1, 0, 1} /\ n.block \in Nat
        /\ n.from \in Seq(Name) /\ n.to \in Seq(Name)
    BY <1>9, <1>10 DEF Pcs
  <2>2. n.alone \in BOOLEAN /\ n.plain \in BOOLEAN /\ n.failed \in BOOLEAN
    BY <1>9
  <2> QED
    BY <1>8, <2>1, <2>2 DEF Shape
<1>12. Errand(t, n)
  BY <1>1, <1>4, <1>5, <1>9 DEF Errand
<1>13. Place(t, n)
  BY <1>9 DEF Place, AtPath, Pasting, Removing
<1>14. Walk(n)
  BY <1>9 DEF Walk, InDirectory
<1>15. ThreadOK(t, n)
  BY <1>11, <1>12, <1>13, <1>14 DEF ThreadOK
<1> QED
  BY <1>1, <1>3, <1>6, <1>15, SetMoves DEF n

-----------------------------------------------------------------------------
(***************************************************************************)
(* What a step of a thread does to the devices.                            *)
(***************************************************************************)
(* Directories are made. *)
Adds(f, g) ==
  /\ DOMAIN f \subseteq DOMAIN g
  /\ \A q \in DOMAIN f : g[q] = f[q]
  /\ \A q \in DOMAIN g \ DOMAIN f : g[q] = Dir

(* A file or an empty directory is taken away: an item, or under one. *)
Takeaway(t, p) ==
  /\ p \in DOMAIN fs /\ Inside(thread[t].job, p) /\ thread[t].job.kind # "copy"
  /\ fs' = Unlinked(fs, {p})

Renames1(t) ==
  /\ thread[t].pc = "move" \/ (thread[t].pc = "enter" /\ thread[t].to \notin DOMAIN fs)
  /\ thread[t].job.kind = "move" /\ thread[t].from # thread[t].to
  /\ RenameMoves(thread[t].from, thread[t].to, fs')

(* A file is opened for writing, and emptied when it was there. *)
Opens(t, f) ==
  /\ thread[t].to \in DOMAIN f /\ DOMAIN fs \subseteq DOMAIN f
  /\ \A q \in DOMAIN fs : q # thread[t].to => f[q] = fs[q]
  /\ \A q \in DOMAIN f \ DOMAIN fs : q # thread[t].to => f[q] = Dir
  /\ f[thread[t].to] = [of |-> fs[thread[t].from].of, blocks |-> 0]

Creates(t) ==
  /\ thread[t].pc = "copy" /\ thread[t].from # thread[t].to
  /\ thread[t].from \in DOMAIN fs /\ fs[thread[t].from] # Dir
  /\ Opens(t, fs')

(* A file that is open for writing has another number of blocks. *)
Resizes(t, n) ==
  /\ thread[t].pc \in {"block", "test"}
  /\ thread[t].to \in DOMAIN fs /\ fs[thread[t].to] # Dir
  /\ fs[thread[t].to].of = thread[t].data
  /\ fs' = [fs EXCEPT ![thread[t].to].blocks = n]
  /\ n \in 0..Size[thread[t].data]

Effect(t) ==
  \/ fs' = fs
  \/ Adds(fs, fs')
  \/ \E p \in DOMAIN fs : Takeaway(t, p)
  \/ Renames1(t)
  \/ Creates(t)
  \/ \E n \in Nat : Resizes(t, n)

LEMMA RemovesOne ==
  ASSUME Tree(fs), NEW p \in DOMAIN fs, fs[p] # Dir \/ Children(p) = {}
  PROVE  Under(p) = {p} /\ Tree(Unlinked(fs, {p}))
<1>1. Under(p) = {p}
  BY FileUnder, NoChildren
<1>2. \A q \in DOMAIN fs \ {p} : IsPrefix(p, q) => q = p
  BY <1>1 DEF Under
<1> QED
  BY <1>1, <1>2, UnlinkedTree

LEMMA Making ==
  ASSUME Tree(fs), NEW p \in Seq(Name)
  PROVE  Adds(fs, MkDirs(fs, p)) /\ Tree(MkDirs(fs, p))
BY MkDirsAdd, MkDirsTree DEF MkDirsAdds, Adds

LEMMA MakingAbove ==
  ASSUME Tree(fs), NEW p \in Seq(Name), \E q \in Above(p) : fs' = MkDirs(fs, q)
  PROVE  Adds(fs, fs') /\ Tree(fs')
<1>1. PICK q \in Above(p) : fs' = MkDirs(fs, q)
  OBVIOUS
<1>2. p # <<>>
  <2>1. ASSUME p = <<>>
        PROVE  Above(p) = {}
    <3>1. Len(p) - 1 = -1
      BY <2>1
    <3>2. 1..(-1) = {}
      OBVIOUS
    <3> QED
      BY <3>1, <3>2 DEF Above
  <2> QED
    BY <1>1, <2>1
<1>3. q \in Seq(Name)
  BY <1>1, <1>2, AboveIs DEF Path
<1> QED
  BY <1>1, <1>3, Making

LEMMA WrittenEffect ==
  ASSUME Inv, NEW t \in Threads, thread[t].pc \in {"block", "test"},
         NEW n \in 0..Size[thread[t].data], fs' = Written(t, n)
  PROVE  Effect(t) /\ Tree(fs')
<1> DEFINE to == thread[t].to
<1>1. Tree(fs) /\ thread[t].data \in Data /\ n \in Nat
  BY Here, FileOpsAssumption DEF Inv, Place, FileOpsAssumption
<1>2. CASE FileExists(to) /\ fs[to].of = thread[t].data
  <2>1. fs' = [fs EXCEPT ![to].blocks = n]
    BY <1>2 DEF Written
  <2>2. to \in DOMAIN fs /\ fs[to] # Dir
    BY <1>2 DEF FileExists, Exists, Dir
  <2>3. Resizes(t, n)
    BY <1>2, <2>1, <2>2 DEF Resizes
  <2>4. n \in 0..Size[fs[to].of]
    BY <1>2
  <2>5. Tree([fs EXCEPT ![to].blocks = n])
    BY <1>1, <2>2, <2>4, ResizedTree
  <2> QED
    BY <1>1, <2>1, <2>3, <2>5 DEF Effect
<1>3. CASE ~(FileExists(to) /\ fs[to].of = thread[t].data)
  <2>1. fs' = fs
    BY <1>3 DEF Written
  <2> QED
    BY <1>1, <2>1 DEF Effect
<1> QED
  BY <1>2, <1>3

LEMMA EnterEffect ==
  ASSUME Inv, NEW t \in Threads, EnterListed(t) \/ EnterUnmade(t)
  PROVE  Effect(t) /\ Tree(fs')
<1> DEFINE from == thread[t].from
           to == thread[t].to
<1>1. Tree(fs) /\ thread[t].pc = "enter" /\ from \in Path /\ to \in Path
  BY Here DEF Inv, Place, EnterListed, EnterUnmade, At, AtPath, Pasting
<1>2. CASE EnterListed(t) /\ Renames(t) /\ RenameError(from, to) = "none"
  <2>1. fs' = Renamed(from, to)
    BY <1>2 DEF EnterListed
  <2>2. thread[t].job.kind = "move" /\ to \notin DOMAIN fs /\ from \in DOMAIN fs
    BY <1>2 DEF Renames, Kind, Exists, RenameError
  <2>3. from # to
    BY <2>2
  <2>4. RenameMoves(from, to, fs')
    BY <1>1, <1>2, <2>1, <2>3, RenamedTree
  <2>5. Tree(fs')
    BY <2>4 DEF RenameMoves
  <2>6. Renames1(t)
    BY <1>1, <2>2, <2>3, <2>4 DEF Renames1
  <2> QED
    BY <2>5, <2>6 DEF Effect
<1>3. CASE EnterListed(t) /\ ~(Renames(t) /\ RenameError(from, to) = "none")
  <2>1. fs' = MkDirs(fs, to)
    BY <1>3 DEF EnterListed
  <2> QED
    BY <1>1, <2>1, Making DEF Effect, Path
<1>4. CASE EnterUnmade(t)
  <2>1. \E p \in Above(to) : fs' = MkDirs(fs, p)
    BY <1>4 DEF EnterUnmade
  <2> QED
    BY <1>1, <2>1, MakingAbove DEF Effect, Path
<1> QED
  BY <1>2, <1>3, <1>4

LEMMA EntriesDoneEffect ==
  ASSUME Inv, NEW t \in Threads, EntriesDone(t)
  PROVE  Effect(t) /\ Tree(fs')
<1> DEFINE src == Top(t).src
<1>1. Tree(fs) /\ ThreadOK(t, thread[t]) /\ thread[t].stack # <<>>
  BY Here DEF Inv, EntriesDone, At, Walk, InDirectory
<1>2. Inside(thread[t].job, src)
  BY <1>1, TopIs DEF Levels
<1>3. CASE RemovesEmpty(t)
  <2>1. src \in DOMAIN fs /\ Children(src) = {} /\ thread[t].job.kind = "move"
        /\ fs' = Unlinked(fs, Under(src))
    BY <1>3 DEF RemovesEmpty, IsDir, Exists, Kind, EntriesDone
  <2>2. Under(src) = {src} /\ Tree(Unlinked(fs, {src}))
    BY <1>1, <2>1, RemovesOne
  <2>3. Takeaway(t, src)
    BY <1>2, <2>1, <2>2 DEF Takeaway
  <2> QED
    BY <2>1, <2>2, <2>3 DEF Effect
<1>4. CASE ~RemovesEmpty(t)
  <2>1. fs' = fs
    BY <1>4 DEF EntriesDone
  <2> QED
    BY <1>1, <2>1 DEF Effect
<1> QED
  BY <1>3, <1>4

LEMMA MoveEffect ==
  ASSUME Inv, NEW t \in Threads, MoveRenamed(t)
  PROVE  Effect(t) /\ Tree(fs')
<1> DEFINE from == thread[t].from
           to == thread[t].to
<1>1. /\ Tree(fs) /\ thread[t].pc = "move" /\ from \in Path /\ to \in Path
      /\ thread[t].job.kind = "move"
  BY Here DEF Inv, Place, MoveRenamed, At, AtPath, Pasting
<1>2. from # to /\ RenameError(from, to) = "none" /\ fs' = Renamed(from, to)
  BY DEF MoveRenamed
<1>3. RenameMoves(from, to, fs')
  BY <1>1, <1>2, RenamedTree
<1>4. Renames1(t)
  BY <1>1, <1>2, <1>3 DEF Renames1
<1> QED
  BY <1>3, <1>4 DEF RenameMoves, Effect

LEMMA CopyEffect ==
  ASSUME Inv, NEW t \in Threads, CopyBegin(t) \/ CopyNothing(t)
  PROVE  Effect(t) /\ Tree(fs')
<1> DEFINE from == thread[t].from
           to == thread[t].to
           made == MkDirs(fs, Front(to))
           x == [of |-> fs[from].of, blocks |-> 0]
<1>1. Tree(fs) /\ thread[t].pc = "copy" /\ to \in Path /\ to \in Seq(Name) /\ to # <<>>
  BY Here DEF Inv, Place, CopyBegin, CopyNothing, At, AtPath, Pasting, Path
<1>2. Front(to) \in Seq(Name)
  BY <1>1, FrontIs
<1>3. Adds(fs, made) /\ Tree(made)
  BY <1>1, <1>2, Making
<1> HIDE DEF made
<1>4. CASE fs' = made
  BY <1>3, <1>4 DEF Effect
<1>5. CASE fs' # made
  <2>1. /\ from # to /\ FileExists(from)
        /\ Front(to) \in DOMAIN made /\ made[Front(to)] = Dir /\ ~IsDir(to)
        /\ fs' = [p \in {to} |-> x] ++ made
    BY <1>5 DEF CopyBegin, CopyNothing, made
  <2>2. from \in DOMAIN fs /\ fs[from] # Dir
    BY <2>1 DEF FileExists, Exists, Dir
  <2>3. IsPart(x)
    <3>1. fs[from].of \in Data
      BY <1>1, <2>2, FileIs DEF Tree
    <3>2. 0 \in 0..Size[fs[from].of]
      BY <3>1, FileOpsAssumption DEF FileOpsAssumption
    <3> QED
      BY <3>1, <3>2 DEF IsPart
  <2>4. to \in DOMAIN fs => fs[to] # Dir
    BY <2>1 DEF IsDir, Exists, Dir
  <2>5. to \in DOMAIN made => made[to] # Dir
    <3>1. ASSUME to \in DOMAIN made, to \notin DOMAIN fs
          PROVE  FALSE
      <4>1. to \in {SubSeq(Front(to), 1, i) : i \in 1..Len(Front(to))}
        BY <3>1 DEF made, MkDirs, ++
      <4>2. PICK i \in 1..Len(Front(to)) : to = SubSeq(Front(to), 1, i)
        BY <4>1
      <4>3. Len(Front(to)) = Len(to) - 1 /\ Len(to) \in Nat \ {0}
        BY <1>1, FrontIs, EmptySeq
      <4>4. Len(SubSeq(Front(to), 1, i)) = i
        <5>1. Len(SubSeq(Front(to), 1, i)) = IF 1 <= i THEN i - 1 + 1 ELSE 0
          BY <1>2, LenProperties, SubSeqProperties
        <5>2. (IF 1 <= i THEN i - 1 + 1 ELSE 0) = i
          BY <4>3
        <5> QED
          BY <5>1, <5>2
      <4>5. i < Len(to)
        BY <4>3
      <4> QED
        BY <4>2, <4>3, <4>4, <4>5
    <3> QED
      BY <3>1, <2>4, <1>3 DEF Adds
  <2> HIDE DEF x
  <2>6. Tree([p \in {to} |-> x] ++ made)
    BY <1>1, <1>3, <2>1, <2>3, <2>5, PutTree
  <2>7. /\ DOMAIN fs' = DOMAIN made \cup {to}
        /\ fs'[to] = x
        /\ \A q \in DOMAIN made : q # to => fs'[q] = made[q]
    BY <2>1 DEF ++
  <2>8. Opens(t, fs')
    <3>1. to \in DOMAIN fs' /\ DOMAIN fs \subseteq DOMAIN fs' /\ fs'[to] = x
      BY <2>7, <1>3 DEF Adds
    <3>2. \A q \in DOMAIN fs : q # to => fs'[q] = fs[q]
      BY <2>7, <1>3 DEF Adds
    <3>3. \A q \in DOMAIN fs' \ DOMAIN fs : q # to => fs'[q] = Dir
      BY <2>7, <1>3 DEF Adds
    <3> QED
      BY <3>1, <3>2, <3>3 DEF Opens, x
  <2>9. Creates(t)
    BY <1>1, <2>1, <2>2, <2>8 DEF Creates
  <2> QED
    BY <2>1, <2>6, <2>9 DEF Effect
<1> QED
  BY <1>4, <1>5

LEMMA UnmadeEffect ==
  ASSUME Inv, NEW t \in Threads, CopyUnmade(t)
  PROVE  Adds(fs, fs') /\ Effect(t) /\ Tree(fs')
<1> DEFINE to == thread[t].to
<1>1. Tree(fs) /\ to \in Seq(Name) /\ to # <<>>
  BY Here DEF Inv, Place, CopyUnmade, At, AtPath, Pasting, Path
<1>2. Front(to) \in Seq(Name)
  BY <1>1, FrontIs
<1>3. \E p \in Above(Front(to)) : fs' = MkDirs(fs, p)
  BY DEF CopyUnmade
<1> QED
  BY <1>1, <1>2, <1>3, MakingAbove DEF Effect

LEMMA BlockEffect ==
  ASSUME Inv, NEW t \in Threads, CopyBlock(t) \/ CopyTest(t)
  PROVE  Effect(t) /\ Tree(fs')
<1> DEFINE g == thread[t]
<1>1. /\ Tree(fs) /\ g.pc \in {"block", "test"} /\ g.data \in Data
      /\ g.block \in 0..Size[g.data] /\ Size[g.data] \in Nat
  BY Here, FileOpsAssumption
     DEF Inv, Place, CopyBlock, CopyTest, At, FileOpsAssumption
<1>2. fs' = fs \/ \E n \in 0..Size[g.data] : fs' = Written(t, n)
  <2>1. CASE CopyBlock(t)
    <3> DEFINE more == g.block < Source(t)
               block == IF more THEN g.block + 1 ELSE g.block
    <3>1. Source(t) \in 0..Size[g.data]
      BY <1>1, SourceIs
    <3>2. block \in 0..Size[g.data]
      BY <1>1, <3>1
    <3>3. fs' = Written(t, block) \/ fs' = fs
      BY <2>1 DEF CopyBlock
    <3> HIDE DEF block
    <3> QED
      BY <3>2, <3>3
  <2>2. CASE CopyTest(t)
    <3>1. fs' = fs \/ (g.block > 0 /\ fs' = Written(t, g.block - 1))
      <4>1. CASE ~Copied(t)
        BY <2>2, <4>1 DEF CopyTest
      <4>2. CASE Copied(t)
        BY <2>2, <4>2 DEF CopyTest
      <4> QED
        BY <4>1, <4>2
    <3>2. g.block > 0 => g.block - 1 \in 0..Size[g.data]
      BY <1>1
    <3> QED
      BY <3>1, <3>2
  <2> QED
    BY <2>1, <2>2
<1> QED
  BY <1>1, <1>2, WrittenEffect DEF Effect

LEMMA RemoveEffect ==
  ASSUME Inv, NEW t \in Threads, Unlink(t) \/ RmEnter(t) \/ RmDone(t)
  PROVE  Effect(t) /\ Tree(fs')
<1> DEFINE g == thread[t]
<1>1. Tree(fs) /\ ThreadOK(t, g) /\ g.pc \in {"unlink", "rm", "rmloop"}
      /\ (Unlink(t) => g.pc = "unlink") /\ (RmDone(t) => g.pc = "rmloop")
      /\ (RmEnter(t) => g.pc = "rm")
  BY Here DEF Inv, Unlink, RmEnter, RmDone, At
<1>2. g.job.kind # "copy"
  BY <1>1 DEF ThreadOK, Place, Removing
<1>3. \/ fs' = fs
      \/ \E p \in DOMAIN fs : /\ Inside(g.job, p) /\ fs' = Unlinked(fs, {p})
                              /\ fs[p] # Dir \/ Children(p) = {}
  <2>1. CASE Unlink(t) \/ RmEnter(t)
    <3>1. Inside(g.job, g.from)
      BY <1>1, <2>1 DEF ThreadOK, Place, AtPath, Pasting
    <3>2. fs' = fs \/ (FileExists(g.from) /\ fs' = Unlinked(fs, {g.from}))
      BY <2>1 DEF Unlink, RmEnter
    <3>3. FileExists(g.from) => g.from \in DOMAIN fs /\ fs[g.from] # Dir
      BY DEF FileExists, Exists, Dir
    <3> QED
      BY <3>1, <3>2, <3>3
  <2>2. CASE RmDone(t)
    <3>1. Inside(g.job, Top(t).src)
      BY <1>1, <2>2, TopIs DEF ThreadOK, Walk, InDirectory, Levels
    <3>2. fs' = fs \/ (/\ IsDir(Top(t).src) /\ Children(Top(t).src) = {}
                       /\ fs' = Unlinked(fs, {Top(t).src}))
      BY <2>2 DEF RmDone
    <3> QED
      BY <3>1, <3>2 DEF IsDir, Exists
  <2> QED
    BY <2>1, <2>2
<1>4. CASE fs' = fs
  BY <1>1, <1>4 DEF Effect
<1>5. ASSUME NEW p \in DOMAIN fs, Inside(g.job, p), fs' = Unlinked(fs, {p}),
             fs[p] # Dir \/ Children(p) = {}
      PROVE  Effect(t) /\ Tree(fs')
  <2>1. Tree(fs')
    BY <1>1, <1>5, RemovesOne
  <2>2. Takeaway(t, p)
    BY <1>2, <1>5 DEF Takeaway
  <2> QED
    BY <2>1, <2>2 DEF Effect
<1> QED
  BY <1>3, <1>4, <1>5

(* All of it: the devices, the counters and the requests. *)
LEMMA StepInv ==
  ASSUME Inv, NEW t \in Threads, Step(t)
  PROVE  Effect(t) /\ Inv'
<1>1. /\ Tree(fs) /\ bytes_transfered \in Nat /\ bytes_to_download \in Nat
      /\ stop_activity \in BOOLEAN /\ activity_inprogess \in BOOLEAN
      /\ jobs \in [Threads -> SUBSET JobRecord] /\ forfeit \subseteq Data
      /\ ThreadsOK /\ ThreadOK(t, thread[t])
  BY Here DEF Inv
<1> DEFINE Rest1 == /\ bytes_transfered' \in Nat /\ bytes_to_download' \in Nat
                    /\ stop_activity' \in BOOLEAN /\ activity_inprogess' \in BOOLEAN
                    /\ jobs' \in [Threads -> SUBSET JobRecord] /\ forfeit' \subseteq Data
<1>2. ASSUME fs' = fs
      PROVE  Effect(t) /\ Tree(fs')
  BY <1>1, <1>2 DEF Effect
<1>3. ASSUME counters' = counters
      PROVE  bytes_transfered' \in Nat /\ bytes_to_download' \in Nat
  BY <1>1, <1>3 DEF counters
<1>4. ASSUME flags' = flags
      PROVE  stop_activity' \in BOOLEAN /\ activity_inprogess' \in BOOLEAN
  BY <1>1, <1>4 DEF flags
<1>5. ASSUME UNCHANGED <<flags, jobs, forfeit>>, UNCHANGED counters
      PROVE  Rest1
  BY <1>1, <1>3, <1>4, <1>5
<1>6. ASSUME Effect(t) /\ Tree(fs'), ThreadsOK', Rest1
      PROVE  Effect(t) /\ Inv'
  BY <1>6 DEF Inv
<1> HIDE DEF Rest1
<1>7. CASE NextItem(t)
  <2>1. UNCHANGED <<fs, bytes_transfered, flags, jobs, forfeit>>
    BY <1>7 DEF NextItem
  <2>2. bytes_to_download' \in Nat
    <3>1. PICK p \in thread[t].items :
            \/ bytes_to_download' = bytes_to_download
            \/ t \in Worker /\ bytes_to_download' = thread[t].was[p].blocks
      <4> DEFINE pc(q) == IF Kind(t) = "remove" THEN "rm"
                          ELSE IF Skipped(t, Item(t, q)) THEN "items"
                          ELSE IF Item(t, q).isDir THEN "enter"
                          ELSE IF t \in Worker THEN "file" ELSE Kind(t)
      <4>1. PICK p \in thread[t].items :
              bytes_to_download' = IF pc(p) = "file" THEN thread[t].was[p].blocks
                                   ELSE bytes_to_download
        BY <1>7 DEF NextItem
      <4>2. pc(p) = "file" => t \in Worker
        <5>1. Kind(t) # "file"
          BY <1>1 DEF ThreadOK, Errand, Kind
        <5> QED
          BY <5>1
      <4> QED
        BY <4>1, <4>2
    <3>2. t \in Worker => p \in DOMAIN thread[t].was /\ Tree(thread[t].was)
      BY <1>1 DEF ThreadOK, Errand
    <3>3. t \in Worker => thread[t].was[p].blocks \in Nat
      BY <3>2, FileIs DEF Tree
    <3> QED
      BY <1>1, <3>1, <3>3
  <2>3. Rest1
    BY <2>1, <2>2, <1>1, <1>4 DEF Rest1
  <2> QED
    BY <1>2, <1>6, <1>7, <2>1, <2>3, ThreadsNextItem
<1>8. CASE NextEntry(t)
  <2>1. UNCHANGED <<fs, flags, jobs, forfeit>>
    BY <1>8 DEF NextEntry
  <2>2. bytes_transfered' \in Nat /\ bytes_to_download' \in Nat
    <3>1. PICK e \in Top(t).todo :
            \/ UNCHANGED counters
            \/ bytes_to_download' = e.size /\ bytes_transfered' = 0
      BY <1>8 DEF NextEntry
    <3>2. thread[t].stack # <<>> /\ thread[t].job.items \subseteq Path
      BY <1>1, <1>8 DEF NextEntry, At, ThreadOK, Walk, InDirectory, Errand
    <3>3. e.size \in Nat
      BY <1>1, <3>2, TopIs, EntryInside
    <3> QED
      BY <1>3, <3>1, <3>3
  <2>3. Rest1
    BY <2>1, <2>2, <1>1, <1>4 DEF Rest1
  <2> QED
    BY <1>2, <1>6, <1>8, <2>1, <2>3, ThreadsNextEntry
<1>9. CASE ItemDone(t) \/ RmNext(t) \/ RmTest(t) \/ EnterStopped(t) \/ EnterRefused(t)
           \/ EntriesStopped(t) \/ MoveRefused(t) \/ MoveCopies(t)
  <2>1. fs' = fs /\ UNCHANGED <<flags, jobs, forfeit>> /\ UNCHANGED counters
    BY <1>9 DEF ItemDone, RmNext, RmTest, EnterStopped, EnterRefused, EntriesStopped,
                MoveRefused, MoveCopies
  <2>2. ThreadsOK'
    BY <1>9, ThreadsItemDone, ThreadsRmNext, ThreadsRm, ThreadsReturn, ThreadsLeave,
       ThreadsFile
  <2> QED
    BY <1>2, <1>5, <1>6, <2>1, <2>2
<1>10. CASE Finish(t) \/ File(t) \/ Answer(t)
  <2>1. fs' = fs /\ UNCHANGED <<counters, stop_activity, jobs, forfeit>>
    BY <1>10 DEF Finish, File, Answer
  <2>2. activity_inprogess' \in BOOLEAN
    <3>1. activity_inprogess' \in {TRUE, FALSE, activity_inprogess}
      <4>1. CASE Finish(t)
        BY <4>1 DEF Finish
      <4>2. CASE Answer(t)
        BY <4>2 DEF Answer
      <4>3. CASE File(t)
        <5> DEFINE there == FileExists(thread[t].to)
        <5>1. CASE there /\ Overwrite(t) = "PROMPT"
          BY <4>3, <5>1 DEF File
        <5>2. CASE there /\ Overwrite(t) = "NONE"
          BY <4>3, <5>2 DEF File
        <5>3. CASE ~(there /\ Overwrite(t) = "PROMPT") /\ ~(there /\ Overwrite(t) = "NONE")
          BY <4>3, <5>3 DEF File
        <5> QED
          BY <5>1, <5>2, <5>3
      <4> QED
        BY <1>10, <4>1, <4>2, <4>3
    <3> QED
      BY <1>1, <3>1
  <2>3. Rest1
    BY <2>1, <2>2, <1>1, <1>3 DEF Rest1
  <2> QED
    BY <1>2, <1>6, <1>10, <2>1, <2>3, ThreadsFinish, ThreadsFile
<1>11. CASE EnterListed(t) \/ EnterUnmade(t) \/ EntriesDone(t) \/ CopyNothing(t)
            \/ CopyTest(t) \/ Unlink(t) \/ RmDone(t)
  <2>1. UNCHANGED <<flags, jobs, forfeit>> /\ UNCHANGED counters
    BY <1>11 DEF EnterListed, EnterUnmade, EntriesDone, CopyNothing, CopyTest, Unlink, RmDone
  <2>2. ThreadsOK'
    BY <1>11, ThreadsEnter, ThreadsLeave, ThreadsReturn, ThreadsCopyTest, ThreadsRm
  <2>3. Effect(t) /\ Tree(fs')
    BY <1>11, EnterEffect, EntriesDoneEffect, CopyEffect, BlockEffect, RemoveEffect
  <2> QED
    BY <1>5, <1>6, <2>1, <2>2, <2>3
<1>12. CASE MoveRenamed(t)
  <2>1. UNCHANGED <<flags, jobs>> /\ UNCHANGED counters /\ forfeit' \subseteq Data
    BY <1>1, <1>12 DEF MoveRenamed, Overwritten
  <2>2. Rest1
    BY <1>1, <1>3, <1>4, <2>1 DEF Rest1
  <2> QED
    BY <1>6, <1>12, <2>2, ThreadsReturn, MoveEffect
<1>13. CASE CopyBegin(t)
  <2>1. UNCHANGED <<flags, jobs>> /\ forfeit' \subseteq Data
    BY <1>1, <1>13 DEF CopyBegin, Overwritten
  <2>2. bytes_to_download' \in Nat /\ bytes_transfered' \in Nat
    <3>1. FileExists(thread[t].from) /\ bytes_to_download' = fs[thread[t].from].blocks
          /\ bytes_transfered' \in {0, bytes_transfered}
      BY <1>13 DEF CopyBegin
    <3> QED
      BY <1>1, <3>1, FileIs DEF FileExists, Exists, Tree
  <2>3. Rest1
    BY <1>1, <1>4, <2>1, <2>2 DEF Rest1
  <2> QED
    BY <1>6, <1>13, <2>3, ThreadsCopyBegin, CopyEffect
<1>14. CASE CopyBlock(t)
  <2>1. UNCHANGED <<bytes_to_download, flags, jobs, forfeit>>
    BY <1>14 DEF CopyBlock
  <2>2. bytes_transfered' \in Nat
    <3> DEFINE more == thread[t].block < Source(t)
               block == IF more THEN thread[t].block + 1 ELSE thread[t].block
    <3>1. \/ bytes_transfered' = bytes_transfered + (block - thread[t].block)
          \/ bytes_transfered' = bytes_transfered
      BY <1>14 DEF CopyBlock
    <3>2. thread[t].block \in Nat
      BY <1>1 DEF ThreadOK, Shape
    <3>3. block - thread[t].block \in {0, 1}
      BY <3>2
    <3> HIDE DEF block
    <3> QED
      BY <1>1, <3>1, <3>3
  <2>3. Rest1
    BY <1>1, <1>4, <2>1, <2>2 DEF Rest1
  <2> QED
    BY <1>6, <1>14, <2>3, ThreadsCopyBlock, BlockEffect
<1>15. CASE RmEnter(t)
  <2>1. UNCHANGED <<flags, jobs>> /\ UNCHANGED counters
    BY <1>15 DEF RmEnter
  <2>2. forfeit' \subseteq Data
    <3>1. forfeit' = forfeit \/ (FileExists(thread[t].from) /\ forfeit' = forfeit \cup Asked(t))
      BY <1>15 DEF RmEnter
    <3>2. FileExists(thread[t].from) => Asked(t) \subseteq Data
      BY <1>1, FileIs DEF Asked, FileExists, Exists, Tree
    <3> QED
      BY <1>1, <3>1, <3>2
  <2>3. Rest1
    BY <1>1, <1>3, <1>4, <2>1, <2>2 DEF Rest1
  <2> QED
    BY <1>6, <1>15, <2>3, ThreadsRm, RemoveEffect
<1>16. CASE CopyUnmade(t)
  <2>1. UNCHANGED <<bytes_transfered, flags, jobs, forfeit>>
    BY <1>16 DEF CopyUnmade
  <2>2. bytes_to_download' \in Nat
    <3>1. \/ bytes_to_download' = bytes_to_download
          \/ /\ FileExists(thread[t].from)
             /\ bytes_to_download' = fs[thread[t].from].blocks
      BY <1>16 DEF CopyUnmade
    <3> QED
      BY <1>1, <3>1, FileIs DEF FileExists, Exists, Tree
  <2>3. Rest1
    BY <1>1, <1>4, <2>1, <2>2 DEF Rest1
  <2> QED
    BY <1>6, <1>16, <2>3, ThreadsReturn, UnmadeEffect
<1>17. CASE ReadFails(t)
  <2>1. fs' = fs /\ UNCHANGED <<flags, jobs, forfeit>> /\ UNCHANGED counters
    BY <1>17 DEF ReadFails
  <2> QED
    BY <1>2, <1>5, <1>6, <1>17, <2>1, ThreadsReadFails
<1> QED
  BY <1>7, <1>8, <1>9, <1>10, <1>11, <1>12, <1>13, <1>14, <1>15, <1>16, <1>17 DEF Step

LEMMA BeginInv ==
  ASSUME Inv, NEW t \in Threads, Begin(t)
  PROVE  Inv'
<1>1. UNCHANGED <<fs, counters, forfeit>>
  BY DEF Begin
<1>2. stop_activity' \in BOOLEAN /\ activity_inprogess' \in BOOLEAN
  <2>1. CASE t \in Worker
    BY <2>1 DEF Begin
  <2>2. CASE t \notin Worker
    BY <2>2 DEF Begin, flags, Inv
  <2> QED
    BY <2>1, <2>2
<1>3. ThreadsOK' /\ jobs' \in [Threads -> SUBSET JobRecord]
  BY ThreadsBegin
<1>4. bytes_transfered' \in Nat /\ bytes_to_download' \in Nat
  BY <1>1 DEF counters, Inv
<1>5. Tree(fs') /\ forfeit' \subseteq Data
  BY <1>1 DEF Inv
<1> QED
  BY <1>2, <1>3, <1>4, <1>5 DEF Inv

LEMMA CancelInv ==
  ASSUME Inv, Cancel
  PROVE  Inv'
<1>1. UNCHANGED <<fs, counters, activity_inprogess, thread, jobs, forfeit>>
      /\ stop_activity' \in BOOLEAN
  BY DEF Cancel
<1>2. ThreadsOK'
  BY <1>1 DEF Inv, ThreadsOK
<1> QED
  BY <1>1, <1>2 DEF Inv, counters

LEMMA NextInv == Inv /\ [Next]_vars => Inv'
<1> SUFFICES ASSUME Inv, [Next]_vars PROVE Inv'
  OBVIOUS
<1>1. CASE UNCHANGED vars
  <2>1. ThreadsOK'
    BY <1>1 DEF vars, Inv, ThreadsOK
  <2> QED
    BY <1>1, <2>1 DEF vars, Inv
<1>2. CASE Cancel
  BY <1>2, CancelInv
<1>3. ASSUME NEW t \in Threads, Begin(t)
      PROVE  Inv'
  BY <1>3, BeginInv
<1>4. ASSUME NEW t \in Threads, Step(t)
      PROVE  Inv'
  BY <1>4, StepInv
<1> QED
  BY <1>1, <1>2, <1>3, <1>4 DEF Next

LEMMA TreesAre ==
  ASSUME NEW f \in Trees
  PROVE  /\ Tree(f)
         /\ \A p \in DOMAIN f : f[p] = Dir \/ \E d \in Data : f[p] = Whole(d)
<1>1. /\ DOMAIN f \subseteq Path
      /\ \A p \in DOMAIN f : /\ f[p] \in {Dir} \cup {Whole(d) : d \in Data}
                             /\ \A q \in Above(p) : q \in DOMAIN f /\ f[q] = Dir
  BY FileOpsAssumption DEF FileOpsAssumption
<1>2. \A p \in DOMAIN f : f[p] = Dir \/ \E d \in Data : f[p] = Whole(d)
  BY <1>1
<1>3. ASSUME NEW d \in Data
      PROVE  IsPart(Whole(d))
  <2>1. Size[d] \in 0..Size[d]
    BY FileOpsAssumption DEF FileOpsAssumption
  <2> QED
    BY <2>1 DEF IsPart, Whole
<1>4. \A p \in DOMAIN f : f[p] = Dir \/ IsPart(f[p])
  BY <1>2, <1>3
<1>5. \A p \in DOMAIN f : \A q \in Path : IsPrefix(q, p) /\ q # p =>
        q \in DOMAIN f /\ f[q] = Dir
  BY <1>1, AboveIs
<1> QED
  BY <1>1, <1>2, <1>4, <1>5 DEF Tree

LEMMA InitInv == Init => Inv
<1> SUFFICES ASSUME Init PROVE Inv
  OBVIOUS
<1>1. /\ fs \in Trees /\ thread = [t \in Threads |-> Idle] /\ jobs \in Jobs
      /\ bytes_transfered = 0 /\ bytes_to_download = 0 /\ forfeit = {}
      /\ stop_activity = FALSE /\ activity_inprogess = FALSE
  BY DEF Init
<1>2. Tree(fs)
  BY <1>1, TreesAre
<1>3. jobs \in [Threads -> SUBSET JobRecord]
  BY <1>1, FileOpsAssumption DEF FileOpsAssumption
<1>4. <<>> \in Seq(Name) /\ Tree(<<>>)
  <2>1. DOMAIN <<>> = {}
    OBVIOUS
  <2> QED
    BY <2>1 DEF Tree
<1>5. Shape(Idle)
  <2>1. Idle = [f \in Fields |-> Idle[f]]
    BY DEF Idle, Fields
  <2>2. Idle.pc \in Pcs /\ Idle.ret \in {-1, 0, 1} /\ Idle.block \in Nat
        /\ Idle.from = <<>> /\ Idle.to = <<>>
    BY DEF Idle, Pcs
  <2>3. Idle.alone \in BOOLEAN /\ Idle.plain \in BOOLEAN /\ Idle.failed \in BOOLEAN
    BY DEF Idle
  <2> QED
    BY <2>1, <2>2, <2>3, <1>4 DEF Shape
<1>6. /\ Idle.pc = "idle" /\ Idle.job = NoJob /\ Idle.items = {} /\ Idle.was = <<>>
      /\ Idle.stack = <<>>
  BY DEF Idle
<1>7. ASSUME NEW t \in Threads
      PROVE  ThreadOK(t, Idle)
  <2>1. Errand(t, Idle)
    BY <1>4, <1>6 DEF Errand, NoJob
  <2>2. Place(t, Idle)
    BY <1>6 DEF Place, AtPath, Pasting, Removing
  <2>3. Walk(Idle)
    BY <1>6 DEF Walk, InDirectory
  <2> QED
    BY <1>5, <2>1, <2>2, <2>3 DEF ThreadOK
<1>8. ThreadsOK
  BY <1>1, <1>7 DEF ThreadsOK
<1> QED
  BY <1>1, <1>2, <1>3, <1>8 DEF Inv

LEMMA InvTypeOK == Inv => TypeOK
<1> SUFFICES ASSUME Inv PROVE TypeOK
  OBVIOUS
<1>1. Tree(fs)
  BY DEF Inv
<1>2. \A p \in DOMAIN fs :
        fs[p] # Dir => fs[p].of \in Data /\ fs[p].blocks \in 0..Size[fs[p].of]
  BY <1>1, FileIs DEF Tree
<1>3. \A p \in DOMAIN fs : \A q \in Above(p) : IsDir(q)
  BY <1>1, AboveIs DEF Tree, IsDir, Exists, Dir
<1>4. bytes_transfered \in Nat /\ bytes_to_download \in Nat
      /\ {stop_activity, activity_inprogess} \subseteq BOOLEAN /\ forfeit \subseteq Data
  BY DEF Inv
<1>5. ASSUME NEW t \in Threads
      PROVE  /\ thread[t].pc \in {"idle", "items", "enter", "entries", "file", "ask", "move",
                                  "copy", "block", "test", "unlink", "done", "rm", "rmloop",
                                  "rmtest"}
             /\ thread[t].ret \in {-1, 0, 1}
             /\ thread[t].pc \in {"block", "test"} =>
                  thread[t].data \in Data /\ thread[t].block \in 0..Size[thread[t].data]
             /\ \A i \in DOMAIN thread[t].stack :
                  \A e \in thread[t].stack[i].todo : Front(e.path) = thread[t].stack[i].src
  <2>1. Shape(thread[t]) /\ Place(t, thread[t]) /\ Walk(thread[t])
    BY Here DEF Inv
  <2>2. ASSUME NEW i \in DOMAIN thread[t].stack
        PROVE  thread[t].stack[i] \in Levels(thread[t].job)
    BY <2>1, LenProperties, ElementOfSeq DEF Walk
  <2>3. \A i \in DOMAIN thread[t].stack :
          \A e \in thread[t].stack[i].todo : Front(e.path) = thread[t].stack[i].src
    BY <2>2 DEF Levels
  <2>4. /\ thread[t].pc \in {"block", "test"} =>
             thread[t].data \in Data /\ thread[t].block \in 0..Size[thread[t].data]
        /\ thread[t].ret \in {-1, 0, 1}
    BY <2>1 DEF Place, Shape
  <2>5. thread[t].pc \in {"idle", "items", "enter", "entries", "file", "ask", "move",
                          "copy", "block", "test", "unlink", "done", "rm", "rmloop",
                          "rmtest"}
    BY <2>1 DEF Shape, Pcs, Pasting, Removing
  <2> QED
    BY <2>3, <2>4, <2>5
<1> QED
  BY <1>2, <1>3, <1>4, <1>5 DEF TypeOK

(* The devices always hold trees: every file and directory lies in a           *)
(* directory, through all moves, renames and removals of all threads; no copy   *)
(* is longer than its source; a walk lists what lies in the directory it is in. *)
THEOREM TypeCorrect == Spec => []TypeOK
<1>1. Spec => []Inv
  BY InitInv, NextInv, PTL DEF Spec
<1> QED
  BY <1>1, InvTypeOK, PTL

-----------------------------------------------------------------------------
(***************************************************************************)
(* A thread's step changes no other thread's record but to note that it    *)
(* is no longer alone, and keeps its own job.  The worker comes to write a  *)
(* file only by way of CopyOrMoveLocalFile, which has looked at it, and     *)
(* every thread is in the loop of FS::Copy only by way of its beginning.    *)
(***************************************************************************)
Writing == {"move", "copy", "block", "test", "unlink"}
InCopy == {"block", "test", "unlink"}

Onward(t, r) ==
  /\ DOMAIN r \subseteq Fields \ {"job", "was", "alone"}
  /\ "pc" \in DOMAIN r
  /\ r["pc"] \in InCopy => thread[t].pc \in {"copy", "block", "test"}
  /\ r["pc"] \in Writing /\ t \in Worker =>
       /\ "to" \notin DOMAIN r
       /\ \/ thread[t].pc \in Writing \cup {"ask"}
          \/ /\ thread[t].pc = "file"
             /\ ~(FileExists(thread[t].to) /\ thread[t].job.overwrite = "NONE")

LEMMA OddOnward ==
  ASSUME NEW t, NEW r, Onward(t, r)
  PROVE  Onward(t, r ++ Odd)
<1>1. DOMAIN Odd = {"plain"}
  BY DEF Odd
<1>2. /\ DOMAIN (r ++ Odd) = DOMAIN r \cup {"plain"}
      /\ (r ++ Odd)["pc"] = r["pc"]
  BY <1>1 DEF Onward, ++
<1>3. DOMAIN (r ++ Odd) \subseteq Fields \ {"job", "was", "alone"}
  BY <1>2 DEF Onward, Fields
<1> QED
  BY <1>2, <1>3 DEF Onward

LEMMA ElsewhereOnward ==
  ASSUME NEW t, NEW r, DOMAIN r \subseteq Fields \ {"job", "was", "alone"},
         "pc" \in DOMAIN r, r["pc"] \notin Writing
  PROVE  Onward(t, r) /\ Onward(t, r ++ Odd)
BY OddOnward DEF Onward, Writing, InCopy

LEMMA ReturnOnward ==
  ASSUME NEW t, NEW ret
  PROVE  Onward(t, Return(t, ret)) /\ Onward(t, Return(t, ret) ++ Odd)
<1> DEFINE r == Return(t, ret)
<1>1. DOMAIN r \subseteq {"pc", "stack", "ret"} /\ "pc" \in DOMAIN r
      /\ r["pc"] \in {"entries", "done"}
  <2>1. r = [pc |-> "entries"] \/ r = [pc |-> "done", stack |-> <<>>, ret |-> ret]
    BY DEF Return
  <2> HIDE DEF r
  <2> QED
    BY <2>1
<1> HIDE DEF r
<1> QED
  BY <1>1, ElsewhereOnward DEF Fields, Writing, r

LEMMA RmReturnOnward ==
  ASSUME NEW t, NEW ret
  PROVE  Onward(t, RmReturn(t, ret)) /\ Onward(t, RmReturn(t, ret) ++ Odd)
<1> DEFINE r == RmReturn(t, ret)
<1>1. DOMAIN r \subseteq {"pc", "stack", "ret"} /\ "pc" \in DOMAIN r
      /\ r["pc"] \in {"rmtest", "done"}
  <2>1. r = [pc |-> "rmtest"] \/ r = [pc |-> "done", stack |-> <<>>, ret |-> ret]
        \/ r = [pc |-> "done", ret |-> ret]
    BY DEF RmReturn
  <2> HIDE DEF r
  <2> QED
    BY <2>1
<1> HIDE DEF r
<1> QED
  BY <1>1, ElsewhereOnward DEF Fields, Writing, r

LEMMA LeaveOnward ==
  ASSUME NEW t, NEW r \in {Leave(t), RmLeave(t)}
  PROVE  Onward(t, r) /\ Onward(t, r ++ Odd)
<1> DEFINE above == Front(thread[t].stack)
<1>1. \/ r = [pc |-> "done", stack |-> <<>>, ret |-> 1]
      \/ r = [pc |-> "entries", stack |-> above]
      \/ r = [pc |-> "rmtest", stack |-> above]
  BY DEF Leave, RmLeave
<1> HIDE DEF above
<1>2. DOMAIN r \subseteq {"pc", "stack", "ret"} /\ "pc" \in DOMAIN r
      /\ r["pc"] \in {"rmtest", "entries", "done"}
  BY <1>1
<1> QED
  BY <1>2, ElsewhereOnward DEF Fields, Writing

LEMMA StepSets ==
  ASSUME Inv, NEW t \in Threads, Step(t)
  PROVE  \E r : Set(t, r) /\ Onward(t, r)
<1> DEFINE g == thread[t]
           Goal == \E r : Set(t, r) /\ Onward(t, r)
           Own == Fields \ {"job", "was", "alone"}
<1>1. /\ Errand(t, g) /\ Place(t, g)
      /\ Kind(t) \notin InCopy
  BY Here DEF Inv, Errand, Kind, InCopy
<1>2. ASSUME NEW ret, Set(t, Return(t, ret)) \/ Set(t, Return(t, ret) ++ Odd)
      PROVE  Goal
  BY <1>2, ReturnOnward
<1>3. ASSUME NEW pc, pc \notin Writing, Set(t, [pc |-> pc])
      PROVE  Goal
  <2> DEFINE r == [pc |-> pc]
  <2>1. DOMAIN r = {"pc"} /\ r["pc"] = pc
    OBVIOUS
  <2>2. Set(t, r)
    BY <1>3
  <2> HIDE DEF r
  <2> QED
    BY <1>3, <2>1, <2>2, ElsewhereOnward DEF Fields
<1>4. ASSUME NEW pc, Set(t, [pc |-> pc]) \/ Set(t, [pc |-> pc] ++ Odd),
             \/ g.pc \in Writing \cup {"ask"}
             \/ g.pc = "file" /\ ~(FileExists(g.to) /\ g.job.overwrite = "NONE"),
             pc \in InCopy => g.pc \in {"block", "test"}
      PROVE  Goal
  <2> DEFINE r == [pc |-> pc]
  <2>1. DOMAIN r = {"pc"} /\ r["pc"] = pc
    OBVIOUS
  <2>2. Set(t, r) \/ Set(t, r ++ Odd)
    BY <1>4
  <2> HIDE DEF r
  <2>3. Onward(t, r)
    BY <1>4, <2>1 DEF Onward, Fields
  <2> QED
    BY <2>2, <2>3, OddOnward
<1>5. CASE NextItem(t)
  <2> DEFINE to(p) == Into(g.job.dest, p)
             pc(p) == IF Kind(t) = "remove" THEN "rm"
                      ELSE IF Skipped(t, Item(t, p)) THEN "items"
                      ELSE IF Item(t, p).isDir THEN "enter"
                      ELSE IF t \in Worker THEN "file" ELSE Kind(t)
             r(p) == [pc |-> pc(p), items |-> g.items \ {p}, item |-> Item(t, p),
                      from |-> p, to |-> to(p), removing |-> FALSE]
  <2>1. PICK p \in g.items : Set(t, r(p))
    BY <1>5 DEF NextItem
  <2>2. (pc(p) \in Writing => t \notin Worker) /\ pc(p) \notin InCopy
    BY <1>1 DEF Writing, InCopy
  <2> HIDE DEF pc, to
  <2> DEFINE q == r(p)
  <2>3. DOMAIN q = {"pc", "items", "item", "from", "to", "removing"} /\ q["pc"] = pc(p)
    OBVIOUS
  <2>4. Set(t, q)
    BY <2>1
  <2> HIDE DEF q
  <2>5. Onward(t, q)
    BY <2>2, <2>3 DEF Onward, Fields
  <2> QED
    BY <2>4, <2>5
<1>6. CASE ItemDone(t)
  <2> DEFINE fails == g.failed \/ (g.ret = 0 /\ ~g.removing)
             rm == [pc |-> "rm", from |-> g.item.path, removing |-> TRUE]
             next == [pc |-> "items", failed |-> fails]
  <2>1. Set(t, rm) \/ Set(t, next)
    BY <1>6 DEF ItemDone
  <2> HIDE DEF fails
  <2>2. DOMAIN rm = {"pc", "from", "removing"} /\ rm["pc"] = "rm"
        /\ DOMAIN next = {"pc", "failed"} /\ next["pc"] = "items"
    OBVIOUS
  <2> HIDE DEF rm, next
  <2>3. Onward(t, rm) /\ Onward(t, next)
    BY <2>2, ElsewhereOnward DEF Fields, Writing
  <2> QED
    BY <2>1, <2>3
<1>7. CASE Finish(t)
  <2> DEFINE plain == g.plain /\ g.items = {}
             r == [pc |-> "idle", item |-> NoItem, from |-> <<>>, to |-> <<>>, block |-> 0,
                   plain |-> plain]
  <2>1. Set(t, r)
    BY <1>7 DEF Finish
  <2> HIDE DEF plain
  <2>2. DOMAIN r = {"pc", "item", "from", "to", "block", "plain"} /\ r["pc"] = "idle"
    OBVIOUS
  <2> HIDE DEF r
  <2>3. Onward(t, r)
    BY <2>2, ElsewhereOnward DEF Fields, Writing
  <2> QED
    BY <2>1, <2>3
<1>8. CASE EnterStopped(t) \/ EnterRefused(t) \/ MoveRenamed(t) \/ MoveRefused(t)
             \/ CopyNothing(t) \/ CopyUnmade(t) \/ Unlink(t)
  BY <1>2, <1>8 DEF EnterStopped, EnterRefused, MoveRenamed, MoveRefused, CopyNothing,
                    CopyUnmade, Unlink
<1>9. CASE EnterListed(t) \/ EnterUnmade(t)
  <2> DEFINE stack(todo) == Append(g.stack, [src |-> g.from, dest |-> g.to, todo |-> todo])
             r(todo) == [pc |-> "entries", stack |-> stack(todo)]
             renamed == Renames(t) /\ RenameError(g.from, g.to) = "none"
             listed == IF renamed THEN {} ELSE Entries(g.from)
  <2>1. \/ Set(t, r(listed)) \/ Set(t, r({}) ++ Odd)
        \/ \E todo : Set(t, r(todo) ++ Odd)
    <3>1. CASE EnterListed(t)
      BY <3>1 DEF EnterListed
    <3>2. CASE EnterUnmade(t)
      BY <3>2 DEF EnterUnmade
    <3> QED
      BY <1>9, <3>1, <3>2
  <2>2. ASSUME NEW todo
        PROVE  Onward(t, r(todo)) /\ Onward(t, r(todo) ++ Odd)
    <3> HIDE DEF stack
    <3> DEFINE q == r(todo)
    <3>1. DOMAIN q = {"pc", "stack"} /\ q["pc"] = "entries"
      OBVIOUS
    <3> HIDE DEF q
    <3>2. Onward(t, q) /\ Onward(t, q ++ Odd)
      BY <3>1, ElsewhereOnward DEF Fields, Writing
    <3> QED
      BY <3>2 DEF q
  <2> HIDE DEF r, listed
  <2> QED
    BY <2>1, <2>2
<1>10. CASE NextEntry(t)
  <2> DEFINE pc(e) == IF e.isDir THEN "enter" ELSE IF t \in Worker THEN "file" ELSE Kind(t)
             left(e) == Front(g.stack) \o <<[Top(t) EXCEPT !.todo = @ \ {e}]>>
             dest(e) == Into(Top(t).dest, e.path)
  <2>1. PICK e \in Top(t).todo :
          Set(t, [pc |-> pc(e), from |-> e.path, to |-> dest(e), stack |-> left(e)])
    BY <1>10 DEF NextEntry
  <2>2. (pc(e) \in Writing => t \notin Worker) /\ pc(e) \notin InCopy
    BY <1>1 DEF Writing, InCopy
  <2> HIDE DEF pc, left, dest
  <2> DEFINE r == [pc |-> pc(e), from |-> e.path, to |-> dest(e), stack |-> left(e)]
  <2>3. DOMAIN r = {"pc", "from", "to", "stack"} /\ r["pc"] = pc(e)
    OBVIOUS
  <2>4. Set(t, r)
    BY <2>1
  <2> HIDE DEF r
  <2>5. Onward(t, r)
    BY <2>2, <2>3 DEF Onward, Fields
  <2> QED
    BY <2>4, <2>5
<1>11. CASE EntriesStopped(t) \/ EntriesDone(t)
  BY <1>11, LeaveOnward DEF EntriesStopped, EntriesDone
<1>12. CASE File(t)
  <2> DEFINE there == FileExists(g.to)
  <2>1. CASE there /\ Overwrite(t) = "PROMPT"
    <3>1. Set(t, [pc |-> "ask"]) /\ "ask" \notin Writing
      BY <1>12, <2>1 DEF File, Writing
    <3> QED
      BY <3>1, <1>3
  <2>2. CASE there /\ Overwrite(t) = "NONE"
    BY <1>2, <1>12, <2>2 DEF File
  <2>3. CASE ~(there /\ Overwrite(t) = "PROMPT") /\ ~(there /\ Overwrite(t) = "NONE")
    <3>1. Set(t, [pc |-> Kind(t)]) /\ g.pc = "file"
      BY <1>12, <2>3 DEF File, At
    <3>2. ~(FileExists(g.to) /\ g.job.overwrite = "NONE")
      BY <2>3 DEF Overwrite
    <3> QED
      BY <1>1, <1>4, <3>1, <3>2
  <2> QED
    BY <2>1, <2>2, <2>3
<1>13. CASE Answer(t) \/ MoveCopies(t)
  <2>1. g.pc \in Writing \cup {"ask"}
    BY <1>13 DEF Answer, MoveCopies, At, Writing
  <2>2. \/ Set(t, [pc |-> Kind(t)]) \/ Set(t, [pc |-> "copy"])
        \/ Set(t, Return(t, 1) ++ Odd)
    BY <1>13 DEF Answer, MoveCopies
  <2>3. "copy" \notin InCopy
    BY DEF InCopy
  <2> QED
    BY <1>1, <1>2, <1>4, <2>1, <2>2, <2>3
<1>14. CASE CopyBegin(t)
  <2> DEFINE data == fs[g.from].of
             r == [pc |-> "block", data |-> data, block |-> 0]
  <2>1. Set(t, r) \/ Set(t, Return(t, 0) ++ Odd)
    BY <1>14 DEF CopyBegin
  <2>2. g.pc = "copy" /\ g.pc \in Writing
    BY <1>14 DEF CopyBegin, At, Writing
  <2> HIDE DEF data
  <2>3. DOMAIN r = {"pc", "data", "block"}
    OBVIOUS
  <2> HIDE DEF r
  <2>4. Onward(t, r)
    BY <2>2, <2>3 DEF Onward, Fields
  <2> QED
    BY <1>2, <2>1, <2>4
<1>15. CASE CopyBlock(t)
  <2> DEFINE more == g.block < Source(t)
             block == IF more THEN g.block + 1 ELSE g.block
             r == [pc |-> "test", block |-> block]
  <2>1. Set(t, r) \/ Set(t, Return(t, 0) ++ Odd)
    BY <1>15 DEF CopyBlock
  <2>2. g.pc = "block" /\ g.pc \in Writing
    BY <1>15 DEF CopyBlock, At, Writing
  <2> HIDE DEF block
  <2>3. DOMAIN r = {"pc", "block"}
    OBVIOUS
  <2> HIDE DEF r
  <2>4. Onward(t, r)
    BY <2>2, <2>3 DEF Onward, Fields
  <2> QED
    BY <1>2, <2>1, <2>4
<1>16. CASE CopyTest(t)
  <2>1. g.pc = "test" /\ g.pc \in Writing
    BY <1>16 DEF CopyTest, At, Writing
  <2>2. \/ Set(t, [pc |-> "block"])
        \/ Set(t, [pc |-> "unlink"]) \/ Set(t, [pc |-> "unlink"] ++ Odd)
        \/ Set(t, Return(t, 1)) \/ Set(t, Return(t, 1) ++ Odd)
    <3>1. CASE ~Copied(t)
      BY <1>16, <3>1 DEF CopyTest
    <3>2. CASE Copied(t) /\ Kind(t) = "move"
      BY <1>16, <3>2 DEF CopyTest
    <3>3. CASE Copied(t) /\ Kind(t) # "move"
      BY <1>16, <3>3 DEF CopyTest
    <3> QED
      BY <3>1, <3>2, <3>3
  <2> QED
    BY <1>2, <1>4, <2>1, <2>2
<1>17. CASE RmEnter(t)
  <2> DEFINE stack == Append(g.stack, [src |-> g.from, dest |-> <<>>, todo |-> Entries(g.from)])
             r == [pc |-> "rmloop", stack |-> stack]
  <2>1. \/ Set(t, r) \/ Set(t, RmReturn(t, 1)) \/ Set(t, RmReturn(t, 1) ++ Odd)
        \/ Set(t, RmReturn(t, -1) ++ Odd)
    BY <1>17 DEF RmEnter
  <2> HIDE DEF stack
  <2>2. DOMAIN r = {"pc", "stack"} /\ r["pc"] = "rmloop"
    OBVIOUS
  <2> HIDE DEF r
  <2>3. Onward(t, r)
    BY <2>2, ElsewhereOnward DEF Fields, Writing
  <2> QED
    BY <2>1, <2>3, RmReturnOnward
<1>18. CASE RmNext(t)
  <2> DEFINE left(e) == Front(g.stack) \o <<[Top(t) EXCEPT !.todo = @ \ {e}]>>
  <2>1. PICK e \in Top(t).todo : Set(t, [pc |-> "rm", from |-> e.path, stack |-> left(e)])
    BY <1>18 DEF RmNext
  <2> HIDE DEF left
  <2> DEFINE r == [pc |-> "rm", from |-> e.path, stack |-> left(e)]
  <2>2. DOMAIN r = {"pc", "from", "stack"} /\ r["pc"] = "rm"
    OBVIOUS
  <2>3. Set(t, r)
    BY <2>1
  <2> HIDE DEF r
  <2> QED
    BY <2>2, <2>3, ElsewhereOnward DEF Fields, Writing
<1>19. CASE RmTest(t) \/ RmDone(t)
  <2> DEFINE stop == [pc |-> "done", stack |-> <<>>, ret |-> 0]
             fail == [pc |-> "done", stack |-> <<>>, ret |-> -1]
  <2>1. \/ Set(t, stop ++ Odd) \/ Set(t, fail ++ Odd) \/ Set(t, [pc |-> "rmloop"])
        \/ Set(t, RmLeave(t))
    BY <1>19 DEF RmTest, RmDone
  <2>2. DOMAIN stop = {"pc", "stack", "ret"} /\ stop["pc"] = "done"
        /\ DOMAIN fail = {"pc", "stack", "ret"} /\ fail["pc"] = "done"
    OBVIOUS
  <2> HIDE DEF stop, fail
  <2>3. Onward(t, stop ++ Odd) /\ Onward(t, fail ++ Odd)
    BY <2>2, ElsewhereOnward DEF Fields, Writing
  <2> DEFINE r == [pc |-> "rmloop"]
  <2>4. DOMAIN r = {"pc"} /\ r["pc"] = "rmloop"
    OBVIOUS
  <2> HIDE DEF r
  <2>5. Onward(t, r)
    BY <2>4, ElsewhereOnward DEF Fields, Writing
  <2>6. \/ Set(t, stop ++ Odd) \/ Set(t, fail ++ Odd) \/ Set(t, r)
        \/ Set(t, RmLeave(t))
    BY <2>1 DEF r
  <2> QED
    BY <2>3, <2>5, <2>6, LeaveOnward
<1>20. CASE ReadFails(t)
  <2>1. g.pc = "block" /\ g.pc \in Writing /\ Set(t, [pc |-> "test"])
    BY <1>20 DEF ReadFails, At, Writing
  <2> QED
    BY <1>4, <2>1
<1> QED
  BY <1>5, <1>6, <1>7, <1>8, <1>9, <1>10, <1>11, <1>12, <1>13, <1>14, <1>15, <1>16, <1>17,
     <1>18, <1>19, <1>20 DEF Step

LEMMA OthersNote ==
  ASSUME Inv, NEW t \in Threads, NEW u \in Threads, u # t, Step(t) \/ Begin(t)
  PROVE  thread'[u] = [thread[u] EXCEPT !.alone = FALSE]
<1>1. \E r : Set(t, r)
  BY StepSets DEF Begin
<1> QED
  BY <1>1 DEF Set

LEMMA OthersSame ==
  ASSUME Inv, NEW t \in Threads, NEW u \in Threads, u # t, Step(t),
         thread'[u].alone = thread[u].alone
  PROVE  thread'[u] = thread[u]
<1> DEFINE g == thread[u]
<1>1. g = [f \in Fields |-> g[f]]
  BY Here DEF Shape, Inv
<1>2. thread'[u] = [g EXCEPT !.alone = FALSE]
  BY OthersNote
<1> HIDE DEF g
<1>3. thread'[u].alone = FALSE /\ "alone" \in Fields
  BY <1>1, <1>2 DEF Fields
<1>4. g.alone = FALSE
  BY <1>3 DEF g
<1>5. [g EXCEPT !.alone = FALSE] = g
  BY <1>1, <1>3, <1>4
<1> QED
  BY <1>2, <1>5 DEF g

LEMMA EffectTakes ==
  ASSUME Inv, NEW t \in Threads, Effect(t), NEW p \in DOMAIN fs, p \notin DOMAIN fs'
  PROVE  thread[t].job.kind # "copy" /\ Inside(thread[t].job, p)
<1> DEFINE g == thread[t]
<1>1. Tree(fs) /\ ThreadOK(t, g) /\ g.job.items \subseteq Path
  BY Here DEF Inv, Errand
<1>2. CASE fs' = fs \/ Adds(fs, fs') \/ Creates(t)
  BY <1>2 DEF Adds, Creates, Opens
<1>3. ASSUME NEW n \in Nat, Resizes(t, n)
      PROVE  FALSE
  BY <1>3 DEF Resizes
<1>4. ASSUME NEW q \in DOMAIN fs, Takeaway(t, q)
      PROVE  g.job.kind # "copy" /\ Inside(g.job, p)
  <2>1. p = q
    BY <1>4 DEF Takeaway, Unlinked
  <2> QED
    BY <1>4, <2>1 DEF Takeaway
<1>5. CASE Renames1(t)
  <2>1. RenameMoves(g.from, g.to, fs') /\ g.job.kind = "move" /\ g.pc \in {"move", "enter"}
    BY <1>5 DEF Renames1
  <2>2. p \in Under(g.from)
    BY <2>1 DEF RenameMoves, Kept
  <2>3. PICK i \in g.job.items : IsPrefix(i, g.from)
    BY <1>1, <2>1 DEF ThreadOK, Place, AtPath, Pasting, Inside
  <2>4. IsPrefix(g.from, p) /\ p \in Seq(Name) /\ g.from \in Seq(Name) /\ i \in Seq(Name)
    BY <1>1, <2>2 DEF Under, Tree, Path, ThreadOK, Shape
  <2>5. IsPrefix(i, p)
    BY <2>3, <2>4, PrefixTrans
  <2> QED
    BY <2>1, <2>5 DEF Inside
<1> QED
  BY <1>2, <1>3, <1>4, <1>5 DEF Effect

(* What no job names survives: a delete or a cut takes away nothing outside its *)
(* items, a copy nothing at all, whatever the other threads do to the tree that *)
(* the walk listed before.                                                      *)
THEOREM OnlyItems == Spec => OnlyItemsGo
<1> DEFINE Goes == \A t \in Threads : \A p \in DOMAIN fs :
             thread'[t] # thread[t] /\ thread'[t].alone = thread[t].alone
               /\ p \notin DOMAIN fs' =>
               /\ Kind(t) # "copy"
               /\ \E i \in thread[t].job.items : IsPrefix(i, p)
<1>1. Inv /\ [Next]_vars => [Goes]_vars
  <2> SUFFICES ASSUME Inv, Next,
                      NEW t \in Threads, NEW p \in DOMAIN fs, thread'[t] # thread[t],
                      thread'[t].alone = thread[t].alone, p \notin DOMAIN fs'
               PROVE  /\ Kind(t) # "copy"
                      /\ \E i \in thread[t].job.items : IsPrefix(i, p)
    OBVIOUS
  <2>1. ~Cancel
    BY DEF Cancel
  <2>2. ASSUME NEW u \in Threads, Begin(u)
        PROVE  FALSE
    BY <2>2 DEF Begin
  <2>3. PICK u \in Threads : Step(u)
    BY <2>1, <2>2 DEF Next
  <2>4. u = t
    BY <2>3, OthersSame
  <2>5. Effect(t)
    BY <2>3, <2>4, StepInv
  <2> QED
    BY <2>5, EffectTakes DEF Kind, Inside
<1>2. Spec => []Inv
  BY InitInv, NextInv, PTL DEF Spec
<1>3. Spec => [][Goes]_vars
  BY <1>1, <1>2, PTL DEF Spec
<1> QED
  BY <1>3 DEF OnlyItemsGo


-----------------------------------------------------------------------------
(***************************************************************************)
(* "Don't overwrite".  The files at the destination that are not items      *)
(* themselves are there as the job found them, and the worker is never at   *)
(* work on one: it comes to write only at a path that it has found free,    *)
(* and nobody else has made a file there since.                             *)
(***************************************************************************)
Protected(r) ==
  {q \in DOMAIN r.was : IsPrefix(r.job.dest, q) /\ r.was[q] # Dir /\ ~Inside(r.job, q)}

Untouched(r) ==
  r.job.overwrite = "NONE" /\ r.alone =>
    /\ \A q \in Protected(r) : q \in DOMAIN fs /\ fs[q] = r.was[q]
    /\ r.pc \in Writing => r.to \notin Protected(r)

SkipInv == \A t \in Worker : Untouched(thread[t])

LEMMA EffectSpares ==
  ASSUME Inv, NEW t \in Threads, Effect(t), Untouched(thread[t]),
         thread[t].job.overwrite = "NONE", thread[t].alone, NEW q \in Protected(thread[t])
  PROVE  q \in DOMAIN fs' /\ fs'[q] = thread[t].was[q]
<1> DEFINE g == thread[t]
<1>1. Tree(fs) /\ ThreadOK(t, g) /\ g.job.items \subseteq Path
  BY Here DEF Inv, Errand
<1>2. q \in DOMAIN fs /\ fs[q] = g.was[q] /\ fs[q] # Dir /\ ~Inside(g.job, q) /\ q \in Seq(Name)
  BY <1>1 DEF Untouched, Protected, Tree, Path
<1>3. g.pc \in Writing => q # g.to
  BY DEF Untouched
<1>4. CASE fs' = fs \/ Adds(fs, fs')
  BY <1>2, <1>4 DEF Adds
<1>5. ASSUME NEW p \in DOMAIN fs, Takeaway(t, p)
      PROVE  q \in DOMAIN fs' /\ fs'[q] = fs[q]
  BY <1>2, <1>5 DEF Takeaway, Unlinked
<1>6. CASE Renames1(t)
  <2>1. RenameMoves(g.from, g.to, fs') /\ g.pc \in {"move", "enter"}
        /\ (g.pc = "enter" => g.to \notin DOMAIN fs)
    BY <1>6 DEF Renames1
  <2>2. PICK i \in g.job.items : IsPrefix(i, g.from)
    BY <1>1, <2>1 DEF ThreadOK, Place, AtPath, Pasting, Inside
  <2>3. g.from \in Seq(Name) /\ i \in Seq(Name)
    BY <1>1 DEF ThreadOK, Shape, Path
  <2>4. ~IsPrefix(g.from, q)
    BY <1>2, <2>2, <2>3, PrefixTrans DEF Inside
  <2>5. q # g.to
    BY <1>2, <1>3, <2>1 DEF Writing
  <2>6. q \in Kept(g.from, g.to)
    BY <1>2, <2>1, <2>4, <2>5 DEF Kept, Under, RenameMoves
  <2> QED
    BY <1>2, <2>1, <2>6 DEF RenameMoves
<1>7. CASE Creates(t)
  BY <1>2, <1>3, <1>7 DEF Creates, Opens, Writing
<1>8. ASSUME NEW n \in Nat, Resizes(t, n)
      PROVE  q \in DOMAIN fs' /\ fs'[q] = fs[q]
  BY <1>2, <1>3, <1>8 DEF Resizes, Writing
<1> QED
  BY <1>2, <1>4, <1>5, <1>6, <1>7, <1>8 DEF Effect

LEMMA OwnUntouched ==
  ASSUME Inv, NEW t \in Worker, Step(t), Untouched(thread[t])
  PROVE  Untouched(thread[t])'
<1> DEFINE g == thread[t]
           n == thread'[t]
<1>1. t \in Threads /\ ThreadOK(t, g) /\ Tree(g.was)
  BY Here DEF Inv, Threads, Errand
<1>2. PICK r : Set(t, r) /\ Onward(t, r)
  BY <1>1, StepSets
<1>3. g = [f \in Fields |-> g[f]]
  BY <1>1 DEF ThreadOK, Shape
<1>4. n = r ++ g
  BY <1>1, <1>2 DEF Set
<1> HIDE DEF g
<1>5. \A f \in Fields : n[f] = IF f \in DOMAIN r THEN r[f] ELSE g[f]
  BY <1>2, <1>3, <1>4, Merged DEF Onward
<1> HIDE DEF n
<1>6. n.job = g.job /\ n.was = g.was /\ n.alone = g.alone /\ n.pc = r["pc"]
      /\ ("to" \notin DOMAIN r => n.to = g.to)
  BY <1>2, <1>5 DEF Onward, Fields
<1>7. Protected(n) = Protected(g)
  BY <1>6 DEF Protected
<1>8. SUFFICES ASSUME g.job.overwrite = "NONE", g.alone
               PROVE  /\ \A q \in Protected(g) : q \in DOMAIN fs' /\ fs'[q] = g.was[q]
                      /\ n.pc \in Writing => n.to \notin Protected(g)
  BY <1>6, <1>7 DEF Untouched, n
<1>9. \A q \in Protected(g) : q \in DOMAIN fs' /\ fs'[q] = g.was[q]
  BY <1>1, <1>8, StepInv, EffectSpares DEF g
<1>10. ASSUME n.pc \in Writing
       PROVE  n.to \notin Protected(g)
  <2>1. /\ n.to = g.to
        /\ \/ g.pc \in Writing \cup {"ask"}
           \/ g.pc = "file" /\ ~(FileExists(g.to) /\ g.job.overwrite = "NONE")
    BY <1>2, <1>6, <1>10 DEF Onward, g
  <2>2. Untouched(g) /\ Place(t, g)
    BY <1>1 DEF g, ThreadOK
  <2>3. CASE g.pc \in Writing
    BY <1>8, <2>1, <2>2, <2>3 DEF Untouched
  <2>4. CASE g.pc = "ask"
    BY <1>8, <2>2, <2>4 DEF Place
  <2>5. CASE g.pc = "file" /\ ~FileExists(g.to)
    <3>1. ASSUME g.to \in Protected(g)
          PROVE  FALSE
      <4>1. g.to \in DOMAIN fs /\ fs[g.to] = g.was[g.to] /\ g.was[g.to] # Dir
            /\ g.to \in DOMAIN g.was
        BY <1>8, <2>2, <3>1 DEF Untouched, Protected
      <4>2. g.was[g.to].of # "dir"
        BY <1>1, <4>1, FileIs DEF Tree
      <4> QED
        BY <2>5, <4>1, <4>2 DEF FileExists, Exists
    <3> QED
      BY <2>1, <3>1
  <2> QED
    BY <1>8, <2>1, <2>3, <2>4, <2>5
<1> QED
  BY <1>9, <1>10

LEMMA SkipNext == Inv /\ SkipInv /\ [Next]_vars => SkipInv'
<1> SUFFICES ASSUME Inv, SkipInv, [Next]_vars, NEW t \in Worker
             PROVE  Untouched(thread[t])'
  BY DEF SkipInv
<1>1. t \in Threads /\ Untouched(thread[t])
  BY DEF SkipInv, Threads
<1>2. CASE fs' = fs /\ thread' = thread
  BY <1>1, <1>2 DEF Untouched
<1>3. ASSUME NEW u \in Threads, u # t, Step(u) \/ Begin(u)
      PROVE  Untouched(thread[t])'
  <2>1. thread'[t] = [thread[t] EXCEPT !.alone = FALSE]
    BY <1>1, <1>3, OthersNote
  <2>2. thread[t] = [f \in Fields |-> thread[t][f]]
    BY <1>1, Here DEF Inv, Shape
  <2>3. thread'[t].alone = FALSE
    BY <2>1, <2>2 DEF Fields
  <2> QED
    BY <2>3 DEF Untouched
<1>4. CASE Begin(t)
  <2>1. PICK job \in jobs[t] :
          Set(t, [Idle EXCEPT !.pc = "items", !.job = job, !.was = fs, !.items = job.items])
    BY <1>4 DEF Begin
  <2> DEFINE r == [Idle EXCEPT !.pc = "items", !.job = job, !.was = fs, !.items = job.items]
             n == thread'[t]
  <2>2. "pc" \in DOMAIN r /\ "was" \in DOMAIN r /\ r["pc"] = "items" /\ r["was"] = fs
    BY DEF Idle
  <2>3. n = r ++ thread[t]
    BY <1>1, <2>1 DEF Set
  <2> HIDE DEF r
  <2>4. n.pc = "items" /\ n.was = fs
    BY <2>2, <2>3 DEF ++
  <2>5. fs' = fs
    BY <1>4 DEF Begin
  <2> HIDE DEF n
  <2>6. /\ \A q \in Protected(n) : q \in DOMAIN fs' /\ fs'[q] = n.was[q]
        /\ n.pc \notin Writing
    BY <2>4, <2>5 DEF Protected, Writing
  <2> QED
    BY <2>6 DEF Untouched, n
<1>5. CASE Step(t)
  BY <1>1, <1>5, OwnUntouched
<1>6. CASE UNCHANGED vars \/ Cancel
  BY <1>2, <1>6 DEF vars, Cancel
<1> QED
  BY <1>3, <1>4, <1>5, <1>6 DEF Next

LEMMA SkipInit == Init => SkipInv
<1> SUFFICES ASSUME Init, NEW t \in Worker
             PROVE  Untouched(thread[t])
  BY DEF SkipInv
<1>1. thread[t] = Idle
  BY DEF Init, Threads
<1>2. Idle.job.overwrite = "ALL"
  BY DEF Idle, NoJob
<1> QED
  BY <1>1, <1>2 DEF Untouched

(* With "Don't overwrite" no file that was at the destination is touched, as   *)
(* long as no other thread is about: not by merging directories, nor by a       *)
(* rename, nor after a Cancel or a fault.                                       *)
THEOREM SkipKeepsAlways == Spec => []SkipKeeps
<1>1. Spec => []Inv
  BY InitInv, NextInv, PTL DEF Spec
<1>2. Spec => []SkipInv
  BY <1>1, SkipInit, SkipNext, PTL DEF Spec
<1>3. SkipInv => SkipKeeps
  <2> SUFFICES ASSUME SkipInv, NEW t \in Worker, thread[t].job.overwrite = "NONE",
                      thread[t].alone, NEW q \in DOMAIN thread[t].was,
                      IsPrefix(thread[t].job.dest, q), thread[t].was[q] # Dir,
                      \A p \in thread[t].job.items : ~IsPrefix(p, q)
               PROVE  Exists(q) /\ fs[q] = thread[t].was[q]
    BY DEF SkipKeeps
  <2>1. q \in Protected(thread[t])
    BY DEF Protected, Inside
  <2> QED
    BY <2>1 DEF SkipInv, Untouched, Exists
<1> QED
  BY <1>2, <1>3, PTL

-----------------------------------------------------------------------------
(***************************************************************************)
(* Nothing is lost.  The worker is the only thread that pastes, the HTTP   *)
(* server is asked for nothing but removals, and what fclose writes is     *)
(* written: without the first two the counters of FS::Copy are not the      *)
(* copy's own, and a failing fclose is not noticed.                        *)
(***************************************************************************)
RequestsRemove ==
  \A given \in Jobs : \A t \in Http : \A job \in given[t] : job.kind = "remove"

WholeSomewhere(d) == \E q \in DOMAIN fs : fs[q] = Whole(d)

(* A thread in the loop of FS::Copy has its source before it and the file that *)
(* it writes is as long as the global count says, unless one of the two was    *)
(* removed by request; and at the end it is as long as the source.              *)
CopyOK(t) ==
  LET g == thread[t]
      from == g.from
      to == g.to
  IN g.pc \in InCopy =>
       /\ from # to /\ g.data \in Data
       /\ from \in DOMAIN fs => fs[from].of = g.data
       /\ g.data \notin forfeit =>
            /\ from \in DOMAIN fs /\ to \in DOMAIN fs /\ fs[to].of = g.data
            /\ IF g.pc = "unlink" THEN fs[to] = fs[from]
               ELSE /\ fs[to].blocks = g.block /\ bytes_transfered = g.block
                    /\ bytes_to_download = fs[from].blocks /\ g.block <= fs[from].blocks

Removers ==
  \A t \in Http : /\ thread[t].job.kind \in {"none", "remove"}
                  /\ \A job \in jobs[t] : job.kind = "remove"

LossInv ==
  /\ \A p \in DOMAIN fs : fs[p].of \in Data \ forfeit => WholeSomewhere(fs[p].of)
  /\ NothingLost
  /\ \A t \in Worker : CopyOK(t)
  /\ Removers

(* What a step has to do: the rest follows. *)
Spares ==
  /\ forfeit \subseteq forfeit'
  /\ \A d \in Data \ forfeit' : WholeSomewhere(d) => WholeSomewhere(d)'
  /\ \A p \in DOMAIN fs' : fs'[p].of \in Data => \E q \in DOMAIN fs : fs[q].of = fs'[p].of

(* Nothing but a directory, or what was asked for, goes; only directories come. *)
Keeping ==
  /\ forfeit \subseteq forfeit'
  /\ \A q \in DOMAIN fs : fs[q].of \in Data \ forfeit' => q \in DOMAIN fs' /\ fs'[q] = fs[q]
  /\ \A q \in DOMAIN fs' : fs'[q] # Dir => q \in DOMAIN fs /\ fs'[q] = fs[q]

LEMMA DataNotDir ==
  ASSUME NEW d \in Data
  PROVE  /\ Dir.of \notin Data /\ Whole(d).of = d /\ Whole(d).of \in Data
         /\ Whole(d).blocks = Size[d] /\ Size[d] \in Nat /\ Whole(d) # Dir
BY FileOpsAssumption DEF FileOpsAssumption, Dir, Whole

LEMMA KeepingSpares ==
  ASSUME Keeping
  PROVE  Spares
<1>1. ASSUME NEW d \in Data \ forfeit', WholeSomewhere(d)
      PROVE  WholeSomewhere(d)'
  <2>1. PICK q \in DOMAIN fs : fs[q] = Whole(d)
    BY <1>1 DEF WholeSomewhere
  <2>2. q \in DOMAIN fs' /\ fs'[q] = Whole(d)
    BY <2>1, DataNotDir DEF Keeping
  <2> QED
    BY <2>2 DEF WholeSomewhere, Whole
<1>2. ASSUME NEW p \in DOMAIN fs', fs'[p].of \in Data
      PROVE  \E q \in DOMAIN fs : fs[q].of = fs'[p].of
  <2>1. fs'[p] # Dir
    BY <1>2, DataNotDir
  <2> QED
    BY <2>1 DEF Keeping
<1> QED
  BY <1>1, <1>2 DEF Spares, Keeping

(* A rename takes away what it replaces, which is forfeit or is what it moves. *)
LEMMA RenameSpares ==
  ASSUME Tree(fs), NEW from \in DOMAIN fs, NEW to, RenameMoves(from, to, fs'),
         forfeit \subseteq forfeit',
         to \in DOMAIN fs => \A d \in Data : d = fs[to].of /\ fs[from] # Whole(d) => d \in forfeit'
  PROVE  Spares
<1>1. ASSUME NEW d \in Data \ forfeit', WholeSomewhere(d)
      PROVE  WholeSomewhere(d)'
  <2>1. PICK q \in DOMAIN fs : fs[q] = Whole(d)
    BY <1>1 DEF WholeSomewhere
  <2>2. \E p \in DOMAIN fs' : fs'[p] = Whole(d)
    <3>1. CASE q \in Kept(from, to)
      BY <2>1, <3>1 DEF RenameMoves
    <3>2. CASE q \in Under(from)
      BY <2>1, <3>2 DEF RenameMoves
    <3>3. CASE q \notin Kept(from, to) /\ q \notin Under(from)
      <4>1. q = to
        BY <3>3 DEF Kept, RenameMoves
      <4>2. fs[from] = Whole(d)
        BY <2>1, <4>1, DataNotDir
      <4> QED
        BY <4>1, <4>2 DEF RenameMoves
    <3> QED
      BY <3>1, <3>2, <3>3
  <2> QED
    BY <2>2 DEF WholeSomewhere, Whole
<1>2. ASSUME NEW p \in DOMAIN fs', fs'[p].of \in Data
      PROVE  \E q \in DOMAIN fs : fs[q].of = fs'[p].of
  <2>1. p \in Kept(from, to) \/ \E q \in Under(from) : p = to \o Rest(from, q)
    BY DEF RenameMoves
  <2> QED
    BY <2>1 DEF RenameMoves, Kept, Under
<1> QED
  BY <1>1, <1>2 DEF Spares

LEMMA ReturnGoes ==
  ASSUME Inv, NEW t \in Threads, NEW ret,
         Set(t, Return(t, ret)) \/ Set(t, Return(t, ret) ++ Odd)
  PROVE  thread'[t].pc \notin InCopy
<1> DEFINE r == Return(t, ret)
<1>1. "pc" \in DOMAIN r /\ r["pc"] \in {"entries", "done"}
  <2>1. r = [pc |-> "entries"] \/ r = [pc |-> "done", stack |-> <<>>, ret |-> ret]
    BY DEF Return
  <2> HIDE DEF r
  <2> QED
    BY <2>1
<1>2. thread'[t] = r ++ thread[t] \/ thread'[t] = (r ++ Odd) ++ thread[t]
  BY DEF Set
<1> HIDE DEF r
<1>3. thread'[t].pc = r["pc"]
  BY <1>1, <1>2 DEF ++
<1> QED
  BY <1>1, <1>3 DEF InCopy

LEMMA CopyBeginSpares ==
  ASSUME Inv, NEW t \in Threads, CopyBegin(t) \/ CopyNothing(t)
  PROVE  Spares /\ CopyOK(t)'
<1> DEFINE g == thread[t]
           n == thread'[t]
           from == g.from
           to == g.to
           made == MkDirs(fs, Front(to))
           x == [of |-> fs[from].of, blocks |-> 0]
           r == [pc |-> "block", data |-> fs[from].of, block |-> 0]
<1>1. /\ Tree(fs) /\ g.pc = "copy" /\ to \in Seq(Name) /\ to # <<>>
      /\ g = [f \in Fields |-> g[f]]
  BY Here DEF Inv, Place, CopyBegin, CopyNothing, At, AtPath, Pasting, Path, Shape
<1>2. Adds(fs, made)
  BY <1>1, FrontIs, Making
<1> HIDE DEF made
<1>3. \/ /\ fs' = made /\ forfeit' = forfeit
         /\ \E ret : Set(t, Return(t, ret)) \/ Set(t, Return(t, ret) ++ Odd)
      \/ /\ from # to /\ FileExists(from) /\ Set(t, r)
         /\ fs' = [p \in {to} |-> x] ++ made
         /\ forfeit' = forfeit \cup Overwritten(to, fs[from])
         /\ bytes_to_download' = fs[from].blocks /\ bytes_transfered' = 0
  BY DEF CopyBegin, CopyNothing, made
<1>4. CASE /\ fs' = made /\ forfeit' = forfeit
           /\ \E ret : Set(t, Return(t, ret)) \/ Set(t, Return(t, ret) ++ Odd)
  <2>1. Keeping
    BY <1>2, <1>4 DEF Keeping, Adds
  <2>2. n.pc \notin InCopy
    BY <1>4, ReturnGoes
  <2> QED
    BY <2>1, <2>2, KeepingSpares DEF CopyOK
<1>5. CASE /\ from # to /\ FileExists(from) /\ Set(t, r)
           /\ fs' = [p \in {to} |-> x] ++ made
           /\ forfeit' = forfeit \cup Overwritten(to, fs[from])
           /\ bytes_to_download' = fs[from].blocks /\ bytes_transfered' = 0
  <2>1. from \in DOMAIN fs /\ fs[from] # Dir /\ fs[from].of \in Data /\ fs[from].blocks \in Nat
    BY <1>1, <1>5, FileIs DEF FileExists, Exists, Dir, Tree
  <2>2. DOMAIN x = {"of", "blocks"} /\ x.of = fs[from].of /\ x.blocks = 0
    OBVIOUS
  <2>3. n = r ++ g
    BY <1>5 DEF Set
  <2>4. /\ DOMAIN r = {"pc", "data", "block"} /\ r["pc"] = "block"
        /\ r["data"] = fs[from].of /\ r["block"] = 0
    OBVIOUS
  <2> HIDE DEF g, r, x
  <2>5. n.pc = "block" /\ n.data = fs[from].of /\ n.block = 0 /\ n.from = from /\ n.to = to
    BY <1>1, <2>3, <2>4, Merged DEF Fields
  <2>6. /\ DOMAIN fs' = DOMAIN made \cup {to} /\ fs'[to] = x
        /\ \A q \in DOMAIN made : q # to => fs'[q] = made[q]
    BY <1>5 DEF ++
  <2>7. \A q \in DOMAIN fs : q # to => q \in DOMAIN fs' /\ fs'[q] = fs[q]
    BY <1>2, <2>6 DEF Adds
  <2>8. ASSUME NEW d \in Data \ forfeit', WholeSomewhere(d)
        PROVE  WholeSomewhere(d)'
    <3>1. PICK q \in DOMAIN fs : fs[q] = Whole(d)
      BY <2>8 DEF WholeSomewhere
    <3>2. CASE q = to
      <4>1. FileExists(to) /\ fs[to].of = d
        BY <3>1, <3>2, DataNotDir, FileIs DEF FileExists, Exists, Dir
      <4>2. fs[from] = Whole(d)
        BY <1>5, <2>8, <4>1 DEF Overwritten
      <4>3. from \in DOMAIN fs' /\ fs'[from] = Whole(d)
        BY <1>5, <2>1, <2>7, <4>2
      <4> QED
        BY <4>3 DEF WholeSomewhere, Whole
    <3>3. CASE q # to
      <4>1. q \in DOMAIN fs' /\ fs'[q] = Whole(d)
        BY <2>7, <3>1, <3>3
      <4> QED
        BY <4>1 DEF WholeSomewhere, Whole
    <3> QED
      BY <3>2, <3>3
  <2>9. ASSUME NEW p \in DOMAIN fs', fs'[p].of \in Data
        PROVE  \E q \in DOMAIN fs : fs[q].of = fs'[p].of
    <3>1. CASE p = to
      BY <2>1, <2>2, <2>6, <3>1
    <3>2. CASE p # to
      <4>1. p \in DOMAIN made /\ fs'[p] = made[p]
        BY <2>6, <3>2
      <4>2. p \in DOMAIN fs
        BY <1>2, <2>9, <4>1, DataNotDir DEF Adds
      <4> QED
        BY <2>7, <3>2, <4>2
    <3> QED
      BY <3>1, <3>2
  <2>10. Spares
    BY <1>5, <2>8, <2>9 DEF Spares
  <2>11. fs'[from] = fs[from] /\ from \in DOMAIN fs' /\ to \in DOMAIN fs'
    BY <1>5, <2>1, <2>6, <2>7
  <2>12. n.pc # "unlink" /\ 0 <= fs[from].blocks
    BY <2>1, <2>5
  <2> HIDE DEF n, from, to
  <2>13. /\ n.from # n.to /\ n.data \in Data /\ fs'[n.from].of = n.data
         /\ n.from \in DOMAIN fs' /\ n.to \in DOMAIN fs' /\ fs'[n.to].of = n.data
    BY <1>5, <2>1, <2>2, <2>5, <2>6, <2>11
  <2>14. fs'[n.to].blocks = n.block /\ bytes_transfered' = n.block
         /\ bytes_to_download' = fs'[n.from].blocks /\ n.block <= fs'[n.from].blocks
    BY <1>5, <2>2, <2>5, <2>6, <2>11, <2>12
  <2>15. CopyOK(t)'
    BY <2>12, <2>13, <2>14 DEF CopyOK, n
  <2> QED
    BY <2>10, <2>15
<1> QED
  BY <1>3, <1>4, <1>5

LEMMA CopyBlockSpares ==
  ASSUME Inv, NEW t \in Threads, CopyBlock(t), CopyOK(t)
  PROVE  Spares /\ CopyOK(t)'
<1> DEFINE g == thread[t]
           n == thread'[t]
           from == g.from
           to == g.to
           block == IF g.block < Source(t) THEN g.block + 1 ELSE g.block
           r == [pc |-> "test", block |-> block]
<1>1. /\ Tree(fs) /\ g.pc = "block" /\ g.data \in Data /\ g.block \in Nat
      /\ g = [f \in Fields |-> g[f]] /\ Size[g.data] \in Nat
  BY Here, DataNotDir DEF Inv, Place, CopyBlock, At, Shape
<1>2. /\ forfeit' = forfeit /\ bytes_to_download' = bytes_to_download
      /\ \/ /\ fs' = Written(t, block) /\ Set(t, r)
            /\ bytes_transfered' = bytes_transfered + (block - g.block)
         \/ fs' = fs /\ Set(t, Return(t, 0) ++ Odd)
  BY DEF CopyBlock
<1>3. Source(t) \in 0..Size[g.data]
  BY <1>1, SourceIs
<1>4. block \in Nat /\ (g.block <= Source(t) => block <= Source(t))
  BY <1>1, <1>3
<1>5. /\ from # to /\ (from \in DOMAIN fs => fs[from].of = g.data)
      /\ g.data \notin forfeit =>
            /\ from \in DOMAIN fs /\ to \in DOMAIN fs /\ fs[to].of = g.data
            /\ fs[to].blocks = g.block /\ bytes_transfered = g.block
            /\ bytes_to_download = fs[from].blocks /\ g.block <= fs[from].blocks
  <2>1. g.pc \in InCopy /\ g.pc # "unlink"
    BY <1>1 DEF InCopy
  <2> QED
    BY <2>1 DEF CopyOK
<1>6. CASE fs' = fs /\ Set(t, Return(t, 0) ++ Odd)
  <2>1. Keeping
    BY <1>2, <1>6 DEF Keeping
  <2>2. n.pc \notin InCopy
    BY <1>6, ReturnGoes
  <2> QED
    BY <2>1, <2>2, KeepingSpares DEF CopyOK
<1>7. CASE /\ fs' = Written(t, block) /\ Set(t, r)
           /\ bytes_transfered' = bytes_transfered + (block - g.block)
  <2>1. DOMAIN r = {"pc", "block"} /\ r["pc"] = "test" /\ r["block"] = block /\ n = r ++ g
    BY <1>7 DEF Set
  <2> HIDE DEF r, g, block
  <2>2. n.pc = "test" /\ n.block = block /\ n.data = g.data /\ n.from = from /\ n.to = to
    BY <1>1, <2>1, Merged DEF Fields
  <2>3. /\ DOMAIN fs' = DOMAIN fs /\ \A q \in DOMAIN fs : q # to => fs'[q] = fs[q]
        /\ fs' = fs \/ (to \in DOMAIN fs /\ fs[to].of = g.data)
        /\ \A q \in DOMAIN fs : fs'[q].of = fs[q].of
    <3>1. fs' = fs \/ (to \in DOMAIN fs /\ fs[to].of = g.data
                       /\ fs' = [fs EXCEPT ![to].blocks = block])
      BY <1>7 DEF Written, g, FileExists, Exists
    <3>2. to \in DOMAIN fs /\ fs[to].of = g.data =>
            fs[to] = [of |-> fs[to].of, blocks |-> fs[to].blocks]
      BY <1>1, FileIs, DataNotDir DEF Tree
    <3> QED
      BY <3>1, <3>2
  <2>4. g.data \notin forfeit =>
          /\ from \in DOMAIN fs /\ fs[from] # Dir /\ Source(t) = fs[from].blocks
          /\ fs'[to].of = g.data /\ fs'[to].blocks = block
    <3>1. SUFFICES ASSUME g.data \notin forfeit
                   PROVE  /\ from \in DOMAIN fs /\ fs[from] # Dir /\ Source(t) = fs[from].blocks
                          /\ fs'[to].of = g.data /\ fs'[to].blocks = block
      OBVIOUS
    <3>2. g.data # "dir"
      BY <1>1, DataNotDir DEF Dir
    <3>3. FileExists(from) /\ FileExists(to)
      BY <1>5, <3>1, <3>2 DEF FileExists, Exists
    <3>4. Source(t) = fs[from].blocks /\ fs[from] # Dir
      BY <1>5, <3>1, <3>2, <3>3 DEF Source, g, Dir
    <3>5. fs' = [fs EXCEPT ![to].blocks = block]
      BY <1>5, <1>7, <3>1, <3>3 DEF Written, g
    <3>6. fs[to] = [of |-> fs[to].of, blocks |-> fs[to].blocks]
      BY <1>1, <1>5, <3>1, FileIs, DataNotDir DEF Tree
    <3>7. fs'[to].blocks = block
      BY <1>5, <3>1, <3>5, <3>6
    <3> QED
      BY <1>5, <2>3, <3>1, <3>4, <3>7
  <2>5. ASSUME NEW d \in Data \ forfeit', WholeSomewhere(d)
        PROVE  WholeSomewhere(d)'
    <3>1. PICK q \in DOMAIN fs : fs[q] = Whole(d)
      BY <2>5 DEF WholeSomewhere
    <3>2. \E p \in DOMAIN fs' : fs'[p] = Whole(d)
      <4>1. CASE q # to \/ fs' = fs
        BY <2>3, <3>1, <4>1
      <4>2. CASE q = to /\ fs' # fs
        <5>1. d = g.data /\ g.data \notin forfeit
          BY <1>2, <2>3, <2>5, <3>1, <4>2, DataNotDir
        <5>2. fs[to].blocks = Size[d]
          BY <3>1, <4>2, DataNotDir
        <5>3. from \in DOMAIN fs /\ fs[from].of = d /\ fs[from].blocks \in 0..Size[d]
              /\ fs[from] = [of |-> fs[from].of, blocks |-> fs[from].blocks]
          BY <1>1, <1>5, <2>4, <5>1, FileIs DEF Tree
        <5>4. Size[d] <= fs[from].blocks
          BY <1>5, <5>1, <5>2
        <5>5. fs[from].blocks = Size[d]
          BY <1>1, <5>1, <5>3, <5>4
        <5>6. fs[from] = Whole(d)
          BY <5>3, <5>5 DEF Whole
        <5> QED
          BY <1>5, <2>3, <5>3, <5>6
      <4> QED
        BY <4>1, <4>2
    <3> QED
      BY <3>2 DEF WholeSomewhere, Whole
  <2>6. Spares
    BY <1>2, <2>3, <2>5 DEF Spares
  <2>7. n.from # n.to /\ n.data \in Data /\ (n.from \in DOMAIN fs' => fs'[n.from].of = n.data)
    BY <1>1, <1>5, <2>2, <2>3
  <2>8. ASSUME n.data \notin forfeit'
        PROVE  /\ n.from \in DOMAIN fs' /\ n.to \in DOMAIN fs' /\ fs'[n.to].of = n.data
               /\ fs'[n.to].blocks = n.block /\ bytes_transfered' = n.block
               /\ bytes_to_download' = fs'[n.from].blocks /\ n.block <= fs'[n.from].blocks
    <3>1. g.data \notin forfeit
      BY <1>2, <2>2, <2>8
    <3>2. bytes_transfered' = block
      BY <1>1, <1>4, <1>5, <1>7, <3>1
    <3>3. fs'[from] = fs[from] /\ from \in DOMAIN fs' /\ to \in DOMAIN fs'
      BY <1>5, <2>3, <3>1
    <3>4. block <= fs[from].blocks
      BY <1>4, <1>5, <2>4, <3>1
    <3> QED
      BY <1>2, <1>5, <2>2, <2>4, <3>1, <3>2, <3>3, <3>4
  <2>9. n.pc # "unlink"
    BY <2>2
  <2> HIDE DEF n
  <2>10. CopyOK(t)'
    BY <2>7, <2>8, <2>9 DEF CopyOK, n
  <2> QED
    BY <2>6, <2>10
<1> QED
  BY <1>2, <1>6, <1>7

LEMMA CopyTestSpares ==
  ASSUME Inv, NEW t \in Threads, "flush" \notin Faults[t], CopyTest(t), CopyOK(t)
  PROVE  Spares /\ CopyOK(t)'
<1> DEFINE g == thread[t]
           n == thread'[t]
           from == g.from
           to == g.to
           r(pc) == [pc |-> pc]
<1>1. /\ Tree(fs) /\ g.pc = "test" /\ g.data \in Data /\ g.block \in Nat
      /\ g = [f \in Fields |-> g[f]]
  BY Here, DataNotDir DEF Inv, Place, CopyTest, At, Shape
<1>2. /\ fs' = fs /\ forfeit' = forfeit /\ UNCHANGED counters
      /\ \/ Set(t, r("block"))
         \/ Copied(t) /\ Set(t, r("unlink"))
         \/ Set(t, Return(t, 1))
  <2>1. CASE ~Copied(t)
    BY <2>1 DEF CopyTest
  <2>2. CASE Copied(t) /\ Kind(t) = "move"
    BY <2>2 DEF CopyTest, Fault
  <2>3. CASE Copied(t) /\ Kind(t) # "move"
    BY <2>3 DEF CopyTest, Fault
  <2> QED
    BY <2>1, <2>2, <2>3
<1>3. Spares
  <2>1. Keeping
    BY <1>2 DEF Keeping
  <2> QED
    BY <2>1, KeepingSpares
<1>4. /\ from # to /\ (from \in DOMAIN fs => fs[from].of = g.data)
      /\ g.data \notin forfeit =>
            /\ from \in DOMAIN fs /\ to \in DOMAIN fs /\ fs[to].of = g.data
            /\ fs[to].blocks = g.block /\ bytes_transfered = g.block
            /\ bytes_to_download = fs[from].blocks /\ g.block <= fs[from].blocks
  <2>1. g.pc \in InCopy /\ g.pc # "unlink"
    BY <1>1 DEF InCopy
  <2> QED
    BY <2>1 DEF CopyOK
<1>5. CASE Set(t, Return(t, 1))
  BY <1>3, <1>5, ReturnGoes DEF CopyOK
<1>6. ASSUME NEW pc \in {"block", "unlink"}, Set(t, r(pc)), pc = "unlink" => Copied(t)
      PROVE  CopyOK(t)'
  <2> DEFINE q == r(pc)
  <2>1. DOMAIN q = {"pc"} /\ q["pc"] = pc /\ n = q ++ g
    BY <1>6 DEF Set
  <2> HIDE DEF q, g
  <2>2. n.pc = pc /\ n.block = g.block /\ n.data = g.data /\ n.from = from /\ n.to = to
    BY <1>1, <2>1, Merged DEF Fields
  <2>3. ASSUME g.data \notin forfeit, pc = "unlink"
        PROVE  fs[to] = fs[from]
    <3>1. g.block >= fs[from].blocks
      BY <1>4, <1>6, <2>3 DEF Copied
    <3>2. /\ fs[from] = [of |-> fs[from].of, blocks |-> fs[from].blocks]
          /\ fs[to] = [of |-> fs[to].of, blocks |-> fs[to].blocks]
          /\ fs[from].blocks \in Nat
      BY <1>1, <1>4, <2>3, FileIs, DataNotDir DEF Tree
    <3>3. fs[from].blocks = g.block
      BY <1>1, <1>4, <2>3, <3>1, <3>2
    <3>4. fs[from].of = fs[to].of /\ fs[from].blocks = fs[to].blocks
      BY <1>4, <2>3, <3>3
    <3> QED
      BY <3>2, <3>4
  <2>4. bytes_transfered' = bytes_transfered /\ bytes_to_download' = bytes_to_download
    BY <1>2 DEF counters
  <2>5. n.from # n.to /\ n.data \in Data /\ (n.from \in DOMAIN fs' => fs'[n.from].of = n.data)
    BY <1>1, <1>2, <1>4, <2>2
  <2>6. ASSUME n.data \notin forfeit'
        PROVE  /\ n.from \in DOMAIN fs' /\ n.to \in DOMAIN fs' /\ fs'[n.to].of = n.data
               /\ fs'[n.to].blocks = n.block /\ bytes_transfered' = n.block
               /\ bytes_to_download' = fs'[n.from].blocks /\ n.block <= fs'[n.from].blocks
               /\ n.pc = "unlink" => fs'[n.to] = fs'[n.from]
    BY <1>2, <1>4, <2>2, <2>3, <2>4, <2>6
  <2> HIDE DEF n
  <2> QED
    BY <2>5, <2>6 DEF CopyOK, n
<1> QED
  BY <1>2, <1>3, <1>5, <1>6

LEMMA ReadSpares ==
  ASSUME Inv, NEW t \in Threads, ReadFails(t), CopyOK(t)
  PROVE  Spares /\ CopyOK(t)'
<1> DEFINE g == thread[t]
           n == thread'[t]
           r == [pc |-> "test"]
<1>1. g.pc = "block" /\ g = [f \in Fields |-> g[f]] /\ g.pc \in InCopy /\ g.pc # "unlink"
  BY Here DEF Inv, ReadFails, At, Shape, InCopy
<1>2. /\ fs' = fs /\ forfeit' = forfeit /\ Set(t, r)
      /\ bytes_transfered' = bytes_transfered /\ bytes_to_download' = bytes_to_download
  BY DEF ReadFails, counters
<1>3. Spares
  <2>1. Keeping
    BY <1>2 DEF Keeping
  <2> QED
    BY <2>1, KeepingSpares
<1>4. DOMAIN r = {"pc"} /\ r["pc"] = "test" /\ n = r ++ g
  BY <1>2 DEF Set
<1> HIDE DEF r, g
<1>5. /\ n.pc = "test" /\ n.block = g.block /\ n.data = g.data /\ n.from = g.from
      /\ n.to = g.to
  BY <1>1, <1>4, Merged DEF Fields
<1>6. CopyOK(t)
  OBVIOUS
<1> HIDE DEF n
<1>7. CopyOK(t)'
  BY <1>1, <1>2, <1>5, <1>6 DEF CopyOK, n, g
<1> QED
  BY <1>3, <1>7

LEMMA UnlinkSpares ==
  ASSUME Inv, NEW t \in Threads, Unlink(t), CopyOK(t)
  PROVE  Spares /\ CopyOK(t)'
<1> DEFINE g == thread[t]
           from == g.from
           to == g.to
<1>1. /\ forfeit' = forfeit /\ Set(t, Return(t, 1)) /\ g.pc = "unlink"
      /\ fs' = IF FileExists(from) THEN Unlinked(fs, {from}) ELSE fs
  BY DEF Unlink, At
<1>2. CopyOK(t)'
  BY <1>1, ReturnGoes DEF CopyOK
<1>3. /\ from # to /\ (from \in DOMAIN fs => fs[from].of = g.data)
      /\ g.data \notin forfeit => to \in DOMAIN fs /\ fs[to] = fs[from]
  BY <1>1 DEF CopyOK, InCopy
<1>4. /\ \A q \in DOMAIN fs : q # from => q \in DOMAIN fs' /\ fs'[q] = fs[q]
      /\ \A q \in DOMAIN fs' : q \in DOMAIN fs /\ fs'[q] = fs[q]
  BY <1>1 DEF Unlinked
<1>5. ASSUME NEW d \in Data \ forfeit', WholeSomewhere(d)
      PROVE  WholeSomewhere(d)'
  <2>1. PICK q \in DOMAIN fs : fs[q] = Whole(d)
    BY <1>5 DEF WholeSomewhere
  <2>2. \E p \in DOMAIN fs' : fs'[p] = Whole(d)
    <3>1. CASE q # from
      BY <1>4, <2>1, <3>1
    <3>2. CASE q = from
      <4>1. g.data = d /\ d \notin forfeit
        BY <1>1, <1>3, <1>5, <2>1, <3>2, DataNotDir
      <4>2. to \in DOMAIN fs /\ fs[to] = Whole(d)
        BY <1>3, <2>1, <3>2, <4>1
      <4> QED
        BY <1>3, <1>4, <4>2
    <3> QED
      BY <3>1, <3>2
  <2> QED
    BY <2>2 DEF WholeSomewhere, Whole
<1>6. Spares
  BY <1>1, <1>4, <1>5 DEF Spares
<1> QED
  BY <1>2, <1>6

LEMMA RenamesSpare ==
  ASSUME Inv, NEW t \in Threads, MoveRenamed(t) \/ EnterListed(t)
  PROVE  Spares
<1> DEFINE from == thread[t].from
           to == thread[t].to
<1>1. /\ Tree(fs) /\ thread[t].pc \in {"move", "enter"} /\ from \in Path /\ to \in Path
      /\ forfeit \subseteq forfeit'
  BY Here DEF Inv, Place, MoveRenamed, EnterListed, At, AtPath, Pasting
<1>2. CASE MoveRenamed(t)
  <2>1. /\ from # to /\ RenameError(from, to) = "none" /\ fs' = Renamed(from, to)
        /\ forfeit' = forfeit \cup Overwritten(to, fs[from])
    BY <1>2 DEF MoveRenamed
  <2>2. RenameMoves(from, to, fs') /\ from \in DOMAIN fs
    BY <1>1, <2>1, RenamedTree DEF RenameError, Exists
  <2>3. to \in DOMAIN fs => \A d \in Data : d = fs[to].of /\ fs[from] # Whole(d) => d \in forfeit'
    BY <1>1, <2>1, DataNotDir DEF Overwritten, FileExists, Exists, Dir
  <2> QED
    BY <1>1, <2>2, <2>3, RenameSpares
<1>3. CASE EnterListed(t) /\ Renames(t) /\ RenameError(from, to) = "none"
  <2>1. from # to /\ fs' = Renamed(from, to) /\ from \in DOMAIN fs /\ to \notin DOMAIN fs
    BY <1>3 DEF EnterListed, Renames, RenameError, Exists
  <2>2. RenameMoves(from, to, fs')
    BY <1>1, <1>3, <2>1, RenamedTree
  <2> QED
    BY <1>1, <2>1, <2>2, RenameSpares
<1>4. CASE EnterListed(t) /\ ~(Renames(t) /\ RenameError(from, to) = "none")
  <2>1. fs' = MkDirs(fs, to) /\ to \in Seq(Name)
    BY <1>1, <1>4 DEF EnterListed, Path
  <2>2. Adds(fs, fs')
    BY <1>1, <2>1, Making
  <2>3. Keeping
    BY <1>1, <2>2 DEF Adds, Keeping
  <2> QED
    BY <2>3, KeepingSpares
<1> QED
  BY <1>2, <1>3, <1>4

(* What every thread does that is not in the middle of pasting a file. *)
LEMMA OtherSpares ==
  ASSUME Inv, NEW t \in Threads,
         \/ NextItem(t) \/ ItemDone(t) \/ Finish(t) \/ EnterStopped(t) \/ EnterRefused(t)
         \/ NextEntry(t) \/ EntriesStopped(t) \/ EntriesDone(t) \/ File(t) \/ Answer(t)
         \/ MoveRefused(t) \/ MoveCopies(t) \/ RmNext(t) \/ RmTest(t) \/ RmDone(t)
         \/ RmEnter(t) /\ Kind(t) = "remove"
  PROVE  /\ Keeping
         /\ \A q \in DOMAIN fs' : q \in DOMAIN fs /\ fs'[q] = fs[q]
<1> DEFINE Goal == /\ Keeping
                   /\ \A q \in DOMAIN fs' : q \in DOMAIN fs /\ fs'[q] = fs[q]
<1>1. ASSUME fs' = fs, forfeit' = forfeit
      PROVE  Goal
  BY <1>1 DEF Keeping
<1>2. ASSUME NEW p \in DOMAIN fs, fs' = Unlinked(fs, {p}), forfeit \subseteq forfeit',
             fs[p] # Dir => fs[p].of \in forfeit'
      PROVE  Goal
  <2>1. ASSUME NEW q \in DOMAIN fs, fs[q].of \in Data \ forfeit'
        PROVE  q # p
    BY <1>2, <2>1, DataNotDir
  <2> QED
    BY <1>2, <2>1 DEF Keeping, Unlinked
<1>3. CASE NextItem(t) \/ ItemDone(t) \/ Finish(t) \/ EnterStopped(t) \/ EnterRefused(t)
           \/ NextEntry(t) \/ EntriesStopped(t)
  BY <1>1, <1>3 DEF NextItem, ItemDone, Finish, EnterStopped, EnterRefused, NextEntry,
                    EntriesStopped
<1>4. CASE File(t) \/ Answer(t) \/ MoveRefused(t) \/ MoveCopies(t) \/ RmNext(t) \/ RmTest(t)
  BY <1>1, <1>4 DEF File, Answer, MoveRefused, MoveCopies, RmNext, RmTest
<1>5. CASE EntriesDone(t)
  <2>1. forfeit' = forfeit /\ fs' = IF RemovesEmpty(t) THEN Unlinked(fs, Under(Top(t).src)) ELSE fs
    BY <1>5 DEF EntriesDone
  <2>2. CASE RemovesEmpty(t)
    <3>1. Top(t).src \in DOMAIN fs /\ fs[Top(t).src].of = "dir" /\ Children(Top(t).src) = {}
      BY <2>2 DEF RemovesEmpty, IsDir, Exists
    <3>2. fs[Top(t).src] = Dir /\ Under(Top(t).src) = {Top(t).src}
      BY <3>1, FileIs, RemovesOne DEF Inv, Tree
    <3> QED
      BY <1>2, <2>1, <2>2, <3>1, <3>2
  <2> QED
    BY <1>1, <2>1, <2>2
<1>6. CASE RmDone(t)
  <2> DEFINE dir == Top(t).src
  <2>1. forfeit' = forfeit /\ (fs' = fs \/ (IsDir(dir) /\ fs' = Unlinked(fs, {dir})))
    BY <1>6 DEF RmDone
  <2>2. IsDir(dir) => dir \in DOMAIN fs /\ fs[dir] = Dir
    BY FileIs DEF IsDir, Exists, Inv, Tree
  <2> QED
    BY <1>1, <1>2, <2>1, <2>2
<1>7. CASE RmEnter(t) /\ Kind(t) = "remove"
  <2> DEFINE from == thread[t].from
  <2>1. \/ fs' = fs /\ forfeit' = forfeit
        \/ FileExists(from) /\ fs' = Unlinked(fs, {from}) /\ forfeit' = forfeit \cup Asked(t)
    BY <1>7 DEF RmEnter
  <2>2. FileExists(from) => from \in DOMAIN fs /\ Asked(t) = {fs[from].of}
    BY <1>7 DEF FileExists, Exists, Asked
  <2> QED
    BY <1>1, <1>2, <2>1, <2>2
<1> QED
  BY <1>3, <1>4, <1>5, <1>6, <1>7

(* The record of another thread, and the own one as far as the job goes. *)
LEMMA RecordStays ==
  ASSUME Inv, NEW t \in Threads, NEW u \in Threads, u # t, Step(t) \/ Begin(t)
  PROVE  \A f \in Fields \ {"alone"} : thread'[u][f] = thread[u][f]
<1>1. thread'[u] = [thread[u] EXCEPT !.alone = FALSE]
  BY OthersNote
<1>2. thread[u] = [f \in Fields |-> thread[u][f]]
  BY Here DEF Inv, Shape
<1> QED
  BY <1>1, <1>2

LEMMA OwnStays ==
  ASSUME Inv, NEW t \in Threads, Step(t)
  PROVE  /\ thread'[t].was = thread[t].was /\ thread'[t].job = thread[t].job
         /\ thread'[t].pc \in InCopy => thread[t].pc \in {"copy", "block", "test"}
<1> DEFINE g == thread[t]
<1>1. PICK r : Set(t, r) /\ Onward(t, r)
  BY StepSets
<1>2. g = [f \in Fields |-> g[f]]
  BY Here DEF Inv, Shape
<1>3. thread'[t] = r ++ g
  BY <1>1 DEF Set
<1> HIDE DEF g
<1>4. \A f \in Fields : thread'[t][f] = IF f \in DOMAIN r THEN r[f] ELSE g[f]
  BY <1>1, <1>2, <1>3, Merged DEF Onward
<1> QED
  BY <1>1, <1>4 DEF Onward, Fields, g

LEMMA JobsStay ==
  ASSUME NEW t \in Threads, Step(t)
  PROVE  jobs' = jobs
<1>1. CASE NextItem(t) \/ ItemDone(t) \/ Finish(t) \/ EnterStopped(t) \/ EnterRefused(t)
           \/ EnterListed(t) \/ EnterUnmade(t) \/ NextEntry(t) \/ EntriesStopped(t)
           \/ EntriesDone(t)
  BY <1>1 DEF NextItem, ItemDone, Finish, EnterStopped, EnterRefused, EnterListed, EnterUnmade,
              NextEntry, EntriesStopped, EntriesDone
<1>2. CASE File(t) \/ Answer(t) \/ MoveRenamed(t) \/ MoveRefused(t) \/ MoveCopies(t)
           \/ CopyBegin(t) \/ CopyNothing(t) \/ CopyUnmade(t) \/ CopyBlock(t)
           \/ ReadFails(t) \/ CopyTest(t) \/ Unlink(t)
  BY <1>2 DEF File, Answer, MoveRenamed, MoveRefused, MoveCopies, CopyBegin, CopyNothing,
              CopyUnmade, CopyBlock, ReadFails, CopyTest, Unlink
<1>3. CASE RmEnter(t) \/ RmNext(t) \/ RmTest(t) \/ RmDone(t)
  BY <1>3 DEF RmEnter, RmNext, RmTest, RmDone
<1> QED
  BY <1>1, <1>2, <1>3 DEF Step

LEMMA WorkerSpares ==
  ASSUME Inv, NEW t \in Worker, "flush" \notin Faults[t], Step(t), CopyOK(t)
  PROVE  Spares /\ CopyOK(t)'
<1>1. t \in Threads /\ Place(t, thread[t])
  BY Here DEF Inv, Threads
<1>2. CASE CopyBegin(t) \/ CopyNothing(t) \/ CopyBlock(t) \/ CopyTest(t) \/ Unlink(t)
  BY <1>1, <1>2, CopyBeginSpares, CopyBlockSpares, CopyTestSpares, UnlinkSpares
<1>3. ASSUME thread[t].pc \notin {"copy", "block", "test"}
      PROVE  CopyOK(t)'
  BY <1>1, <1>3, OwnStays DEF CopyOK
<1>4. CASE MoveRenamed(t) \/ EnterListed(t)
  BY <1>1, <1>3, <1>4, RenamesSpare DEF MoveRenamed, EnterListed, At
<1>5. CASE \/ NextItem(t) \/ ItemDone(t) \/ Finish(t) \/ EnterStopped(t) \/ EnterRefused(t)
           \/ NextEntry(t) \/ EntriesStopped(t) \/ EntriesDone(t)
  <2>1. thread[t].pc \notin {"copy", "block", "test"}
    BY <1>5 DEF NextItem, ItemDone, Finish, EnterStopped, EnterRefused, NextEntry,
                EntriesStopped, EntriesDone, At
  <2> QED
    BY <1>1, <1>3, <1>5, <2>1, OtherSpares, KeepingSpares
<1>6. CASE File(t) \/ Answer(t) \/ MoveRefused(t) \/ MoveCopies(t) \/ RmNext(t) \/ RmTest(t)
           \/ RmDone(t) \/ RmEnter(t)
  <2>1. thread[t].pc \notin {"copy", "block", "test"}
    BY <1>6 DEF File, Answer, MoveRefused, MoveCopies, RmNext, RmTest, RmDone, RmEnter, At
  <2>2. RmEnter(t) => Kind(t) = "remove"
    BY <1>1 DEF RmEnter, At, Place, Removing, Kind
  <2> QED
    BY <1>1, <1>3, <1>6, <2>1, <2>2, OtherSpares, KeepingSpares
<1>7. CASE EnterUnmade(t)
  <2>1. thread[t].pc = "enter" /\ forfeit' = forfeit
    BY <1>7 DEF EnterUnmade, At
  <2>2. Adds(fs, fs')
    <3>1. Tree(fs) /\ thread[t].to \in Seq(Name)
      BY <1>1, <2>1 DEF Inv, Place, AtPath, Pasting, Path
    <3>2. \E p \in Above(thread[t].to) : fs' = MkDirs(fs, p)
      BY <1>7 DEF EnterUnmade
    <3> QED
      BY <3>1, <3>2, MakingAbove
  <2>3. Keeping
    BY <2>1, <2>2 DEF Adds, Keeping
  <2> QED
    BY <1>3, <2>1, <2>3, KeepingSpares
<1>8. CASE CopyUnmade(t)
  <2>1. forfeit' = forfeit /\ \E ret : Set(t, Return(t, ret) ++ Odd)
    BY <1>8 DEF CopyUnmade
  <2>2. Adds(fs, fs')
    BY <1>1, <1>8, UnmadeEffect
  <2>3. Keeping
    BY <2>1, <2>2 DEF Adds, Keeping
  <2>4. thread'[t].pc \notin InCopy
    BY <1>1, <2>1, ReturnGoes
  <2> QED
    BY <2>3, <2>4, KeepingSpares DEF CopyOK
<1>9. CASE ReadFails(t)
  BY <1>1, <1>9, ReadSpares
<1> QED
  BY <1>2, <1>4, <1>5, <1>6, <1>7, <1>8, <1>9 DEF Step

LEMMA RemoverSteps ==
  ASSUME Inv, NEW t \in Http, thread[t].job.kind \in {"none", "remove"}, Step(t)
  PROVE  /\ Keeping /\ counters' = counters
         /\ \A q \in DOMAIN fs' : q \in DOMAIN fs /\ fs'[q] = fs[q]
<1>1. t \in Threads /\ Place(t, thread[t]) /\ Errand(t, thread[t])
  BY Here DEF Inv, Threads
<1>2. thread[t].pc \notin Pasting
  BY <1>1 DEF Place
<1>3. ~(EnterStopped(t) \/ EnterRefused(t) \/ EnterListed(t) \/ EnterUnmade(t)
        \/ NextEntry(t) \/ EntriesStopped(t) \/ EntriesDone(t) \/ File(t) \/ Answer(t))
  BY <1>2 DEF EnterStopped, EnterRefused, EnterListed, EnterUnmade, NextEntry, EntriesStopped,
              EntriesDone, File, Answer, At, Pasting
<1>4. ~(MoveRenamed(t) \/ MoveRefused(t) \/ MoveCopies(t) \/ CopyBegin(t) \/ CopyNothing(t)
        \/ CopyUnmade(t) \/ CopyBlock(t) \/ ReadFails(t) \/ CopyTest(t) \/ Unlink(t))
  BY <1>2 DEF MoveRenamed, MoveRefused, MoveCopies, CopyBegin, CopyNothing, CopyUnmade,
              CopyBlock, ReadFails, CopyTest, Unlink, At, Pasting
<1>5. NextItem(t) \/ ItemDone(t) \/ Finish(t) \/ RmEnter(t) \/ RmNext(t) \/ RmTest(t)
      \/ RmDone(t)
  BY <1>3, <1>4 DEF Step
<1>6. RmEnter(t) => Kind(t) = "remove"
  BY <1>1 DEF RmEnter, At, Errand, Kind
<1>7. counters' = counters
  <2>1. CASE NextItem(t)
    <3> DEFINE pc(q) == IF Kind(t) = "remove" THEN "rm"
                        ELSE IF Skipped(t, Item(t, q)) THEN "items"
                        ELSE IF Item(t, q).isDir THEN "enter"
                        ELSE IF t \in Worker THEN "file" ELSE Kind(t)
    <3>1. PICK p \in thread[t].items :
            bytes_to_download' = IF pc(p) = "file" THEN thread[t].was[p].blocks
                                 ELSE bytes_to_download
      BY <2>1 DEF NextItem
    <3>2. pc(p) # "file"
      <4>1. t \notin Worker /\ Kind(t) # "file"
        BY FileOpsAssumption DEF FileOpsAssumption, Kind
      <4> QED
        BY <4>1
    <3>3. bytes_transfered' = bytes_transfered
      BY <2>1 DEF NextItem
    <3> QED
      BY <3>1, <3>2, <3>3 DEF counters
  <2>2. CASE ItemDone(t) \/ Finish(t) \/ RmEnter(t) \/ RmNext(t) \/ RmTest(t) \/ RmDone(t)
    BY <2>2 DEF ItemDone, Finish, RmEnter, RmNext, RmTest, RmDone
  <2> QED
    BY <1>5, <2>1, <2>2
<1> QED
  BY <1>1, <1>5, <1>6, <1>7, OtherSpares

(* What a thread in the loop of FS::Copy relies on, when another thread removes. *)
LEMMA CopyStays ==
  ASSUME Inv, NEW t \in Threads, CopyOK(t), Keeping, counters' = counters,
         \A q \in DOMAIN fs' : q \in DOMAIN fs /\ fs'[q] = fs[q],
         \A f \in Fields \ {"alone"} : thread'[t][f] = thread[t][f]
  PROVE  CopyOK(t)'
<1> DEFINE g == thread[t]
           n == thread'[t]
<1>1. /\ n.pc = g.pc /\ n.from = g.from /\ n.to = g.to /\ n.data = g.data
      /\ n.block = g.block
  BY DEF Fields
<1>2. bytes_transfered' = bytes_transfered /\ bytes_to_download' = bytes_to_download
  BY DEF counters
<1> HIDE DEF n
<1>3. SUFFICES ASSUME g.pc \in InCopy
               PROVE  CopyOK(t)'
  BY <1>1 DEF CopyOK, n
<1>4. /\ g.from # g.to /\ g.data \in Data
      /\ g.from \in DOMAIN fs => fs[g.from].of = g.data
      /\ g.data \notin forfeit =>
           /\ g.from \in DOMAIN fs /\ g.to \in DOMAIN fs /\ fs[g.to].of = g.data
           /\ IF g.pc = "unlink" THEN fs[g.to] = fs[g.from]
              ELSE /\ fs[g.to].blocks = g.block /\ bytes_transfered = g.block
                   /\ bytes_to_download = fs[g.from].blocks /\ g.block <= fs[g.from].blocks
  BY <1>3 DEF CopyOK
<1>5. ASSUME g.data \notin forfeit'
      PROVE  /\ g.data \notin forfeit
             /\ g.from \in DOMAIN fs' /\ fs'[g.from] = fs[g.from]
             /\ g.to \in DOMAIN fs' /\ fs'[g.to] = fs[g.to]
  <2>1. g.data \notin forfeit
    BY <1>5 DEF Keeping
  <2> QED
    BY <1>4, <1>5, <2>1 DEF Keeping
<1>6. g.from \in DOMAIN fs' => fs'[g.from].of = g.data
  BY <1>4
<1> QED
  BY <1>1, <1>2, <1>4, <1>5, <1>6 DEF CopyOK, n

LEMMA LossNext ==
  ASSUME NEW w, Worker = {w}, "flush" \notin Faults[w], Inv, LossInv, [Next]_vars
  PROVE  LossInv'
<1>1. CASE UNCHANGED vars \/ Cancel
  <2>1. /\ fs' = fs /\ thread' = thread /\ forfeit' = forfeit /\ jobs' = jobs
        /\ bytes_transfered' = bytes_transfered /\ bytes_to_download' = bytes_to_download
    BY <1>1 DEF vars, Cancel, counters
  <2>2. (\A p \in DOMAIN fs : fs[p].of \in Data \ forfeit => WholeSomewhere(fs[p].of))'
    BY <2>1 DEF LossInv, WholeSomewhere, Whole
  <2>3. NothingLost' /\ Removers'
    BY <2>1 DEF LossInv, NothingLost, Removers, Whole
  <2>4. (\A t \in Worker : CopyOK(t))'
    BY <2>1 DEF LossInv, CopyOK
  <2> QED
    BY <2>2, <2>3, <2>4 DEF LossInv
<1>2. ASSUME NEW t \in Threads, Step(t)
      PROVE  LossInv'
  <2>1. Spares /\ CopyOK(w)'
    <3>1. CASE t = w
      BY <1>2, <3>1, WorkerSpares DEF LossInv
    <3>2. CASE t # w
      <4>1. t \in Http /\ thread[t].job.kind \in {"none", "remove"} /\ w \in Threads
        BY <3>2 DEF Threads, LossInv, Removers
      <4>2. /\ Keeping /\ counters' = counters
            /\ \A q \in DOMAIN fs' : q \in DOMAIN fs /\ fs'[q] = fs[q]
        BY <1>2, <4>1, RemoverSteps
      <4>3. \A f \in Fields \ {"alone"} : thread'[w][f] = thread[w][f]
        BY <1>2, <3>2, <4>1, RecordStays
      <4> QED
        BY <4>1, <4>2, <4>3, CopyStays, KeepingSpares DEF LossInv
    <3> QED
      BY <3>1, <3>2
  <2>2. \A u \in Threads : /\ thread'[u].was = thread[u].was
                           /\ thread'[u].job = thread[u].job
    BY <1>2, OwnStays, RecordStays DEF Fields
  <2>3. (\A p \in DOMAIN fs : fs[p].of \in Data \ forfeit => WholeSomewhere(fs[p].of))'
    <3> SUFFICES ASSUME NEW p \in DOMAIN fs', fs'[p].of \in Data \ forfeit'
                 PROVE  WholeSomewhere(fs[p].of)'
      OBVIOUS
    <3>1. PICK q \in DOMAIN fs : fs[q].of = fs'[p].of
      BY <2>1 DEF Spares
    <3>2. WholeSomewhere(fs[q].of)
      BY <2>1, <3>1 DEF Spares, LossInv
    <3> QED
      BY <2>1, <3>1, <3>2 DEF Spares, WholeSomewhere, Whole
  <2>4. NothingLost'
    <3> SUFFICES ASSUME NEW u \in Threads, NEW p \in DOMAIN thread'[u].was,
                        thread'[u].was[p].of \in Data \ forfeit'
                 PROVE  \E q \in DOMAIN fs' : fs'[q] = Whole(thread'[u].was[p].of)
      BY DEF NothingLost, Whole
    <3> DEFINE d == thread[u].was[p].of
    <3>1. thread'[u].was[p].of = d /\ p \in DOMAIN thread[u].was
      BY <2>2
    <3>2. WholeSomewhere(d) /\ d \in Data \ forfeit'
      BY <2>1, <3>1 DEF Spares, LossInv, NothingLost, WholeSomewhere
    <3>3. \A e \in Data \ forfeit' :
            WholeSomewhere(e) => \E q \in DOMAIN fs' : fs'[q] = Whole(e)
      BY <2>1 DEF Spares, WholeSomewhere, Whole
    <3> QED
      BY <3>1, <3>2, <3>3
  <2>5. Removers'
    BY <1>2, <2>2, JobsStay DEF LossInv, Removers, Threads
  <2> QED
    BY <2>1, <2>3, <2>4, <2>5 DEF LossInv
<1>3. ASSUME NEW t \in Threads, Begin(t)
      PROVE  LossInv'
  <2>1. /\ fs' = fs /\ forfeit' = forfeit /\ counters' = counters
        /\ \E job \in jobs[t] :
             /\ jobs' = [jobs EXCEPT ![t] = @ \ {job}]
             /\ Set(t, [Idle EXCEPT !.pc = "items", !.job = job, !.was = fs,
                                    !.items = job.items])
    BY <1>3 DEF Begin
  <2>2. PICK job \in jobs[t] :
          /\ jobs' = [jobs EXCEPT ![t] = @ \ {job}]
          /\ Set(t, [Idle EXCEPT !.pc = "items", !.job = job, !.was = fs, !.items = job.items])
    BY <2>1
  <2> DEFINE r == [Idle EXCEPT !.pc = "items", !.job = job, !.was = fs, !.items = job.items]
             n == thread'[t]
  <2>3. /\ {"pc", "job", "was"} \subseteq DOMAIN r
        /\ r["pc"] = "items" /\ r["job"] = job /\ r["was"] = fs
    BY DEF Idle
  <2>4. n = r ++ thread[t]
    BY <2>2 DEF Set
  <2> HIDE DEF r
  <2>5. n.pc = "items" /\ n.job = job /\ n.was = fs
    BY <2>3, <2>4 DEF ++
  <2> HIDE DEF n
  <2>6. ASSUME NEW u \in Threads, u # t
        PROVE  \A f \in Fields \ {"alone"} : thread'[u][f] = thread[u][f]
    BY <1>3, <2>6, RecordStays
  <2>7. Keeping
    BY <2>1 DEF Keeping
  <2>8. (\A p \in DOMAIN fs : fs[p].of \in Data \ forfeit => WholeSomewhere(fs[p].of))'
    BY <2>1 DEF LossInv, WholeSomewhere, Whole
  <2>9. NothingLost'
    <3> SUFFICES ASSUME NEW u \in Threads, NEW p \in DOMAIN thread'[u].was,
                        thread'[u].was[p].of \in Data \ forfeit'
                 PROVE  \E q \in DOMAIN fs' : fs'[q] = Whole(thread'[u].was[p].of)
      BY DEF NothingLost, Whole
    <3>1. CASE u = t
      BY <2>1, <2>5, <3>1 DEF n, LossInv, WholeSomewhere
    <3>2. CASE u # t
      <4>1. thread'[u].was = thread[u].was
        BY <2>6, <3>2 DEF Fields
      <4> QED
        BY <2>1, <4>1 DEF LossInv, NothingLost
    <3> QED
      BY <3>1, <3>2
  <2>10. (\A u \in Worker : CopyOK(u))'
    <3>1. CASE t = w
      BY <2>5, <3>1 DEF CopyOK, n, InCopy
    <3>2. CASE t # w
      <4>1. w \in Threads /\ CopyOK(w)
        BY DEF Threads, LossInv
      <4> QED
        BY <2>1, <2>6, <2>7, <3>2, <4>1, CopyStays
    <3> QED
      BY <3>1, <3>2
  <2>11. Removers'
    <3> SUFFICES ASSUME NEW u \in Http
                 PROVE  /\ thread'[u].job.kind \in {"none", "remove"}
                        /\ \A j \in jobs'[u] : j.kind = "remove"
      BY DEF Removers
    <3>1. u \in Threads /\ jobs'[u] \subseteq jobs[u]
      BY <2>2 DEF Threads, Inv
    <3>2. \A j \in jobs'[u] : j.kind = "remove"
      BY <3>1 DEF LossInv, Removers
    <3>3. CASE u = t
      BY <2>5, <3>2, <3>3 DEF n, LossInv, Removers
    <3>4. CASE u # t
      BY <2>6, <3>1, <3>2, <3>4 DEF LossInv, Removers, Fields
    <3> QED
      BY <3>2, <3>3, <3>4
  <2> QED
    BY <2>8, <2>9, <2>10, <2>11 DEF LossInv
<1> QED
  BY <1>1, <1>2, <1>3 DEF Next

LEMMA LossInit ==
  ASSUME RequestsRemove, Init
  PROVE  LossInv
<1>1. /\ fs \in Trees /\ thread = [t \in Threads |-> Idle] /\ jobs \in Jobs /\ forfeit = {}
  BY DEF Init
<1>2. Idle.pc = "idle" /\ Idle.job.kind = "none" /\ Idle.was = <<>>
  BY DEF Idle, NoJob
<1>3. ASSUME NEW p \in DOMAIN fs, fs[p].of \in Data
      PROVE  WholeSomewhere(fs[p].of)
  <2>1. PICK d \in Data : fs[p] = Whole(d)
    BY <1>1, <1>3, TreesAre, DataNotDir
  <2>2. fs[p].of = d
    BY <2>1, DataNotDir
  <2> QED
    BY <2>1, <2>2 DEF WholeSomewhere
<1>4. \A t \in Threads : DOMAIN thread[t].was = {} /\ thread[t].pc = "idle"
                         /\ thread[t].job.kind = "none"
  BY <1>1, <1>2
<1>5. NothingLost /\ \A t \in Worker : CopyOK(t)
  BY <1>4 DEF NothingLost, CopyOK, InCopy, Threads
<1>6. Removers
  BY <1>1, <1>4 DEF RequestsRemove, Removers, Threads
<1> QED
  BY <1>3, <1>5, <1>6 DEF LossInv

(* What was on the devices is still there, whole, somewhere, unless the user    *)
(* let a file be overwritten or had it removed: while the one worker pastes,     *)
(* whatever fails or is cancelled on the way, and whatever the HTTP server is    *)
(* asked to remove meanwhile.                                                    *)
THEOREM NothingLostAlways ==
  ASSUME NEW w, Worker = {w}, "flush" \notin Faults[w], RequestsRemove
  PROVE  Spec => []NothingLost
<1>1. Spec => []Inv
  BY InitInv, NextInv, PTL DEF Spec
<1>2. Init => LossInv
  BY LossInit
<1>3. Inv /\ LossInv /\ [Next]_vars => LossInv'
  BY LossNext
<1>4. Spec => []LossInv
  BY <1>1, <1>2, <1>3, PTL DEF Spec
<1>5. LossInv => NothingLost
  BY DEF LossInv
<1> QED
  BY <1>4, <1>5, PTL
=============================================================================
