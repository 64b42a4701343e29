----------------------------- MODULE PasteProofs -----------------------------
(***************************************************************************)
(* A paste that ended well is complete: everything of the items is where   *)
(* it belongs, and of a cut nothing is left behind.  Proved for all trees, *)
(* of any depth, and all jobs that fit them.                               *)
(*                                                                         *)
(* The invariant, PasteOK, says of a job that no other thread has          *)
(* disturbed what is still ToPaste, which is what waits to have its turn   *)
(* or lies at or under an entry some level of the walk has left: that is   *)
(* where it was, the rest of the job is where it belongs (Placed), of a    *)
(* cut nothing else is left (Gone), the walk stands where its job has led  *)
(* it (Track), and the copy at hand is as long as the counters say         *)
(* (CopyIs).                                                               *)
(***************************************************************************)
EXTENDS FileOpsProofs

-----------------------------------------------------------------------------
(***************************************************************************)
(* Images: what is below a directory `home', put below `dest'.             *)
(***************************************************************************)
LEMMA ImageMoves ==
  ASSUME NEW home \in Seq(Name), NEW dest \in Seq(Name),
         NEW a \in Seq(Name), NEW b \in Seq(Name), IsPrefix(home, a), IsPrefix(home, b)
  PROVE  /\ IsPrefix(dest \o Rest(home, a), dest \o Rest(home, b)) <=> IsPrefix(a, b)
         /\ dest \o Rest(home, a) = dest \o Rest(home, b) => a = b
<1> DEFINE x == dest \o Rest(home, a)
           y == dest \o Rest(home, b)
<1>1. /\ x \in Seq(Name) /\ y \in Seq(Name) /\ IsPrefix(dest, x) /\ IsPrefix(dest, y)
      /\ home \o Rest(dest, x) = a /\ home \o Rest(dest, y) = b
  BY Grafted DEF IsGraft
<1>2. IsPrefix(a, b) => IsPrefix(x, y)
  BY GraftedPrefix
<1> HIDE DEF x, y
<1>3. IsPrefix(x, y) => IsPrefix(home \o Rest(dest, x), home \o Rest(dest, y))
  BY <1>1, GraftedPrefix
<1> QED
  BY <1>1, <1>2, <1>3 DEF x, y

(* The image of what lies in home itself. *)
LEMMA ImageTop ==
  ASSUME NEW dest \in Seq(Name), NEW p \in Path
  PROVE  Into(dest, p) = dest \o Rest(Front(p), p)
<1> DEFINE s == Rest(Front(p), p)
           x == dest \o s
           y == Append(dest, Last(p))
<1>1. /\ p \in Seq(Name) /\ p # <<>> /\ Len(p) \in Nat \ {0} /\ Len(dest) \in Nat
      /\ Last(p) \in Name /\ Front(p) \in Seq(Name) /\ Len(Front(p)) = Len(p) - 1
      /\ IsPrefix(Front(p), p)
  BY FrontIs, LastIs, EmptySeq, LenProperties DEF Path
<1>2. s \in Seq(Name) /\ Len(s) = Len(p) - (Len(p) - 1)
      /\ \A i \in 1..(Len(p) - (Len(p) - 1)) : s[i] = p[Len(p) - 1 + i]
  <2>1. IsRest(Name, Front(p), p, s)
    BY <1>1, RestIs
  <2> HIDE DEF s
  <2> QED
    BY <1>1, <2>1 DEF IsRest
<1>3. Len(s) = 1 /\ s[1] = p[Len(p)]
  <2>1. \A n \in Nat : n - (n - 1) = 1 /\ n - 1 + 1 = n
    OBVIOUS
  <2> QED
    BY <1>1, <1>2, <2>1
<1> HIDE DEF s
<1>4. Joins(Name, dest, s, x)
  BY <1>2, Joined
<1>5. /\ y \in Seq(Name) /\ Len(y) = Len(dest) + 1
      /\ \A i \in 1..Len(dest) : y[i] = dest[i]
      /\ y[Len(dest) + 1] = Last(p)
  BY <1>1, AppendProperties
<1> HIDE DEF x, y
<1>6. x \in Seq(Name) /\ Len(x) = Len(dest) + 1 /\ x[Len(dest) + 1] = p[Len(p)]
      /\ \A i \in 1..Len(dest) : x[i] = dest[i]
  BY <1>1, <1>3, <1>4 DEF Joins
<1>7. \A i \in 1..Len(x) : x[i] = y[i]
  BY <1>1, <1>5, <1>6 DEF Last
<1>8. x = y
  BY <1>5, <1>6, <1>7, SeqEqual
<1> QED
  BY <1>8 DEF x, y, s, Into

(* Step by step: the image of an entry lies in the image of its directory. *)
LEMMA ImageStep ==
  ASSUME NEW home \in Seq(Name), NEW dest \in Seq(Name), NEW a \in Seq(Name), NEW b \in Seq(Name),
         IsPrefix(home, a), IsPrefix(a, b)
  PROVE  (dest \o Rest(home, a)) \o Rest(a, b) = dest \o Rest(home, b)
<1> DEFINE x == dest \o Rest(home, a)
           y == x \o Rest(a, b)
           z == dest \o Rest(home, b)
<1>0. /\ IsPrefix(home, b) /\ Len(home) \in Nat /\ Len(a) \in Nat /\ Len(b) \in Nat
      /\ Len(dest) \in Nat /\ Len(home) <= Len(a) /\ Len(a) <= Len(b)
  BY PrefixTrans, PrefixDef, LenProperties
<1>1. /\ x \in Seq(Name) /\ Len(x) = Len(dest) + (Len(a) - Len(home))
      /\ \A i \in 1..Len(dest) : x[i] = dest[i]
      /\ \A k \in 1..(Len(a) - Len(home)) : x[Len(dest) + k] = a[Len(home) + k]
  <2>1. IsGraft(Name, home, a, dest, x)
    BY Grafted
  <2> HIDE DEF x
  <2> QED
    BY <2>1 DEF IsGraft
<1>2. /\ z \in Seq(Name) /\ Len(z) = Len(dest) + (Len(b) - Len(home))
      /\ \A i \in 1..Len(dest) : z[i] = dest[i]
      /\ \A k \in 1..(Len(b) - Len(home)) : z[Len(dest) + k] = b[Len(home) + k]
  <2>1. IsGraft(Name, home, b, dest, z)
    BY <1>0, Grafted
  <2> HIDE DEF z
  <2> QED
    BY <2>1 DEF IsGraft
<1> HIDE DEF x, z
<1>3. /\ y \in Seq(Name) /\ Len(y) = Len(x) + (Len(b) - Len(a))
      /\ \A i \in 1..Len(x) : y[i] = x[i]
      /\ \A k \in 1..(Len(b) - Len(a)) : y[Len(x) + k] = b[Len(a) + k]
  <2>1. IsGraft(Name, a, b, x, y)
    BY <1>1, Grafted
  <2> HIDE DEF y
  <2> QED
    BY <2>1 DEF IsGraft
<1> HIDE DEF y
<1>4. Len(y) = Len(z)
  BY <1>0, <1>1, <1>2, <1>3
<1>5. ASSUME NEW i \in 1..Len(z)
      PROVE  y[i] = z[i]
  <2>1. CASE i <= Len(dest)
    <3>1. i \in 1..Len(dest) /\ i \in 1..Len(x)
      BY <1>0, <1>1, <1>2, <2>1
    <3> QED
      BY <1>1, <1>2, <1>3, <3>1
  <2>2. CASE Len(dest) < i /\ i <= Len(x)
    <3> DEFINE k == i - Len(dest)
    <3>1. /\ k \in 1..(Len(a) - Len(home)) /\ k \in 1..(Len(b) - Len(home))
          /\ i = Len(dest) + k /\ i \in 1..Len(x) /\ Len(home) + k \in 1..Len(a)
      BY <1>0, <1>1, <1>2, <2>2
    <3>2. a[Len(home) + k] = b[Len(home) + k]
      BY <3>1, PrefixDef
    <3> HIDE DEF k
    <3> QED
      BY <1>1, <1>2, <1>3, <3>1, <3>2
  <2>3. CASE Len(x) < i
    <3> DEFINE k == i - Len(x)
               m == i - Len(dest)
    <3>0. /\ i \in Nat /\ i <= Len(dest) + (Len(b) - Len(home)) /\ Len(x) < i
          /\ Len(x) = Len(dest) + (Len(a) - Len(home))
          /\ Len(home) \in Nat /\ Len(a) \in Nat /\ Len(b) \in Nat /\ Len(dest) \in Nat
          /\ Len(home) <= Len(a) /\ Len(a) <= Len(b)
      BY <1>0, <1>1, <1>2, <2>3
    <3>1. /\ k \in 1..(Len(b) - Len(a)) /\ m \in 1..(Len(b) - Len(home))
          /\ i = Len(dest) + m /\ i = Len(x) + k /\ Len(home) + m = Len(a) + k
      BY <3>0
    <3> HIDE DEF k, m
    <3> QED
      BY <1>2, <1>3, <3>1
  <2> QED
    BY <1>0, <1>1, <2>1, <2>2, <2>3
<1>6. y = z
  BY <1>2, <1>3, <1>4, <1>5, SeqEqual
<1> QED
  BY <1>6 DEF x, y, z

(* What is above an image is above dest, dest, or itself an image. *)
Put(home, dest, a) == dest \o Rest(home, a)

LEMMA ImageAbove ==
  ASSUME NEW home \in Seq(Name), NEW dest \in Seq(Name), NEW a \in Seq(Name), IsPrefix(home, a),
         NEW x \in Seq(Name), IsPrefix(x, Put(home, dest, a)), ~IsPrefix(x, dest)
  PROVE  \E b \in Seq(Name) : /\ IsPrefix(home, b) /\ b # home /\ IsPrefix(b, a)
                              /\ x = Put(home, dest, b)
<1> USE DEF Put
<1> DEFINE y == dest \o Rest(home, a)
           b == home \o Rest(dest, x)
<1>1. y \in Seq(Name) /\ IsPrefix(dest, y) /\ home \o Rest(dest, y) = a
  BY Grafted DEF IsGraft
<1>2. Len(x) \in Nat /\ Len(dest) \in Nat
  BY LenProperties
<1>3. CASE Len(x) <= Len(dest)
  BY <1>1, <1>3, PrefixTree DEF Put
<1>4. CASE Len(dest) < Len(x)
  <2>1. IsPrefix(dest, x)
    <3>1. Len(dest) <= Len(x)
      BY <1>2, <1>4
    <3> QED
      BY <1>1, <3>1, PrefixTree
  <2>2. /\ b \in Seq(Name) /\ IsPrefix(home, b) /\ dest \o Rest(home, b) = x
        /\ Len(b) = Len(home) + (Len(x) - Len(dest))
    <3>1. IsGraft(Name, dest, x, home, b)
      BY <2>1, Grafted
    <3> HIDE DEF b
    <3> QED
      BY <3>1 DEF IsGraft
  <2> HIDE DEF y
  <2>3. IsPrefix(home \o Rest(dest, x), home \o Rest(dest, y))
    BY <1>1, <2>1, GraftedPrefix DEF y
  <2> HIDE DEF b
  <2>4. b # home
    BY <1>2, <1>4, <2>2, LenProperties
  <2>5. IsPrefix(b, a)
    BY <1>1, <2>3 DEF b
  <2> QED
    BY <2>2, <2>4, <2>5
<1>5. Len(x) <= Len(dest) \/ Len(dest) < Len(x)
  BY <1>2
<1> QED
  BY <1>3, <1>4, <1>5

-----------------------------------------------------------------------------
(***************************************************************************)
(* The paste of a job as thread t was given it, when the devices were       *)
(* `was': what is to be pasted, and where it belongs.                       *)
(***************************************************************************)
Home(job) == IF job.items = {} THEN <<>> ELSE Front(CHOOSE p \in job.items : TRUE)
Image(job, q) == job.dest \o Rest(Home(job), q)

Chosen(t, job, was) ==
  {p \in job.items :
     t \in Worker => Front(p) # job.dest /\ ~(was[p] = Dir /\ IsPrefix(p, job.dest))}
Within(t, job, was, x) == \E p \in Chosen(t, job, was) : IsPrefix(p, x)
Marked(t, job, was) == {q \in DOMAIN was : Within(t, job, was, q)}

(* What Fits says of a job to paste. *)
Suits(t, job, was) ==
  /\ job.items \subseteq Path /\ job.dest \in Seq(Name) /\ Tree(was)
  /\ \A p \in job.items : Front(p) = Home(job)
  /\ job.dest \in DOMAIN was /\ was[job.dest] = Dir
  /\ \A q \in Marked(t, job, was) \cup Chosen(t, job, was) :
       /\ ~Within(t, job, was, Image(job, q))
       /\ q \in DOMAIN was /\ Image(job, q) \in DOMAIN was =>
            (was[q] = Dir <=> was[Image(job, q)] = Dir)

LEMMA WithinUp ==
  ASSUME NEW t, NEW job, NEW was, job.items \subseteq Path,
         NEW x \in Seq(Name), NEW y \in Seq(Name), IsPrefix(x, y), Within(t, job, was, x)
  PROVE  Within(t, job, was, y)
<1>1. PICK p \in Chosen(t, job, was) : IsPrefix(p, x)
  BY DEF Within
<1>2. p \in Seq(Name)
  BY DEF Chosen, Path
<1> QED
  BY <1>1, <1>2, PrefixTrans DEF Within

(* What is to be pasted lies in the home directory, its image outside of it all. *)
LEMMA MarkedIs ==
  ASSUME NEW t, NEW job, NEW was, Suits(t, job, was),
         NEW q \in Marked(t, job, was) \cup Chosen(t, job, was)
  PROVE  /\ q \in Path /\ q \in Seq(Name) /\ Home(job) \in Seq(Name)
         /\ IsPrefix(Home(job), q) /\ q # Home(job)
         /\ Within(t, job, was, q)
         /\ Image(job, q) \in Path /\ Image(job, q) \in Seq(Name)
         /\ IsPrefix(job.dest, Image(job, q)) /\ job.dest # Image(job, q)
         /\ ~Within(t, job, was, Image(job, q))
<1> DEFINE home == Home(job)
           image == Image(job, q)
<1>0. job.items \subseteq Path /\ job.dest \in Seq(Name) /\ DOMAIN was \subseteq Path
  BY DEF Suits, Tree
<1>1. q \in Path /\ q \in Seq(Name)
  BY <1>0 DEF Marked, Chosen, Path
<1>2. PICK p \in Chosen(t, job, was) : IsPrefix(p, q)
  <2>1. CASE q \in Marked(t, job, was)
    BY <2>1 DEF Marked, Within
  <2>2. CASE q \in Chosen(t, job, was)
    BY <1>1, <2>2, PrefixSelf
  <2> QED
    BY <2>1, <2>2
<1>3. p \in job.items /\ p \in Path /\ p \in Seq(Name) /\ p # <<>>
  BY <1>0 DEF Chosen, Path
<1>4. Front(p) = home
  BY <1>3 DEF Suits
<1>5. home \in Seq(Name) /\ IsPrefix(home, p) /\ Len(home) = Len(p) - 1
  BY <1>3, <1>4, FrontIs
<1>6. IsPrefix(home, q)
  BY <1>1, <1>2, <1>3, <1>5, PrefixTrans
<1>7. q # home
  <2>1. Len(p) <= Len(q) /\ Len(p) \in Nat
    BY <1>1, <1>2, <1>3, PrefixDef, LenProperties
  <2> QED
    BY <1>5, <2>1
<1>8. Within(t, job, was, q)
  BY <1>2 DEF Within
<1>9. image \in Seq(Name) /\ IsPrefix(job.dest, image)
      /\ Len(image) = Len(job.dest) + (Len(q) - Len(home))
  <2>1. IsGraft(Name, home, q, job.dest, image)
    BY <1>0, <1>1, <1>5, <1>6, Grafted DEF Image
  <2> HIDE DEF image
  <2> QED
    BY <2>1 DEF IsGraft
<1>10. Len(home) <= Len(q) /\ (Len(home) = Len(q) => home = q)
       /\ Len(home) \in Nat /\ Len(q) \in Nat /\ Len(job.dest) \in Nat
  BY <1>0, <1>1, <1>5, <1>6, PrefixDef, PrefixSame, LenProperties
<1> HIDE DEF image, home
<1>11. Len(image) > Len(job.dest)
  BY <1>7, <1>9, <1>10
<1>12. image # job.dest /\ image # <<>>
  BY <1>10, <1>11, EmptySeq
<1>13. ~Within(t, job, was, Image(job, q))
  BY DEF Suits
<1> QED
  BY <1>1, <1>5, <1>6, <1>7, <1>8, <1>9, <1>12, <1>13 DEF image, home, Path

(* What lies between the home directory and something to be pasted. *)
LEMMA MarkedUp ==
  ASSUME NEW t, NEW job, NEW was, Suits(t, job, was),
         NEW q \in Marked(t, job, was) \cup Chosen(t, job, was),
         NEW b \in Seq(Name), IsPrefix(Home(job), b), b # Home(job), IsPrefix(b, q)
  PROVE  /\ b \in Marked(t, job, was) \cup Chosen(t, job, was)
         /\ b # q => b \in Marked(t, job, was) /\ was[b] = Dir
<1> DEFINE home == Home(job)
<1>0. job.items \subseteq Path /\ q \in Seq(Name) /\ home \in Seq(Name) /\ Tree(was)
  BY MarkedIs DEF Suits
<1>1. PICK p \in Chosen(t, job, was) : IsPrefix(p, q)
  BY MarkedIs DEF Within
<1>2. p \in job.items /\ p \in Seq(Name) /\ p # <<>> /\ Front(p) = home
  BY <1>0 DEF Chosen, Path, Suits
<1>3. Len(home) = Len(p) - 1 /\ Len(p) \in Nat /\ Len(b) \in Nat /\ Len(q) \in Nat
      /\ Len(home) \in Nat
  BY <1>0, <1>2, FrontIs, LenProperties
<1>4. Len(home) <= Len(b) /\ (Len(home) = Len(b) => home = b)
  BY <1>0, PrefixDef, PrefixSame
<1> HIDE DEF home
<1>5. Len(p) <= Len(b)
  BY <1>3, <1>4 DEF home
<1>6. IsPrefix(p, b)
  BY <1>0, <1>1, <1>2, <1>5, PrefixTree
<1>7. Within(t, job, was, b)
  BY <1>6 DEF Within
<1>8. CASE b = q
  BY <1>8
<1>9. CASE b # q
  <2>1. b \in Path
    <3>1. b # <<>>
      BY <1>2, <1>3, <1>5, EmptySeq
    <3> QED
      BY <3>1 DEF Path
  <2>2. q \in DOMAIN was
    <3>1. CASE q \in Marked(t, job, was)
      BY <3>1 DEF Marked
    <3>2. CASE q \notin Marked(t, job, was)
      <4>1. q \in Chosen(t, job, was)
        BY <3>2
      <4>2. Front(q) = home /\ q # <<>>
        BY <1>0, <4>1 DEF Chosen, Path, Suits, home
      <4>3. IsPrefix(b, home)
        BY <1>0, <1>9, <4>2, FrontIs
      <4> QED
        BY <1>0, <1>4, <4>3, PrefixDef, PrefixSame DEF home
    <3> QED
      BY <3>1, <3>2
  <2>3. b \in DOMAIN was /\ was[b] = Dir
    BY <1>0, <1>9, <2>1, <2>2 DEF Tree
  <2> QED
    BY <1>7, <2>3 DEF Marked
<1> QED
  BY <1>8, <1>9

(* Different things have different images. *)
LEMMA ImageOne ==
  ASSUME NEW t, NEW job, NEW was, Suits(t, job, was),
         NEW a \in Marked(t, job, was) \cup Chosen(t, job, was),
         NEW b \in Marked(t, job, was) \cup Chosen(t, job, was)
  PROVE  /\ Image(job, a) = Image(job, b) => a = b
         /\ IsPrefix(Image(job, a), Image(job, b)) <=> IsPrefix(a, b)
<1>1. job.dest \in Seq(Name)
  BY DEF Suits
<1> QED
  BY <1>1, MarkedIs, ImageMoves DEF Image

LEMMA DestOut ==
  ASSUME NEW t, NEW job, NEW was, Suits(t, job, was), NEW x, Within(t, job, was, x)
  PROVE  ~Within(t, job, was, job.dest)
<1>1. PICK p \in Chosen(t, job, was) : IsPrefix(p, x)
  BY DEF Within
<1>2. job.dest \in Seq(Name) /\ job.items \subseteq Path
  BY DEF Suits
<1> QED
  BY <1>1, <1>2, MarkedIs, WithinUp

(***************************************************************************)
(* The devices f when P is still to be pasted: that is where it was and as   *)
(* it was, the rest is where it belongs, and nothing is in the way.          *)
(***************************************************************************)
Placed(t, job, was, f, P) ==
  /\ job.dest \in DOMAIN f /\ f[job.dest] = Dir
  /\ \A x \in DOMAIN f : Within(t, job, was, x) => x \in DOMAIN was /\ f[x] = was[x]
  /\ \A q \in Marked(t, job, was) : q \in P \/ job.kind = "copy" => q \in DOMAIN f
  /\ \A q \in Marked(t, job, was) \ P :
       Image(job, q) \in DOMAIN f /\ f[Image(job, q)] = was[q]
  /\ \A q \in Marked(t, job, was) :
       Image(job, q) \in DOMAIN f => (f[Image(job, q)] = Dir <=> was[q] = Dir)

(* Something is where it belongs, and is no longer to be pasted. *)
LEMMA PlacedMore ==
  ASSUME NEW t, NEW job, NEW was, NEW f, NEW P, NEW Q,
         Placed(t, job, was, f, P), Q \subseteq P,
         \A q \in Marked(t, job, was) : q \in P \ Q =>
           Image(job, q) \in DOMAIN f /\ f[Image(job, q)] = was[q]
  PROVE  Placed(t, job, was, f, Q)
BY DEF Placed

(* Something that is no longer to be pasted is taken away. *)
LEMMA PlacedLess ==
  ASSUME NEW t, NEW job, NEW was, Suits(t, job, was), NEW f, NEW P,
         Placed(t, job, was, f, P), job.kind = "move",
         NEW x, Within(t, job, was, x), x \notin P
  PROVE  Placed(t, job, was, Unlinked(f, {x}), P)
<1> DEFINE g == Unlinked(f, {x})
<1>1. DOMAIN g = DOMAIN f \ {x} /\ \A y \in DOMAIN g : g[y] = f[y]
  BY DEF Unlinked
<1>2. job.dest # x /\ \A q \in Marked(t, job, was) : Image(job, q) # x
  BY MarkedIs, DestOut
<1> HIDE DEF g
<1> QED
  BY <1>1, <1>2 DEF Placed, g

(* A file is written where it belongs. *)
LEMMA PlacedFile ==
  ASSUME NEW t, NEW job, NEW was, Suits(t, job, was), NEW f, NEW P,
         Placed(t, job, was, f, P),
         NEW from \in Marked(t, job, was), from \in P, was[from] # Dir,
         NEW g, DOMAIN g = DOMAIN f \cup {Image(job, from)},
         \A x \in DOMAIN f : x # Image(job, from) => g[x] = f[x],
         g[Image(job, from)] # Dir
  PROVE  Placed(t, job, was, g, P)
<1> DEFINE to == Image(job, from)
<1>1. job.dest # to /\ ~Within(t, job, was, to)
  BY MarkedIs
<1>2. \A q \in Marked(t, job, was) : Image(job, q) = to => q = from
  BY ImageOne
<1>3. DOMAIN g = DOMAIN f \cup {to} /\ \A x \in DOMAIN f : x # to => g[x] = f[x]
  OBVIOUS
<1>4. g[to] # Dir
  OBVIOUS
<1> HIDE DEF to
<1>5. job.dest \in DOMAIN g /\ g[job.dest] = Dir
  BY <1>1, <1>3 DEF Placed
<1>6. \A x \in DOMAIN g : Within(t, job, was, x) => x \in DOMAIN was /\ g[x] = was[x]
  BY <1>1, <1>3 DEF Placed
<1>7. \A q \in Marked(t, job, was) : q \in P \/ job.kind = "copy" => q \in DOMAIN g
  BY <1>3 DEF Placed
<1>8. \A q \in Marked(t, job, was) \ P :
        Image(job, q) \in DOMAIN g /\ g[Image(job, q)] = was[q]
  BY <1>2, <1>3 DEF Placed
<1>9. \A q \in Marked(t, job, was) :
        Image(job, q) \in DOMAIN g => (g[Image(job, q)] = Dir <=> was[q] = Dir)
  BY <1>2, <1>3, <1>4 DEF Placed
<1> QED
  BY <1>5, <1>6, <1>7, <1>8, <1>9 DEF Placed

(* mkdir on the way to where a directory belongs: that one is then there. *)
LEMMA PlacedDirs ==
  ASSUME NEW t, NEW job, NEW was, Suits(t, job, was), NEW f, Tree(f), NEW P,
         Placed(t, job, was, f, P),
         NEW from \in Marked(t, job, was) \cup Chosen(t, job, was),
         from \in DOMAIN was => was[from] = Dir
  PROVE  /\ Placed(t, job, was, MkDirs(f, Image(job, from)), P)
         /\ from \in DOMAIN was =>
              /\ Image(job, from) \in DOMAIN MkDirs(f, Image(job, from))
              /\ MkDirs(f, Image(job, from))[Image(job, from)] = Dir
<1> DEFINE to == Image(job, from)
           g == MkDirs(f, to)
           above == {SubSeq(to, 1, i) : i \in 1..Len(to)}
           made == {q \in above \ DOMAIN f : \A r \in DOMAIN f : IsPrefix(r, q) => f[r].of = "dir"}
<1>1. /\ to \in Seq(Name) /\ to # <<>> /\ from \in Seq(Name) /\ Home(job) \in Seq(Name)
      /\ IsPrefix(Home(job), from) /\ job.dest \in Seq(Name) /\ DOMAIN f \subseteq Path
      /\ Tree(was)
  BY MarkedIs DEF Suits, Path, Tree
<1>2. Len(to) \in Nat /\ Len(to) \in 1..Len(to)
  BY <1>1, LenProperties, EmptySeq
<1>3. /\ DOMAIN g = DOMAIN f \cup made
      /\ \A x \in DOMAIN f : g[x] = f[x]
      /\ \A x \in made : x \notin DOMAIN f /\ g[x] = Dir
  <2>1. g = f ++ [q \in made |-> Dir]
    BY DEF MkDirs
  <2>2. DOMAIN [q \in made |-> Dir] = made
    OBVIOUS
  <2>3. made \cap DOMAIN f = {}
    OBVIOUS
  <2> HIDE DEF made, g
  <2> QED
    BY <2>1, <2>2, <2>3 DEF ++
<1>4. \A x \in above : x \in Seq(Name) /\ IsPrefix(x, to) /\ x # <<>>
  <2> TAKE x \in above
  <2>1. PICK i \in 1..Len(to) : x = SubSeq(to, 1, i)
    OBVIOUS
  <2>2. x \in Seq(Name) /\ Len(x) = i /\ \A k \in 1..i : x[k] = to[k]
    <3>1. 1 \in 1..(Len(to) + 1) /\ i \in 0..Len(to)
      BY <1>2
    <3> QED
      BY <1>1, <1>2, <2>1, <3>1, SubSeqProperties
  <2>3. IsPrefix(x, to)
    BY <1>1, <1>2, <2>2, PrefixDef
  <2> QED
    BY <2>2, <2>3, EmptySeq
<1>5. to \in above
  BY <1>1, <1>2, SubSeqFull
<1> HIDE DEF g, above
  (* What stands above to is a directory, and what is made is an image. *)
<1>6. ASSUME NEW x \in Seq(Name), IsPrefix(x, to), x # <<>>
      PROVE  \/ x \in DOMAIN f /\ f[x] = Dir
             \/ \E b \in Marked(t, job, was) \cup Chosen(t, job, was) :
                  IsPrefix(b, from) /\ x = Image(job, b) /\ (b = from \/ was[b] = Dir)
  <2>1. CASE IsPrefix(x, job.dest)
    <3>1. x \in Path
      BY <1>6 DEF Path
    <3> QED
      BY <2>1, <3>1 DEF Placed, Tree
  <2>2. CASE ~IsPrefix(x, job.dest)
    <3>1. PICK b \in Seq(Name) : /\ IsPrefix(Home(job), b) /\ b # Home(job) /\ IsPrefix(b, from)
                                 /\ x = job.dest \o Rest(Home(job), b)
      <4>1. IsPrefix(x, job.dest \o Rest(Home(job), from))
        BY <1>6 DEF Image
      <4> DEFINE home == Home(job)
                 dest == job.dest
      <4>2. /\ home \in Seq(Name) /\ dest \in Seq(Name) /\ from \in Seq(Name) /\ IsPrefix(home, from)
            /\ x \in Seq(Name) /\ IsPrefix(x, Put(home, dest, from)) /\ ~IsPrefix(x, dest)
        BY <1>1, <1>6, <2>2, <4>1 DEF Put
      <4> HIDE DEF to, made, home, dest
      <4>3. \E b \in Seq(Name) : /\ IsPrefix(home, b) /\ b # home /\ IsPrefix(b, from)
                                 /\ x = Put(home, dest, b)
        BY <4>2, ImageAbove
      <4> QED
        BY <4>3 DEF home, dest, Put
    <3>2. x = Image(job, b)
      BY <3>1 DEF Image
    <3>3. b \in Marked(t, job, was) \cup Chosen(t, job, was) /\ (b # from => was[b] = Dir)
      BY <3>1, MarkedUp
    <3> QED
      BY <3>1, <3>2, <3>3
  <2> QED
    BY <2>1, <2>2
<1>7. ASSUME NEW x \in made
      PROVE  \E b \in Marked(t, job, was) \cup Chosen(t, job, was) :
               x = Image(job, b) /\ (b \in DOMAIN was => was[b] = Dir)
  <2>1. x \in above /\ x \notin DOMAIN f
    BY <1>7
  <2> HIDE DEF made
  <2> QED
    BY <1>4, <1>6, <2>1
<1>8. from \in DOMAIN was => to \in DOMAIN g /\ g[to] = Dir
  <2> SUFFICES ASSUME from \in DOMAIN was
               PROVE  to \in DOMAIN g /\ g[to] = Dir
    OBVIOUS
  <2>1. from \in Marked(t, job, was)
    BY MarkedIs DEF Marked
  <2>2. CASE to \in DOMAIN f
    BY <1>3, <2>1, <2>2 DEF Placed
  <2>3. CASE to \notin DOMAIN f
    <3>1. ASSUME NEW r \in DOMAIN f, IsPrefix(r, to)
          PROVE  f[r] = Dir
      <4>1. r \in Seq(Name) /\ r # <<>>
        BY <1>1, <3>1 DEF Path
      <4>2. CASE r \in DOMAIN f /\ f[r] = Dir
        BY <4>2
      <4>3. CASE \E b \in Marked(t, job, was) \cup Chosen(t, job, was) :
                   IsPrefix(b, from) /\ r = Image(job, b) /\ (b = from \/ was[b] = Dir)
        <5>1. PICK b \in Marked(t, job, was) \cup Chosen(t, job, was) :
                   IsPrefix(b, from) /\ r = Image(job, b) /\ (b = from \/ was[b] = Dir)
          BY <4>3
        <5>2. b \in Marked(t, job, was)
          <6>1. b \in Path /\ Within(t, job, was, b)
            BY MarkedIs
          <6>2. b \in DOMAIN was
            BY <1>1, <5>1, <6>1 DEF Tree
          <6> QED
            BY <6>1, <6>2 DEF Marked
        <5> QED
          BY <3>1, <5>1, <5>2 DEF Placed
      <4> QED
        BY <1>6, <3>1, <4>1, <4>2, <4>3
    <3>2. \A r \in DOMAIN f : IsPrefix(r, to) => f[r].of = "dir"
      BY <3>1 DEF Dir
    <3>3. to \in made
      BY <1>5, <2>3, <3>2
    <3> HIDE DEF made
    <3> QED
      BY <1>3, <3>3
  <2> QED
    BY <2>2, <2>3
<1> HIDE DEF made
<1>9. job.dest \in DOMAIN g /\ g[job.dest] = Dir
  BY <1>3 DEF Placed
<1>10. \A x \in DOMAIN g : Within(t, job, was, x) => x \in DOMAIN was /\ g[x] = was[x]
  BY <1>3, <1>7, MarkedIs DEF Placed
<1>11. \A q \in Marked(t, job, was) : q \in P \/ job.kind = "copy" => q \in DOMAIN g
  BY <1>3 DEF Placed
<1>12. \A q \in Marked(t, job, was) \ P :
         Image(job, q) \in DOMAIN g /\ g[Image(job, q)] = was[q]
  BY <1>3 DEF Placed
<1>13. ASSUME NEW q \in Marked(t, job, was), Image(job, q) \in DOMAIN g
       PROVE  g[Image(job, q)] = Dir <=> was[q] = Dir
  <2>1. CASE Image(job, q) \in DOMAIN f
    BY <1>3, <2>1 DEF Placed
  <2>2. CASE Image(job, q) \in made
    <3>1. PICK b \in Marked(t, job, was) \cup Chosen(t, job, was) :
             Image(job, q) = Image(job, b) /\ (b \in DOMAIN was => was[b] = Dir)
      BY <1>7, <2>2
    <3>2. q = b
      BY <3>1, ImageOne
    <3>3. q \in DOMAIN was
      BY DEF Marked
    <3> QED
      BY <1>3, <2>2, <3>1, <3>2, <3>3
  <2> QED
    BY <1>3, <1>13, <2>1, <2>2
<1>14. Placed(t, job, was, g, P)
  BY <1>9, <1>10, <1>11, <1>12, <1>13 DEF Placed
<1> QED
  BY <1>8, <1>14 DEF g

(* rename of all that is left to paste of something to where it belongs. *)
LEMMA PlacedRenamed ==
  ASSUME NEW t, NEW job, NEW was, Suits(t, job, was), Tree(fs), NEW P,
         Placed(t, job, was, fs, P), job.kind = "move",
         NEW from \in Marked(t, job, was),
         \A q \in Marked(t, job, was) : IsPrefix(from, q) => q \in P,
         NEW g, RenameMoves(from, Image(job, from), g)
  PROVE  /\ Placed(t, job, was, g, P \ {q \in P : IsPrefix(from, q)})
         /\ \A x \in DOMAIN g : Within(t, job, was, x) => x \in DOMAIN fs /\ ~IsPrefix(from, x)
<1> DEFINE to == Image(job, from)
           K == DOMAIN fs \ (Under(from) \cup Under(to))
           Q == P \ {q \in P : IsPrefix(from, q)}
<1>1. /\ from \in Seq(Name) /\ Home(job) \in Seq(Name) /\ IsPrefix(Home(job), from)
      /\ job.dest \in Seq(Name) /\ Within(t, job, was, from) /\ job.items \subseteq Path
      /\ DOMAIN fs \subseteq Path /\ job.dest # to
  BY MarkedIs DEF Suits, Tree
<1>2. /\ DOMAIN g = K \cup {to \o Rest(from, q) : q \in Under(from)}
      /\ \A q \in K : g[q] = fs[q]
      /\ \A q \in Under(from) : g[to \o Rest(from, q)] = fs[q]
      /\ Under(to) \subseteq {to}
  BY DEF RenameMoves, Kept
<1>3. ASSUME NEW q \in Under(from)
      PROVE  q \in Marked(t, job, was) /\ to \o Rest(from, q) = Image(job, q) /\ fs[q] = was[q]
  <2>1. q \in DOMAIN fs /\ IsPrefix(from, q) /\ q \in Seq(Name)
    BY <1>1 DEF Under, Path
  <2>2. Within(t, job, was, q)
    BY <1>1, <2>1, WithinUp
  <2>3. q \in DOMAIN was /\ fs[q] = was[q]
    BY <2>1, <2>2 DEF Placed
  <2>4. to \o Rest(from, q) = Image(job, q)
    BY <1>1, <2>1, ImageStep DEF Image
  <2> QED
    BY <2>2, <2>3, <2>4 DEF Marked
<1> HIDE DEF K, to
<1>4. /\ DOMAIN g = K \cup {Image(job, q) : q \in Under(from)}
      /\ \A q \in Under(from) : g[Image(job, q)] = was[q] /\ q \in Marked(t, job, was)
  BY <1>2, <1>3
<1>5. ASSUME NEW q \in Marked(t, job, was), ~IsPrefix(from, q)
      PROVE  Image(job, q) \in DOMAIN fs => Image(job, q) \in K
  <2>1. Image(job, q) # to
    <3>1. from # q
      BY <1>1, <1>5, PrefixSelf
    <3> QED
      BY <3>1, ImageOne DEF to
  <2>2. ~IsPrefix(from, Image(job, q))
    BY <1>1, MarkedIs, WithinUp
  <2> QED
    BY <1>2, <2>1, <2>2 DEF K, Under
<1>6. ASSUME NEW q \in Marked(t, job, was), IsPrefix(from, q)
      PROVE  Image(job, q) \in DOMAIN g /\ g[Image(job, q)] = was[q]
  <2>1. q \in DOMAIN fs
    BY <1>6 DEF Placed
  <2>2. q \in Under(from)
    BY <1>6, <2>1 DEF Under
  <2> QED
    BY <1>4, <2>2
<1>7. \A x \in DOMAIN g : Within(t, job, was, x) => x \in K
  BY <1>4, MarkedIs
<1>8. \A x \in K : x \in DOMAIN fs /\ ~IsPrefix(from, x)
  BY DEF K, Under
<1>9. job.dest \in DOMAIN g /\ g[job.dest] = Dir
  <2>1. job.dest \in DOMAIN fs /\ fs[job.dest] = Dir
    BY DEF Placed
  <2>2. ~IsPrefix(from, job.dest)
    BY <1>1, DestOut, WithinUp
  <2>3. job.dest \in K
    BY <1>1, <1>2, <2>1, <2>2 DEF K, Under, to
  <2> QED
    BY <1>2, <2>1, <2>3
<1>10. \A x \in DOMAIN g : Within(t, job, was, x) => x \in DOMAIN was /\ g[x] = was[x]
  BY <1>2, <1>7, <1>8 DEF Placed
<1>11. ASSUME NEW q \in Marked(t, job, was), q \in Q
       PROVE  q \in DOMAIN g
  <2>1. q \in DOMAIN fs /\ ~IsPrefix(from, q)
    BY <1>11 DEF Placed
  <2>2. Within(t, job, was, q) /\ ~Within(t, job, was, to)
    BY MarkedIs DEF to
  <2>3. q \in K
    BY <1>2, <2>1, <2>2 DEF K, Under
  <2> QED
    BY <1>2, <2>3
<1>12. ASSUME NEW q \in Marked(t, job, was), q \notin Q
       PROVE  Image(job, q) \in DOMAIN g /\ g[Image(job, q)] = was[q]
  <2>1. CASE IsPrefix(from, q)
    BY <1>6, <2>1
  <2>2. CASE ~IsPrefix(from, q)
    <3>1. q \notin P
      BY <1>12, <2>2
    <3>2. Image(job, q) \in DOMAIN fs /\ fs[Image(job, q)] = was[q]
      BY <3>1 DEF Placed
    <3> QED
      BY <1>2, <1>5, <2>2, <3>2
  <2> QED
    BY <2>1, <2>2
<1>13. ASSUME NEW q \in Marked(t, job, was), Image(job, q) \in DOMAIN g
       PROVE  g[Image(job, q)] = Dir <=> was[q] = Dir
  <2>1. CASE Image(job, q) \in K
    BY <1>2, <1>8, <2>1 DEF Placed
  <2>2. CASE Image(job, q) \notin K
    <3>1. PICK r \in Under(from) : Image(job, q) = Image(job, r)
      BY <1>4, <1>13, <2>2
    <3>2. r = q
      BY <1>4, <3>1, ImageOne
    <3> QED
      BY <1>4, <3>2
  <2> QED
    BY <2>1, <2>2
<1>14. Placed(t, job, was, g, Q)
  BY <1>9, <1>10, <1>11, <1>12, <1>13 DEF Placed
<1> QED
  BY <1>7, <1>8, <1>14

-----------------------------------------------------------------------------
(***************************************************************************)
(* The directories a walk is in, and the entries it has left of each: no    *)
(* entry lies under another, and none at or above a directory.              *)
(***************************************************************************)
Spotted(s, x) == \E i \in DOMAIN s : \E e \in s[i].todo : IsPrefix(e.path, x)

Nested(s) ==
  /\ \A i, j \in DOMAIN s : i < j => Len(s[i].src) < Len(s[j].src)
  /\ \A i, j \in DOMAIN s : \A e \in s[i].todo : \A d \in s[j].todo :
       IsPrefix(e.path, d.path) => i = j /\ e = d
  /\ \A i \in DOMAIN s : ~Spotted(s, s[i].src)

(* A path below them that is apart from the entries. *)
Clear(s, p) ==
  /\ \A i \in DOMAIN s : Len(s[i].src) < Len(p)
  /\ ~Spotted(s, p)
  /\ \A i \in DOMAIN s : \A e \in s[i].todo : ~IsPrefix(p, e.path)

LEMMA LevelEntry ==
  ASSUME NEW job, NEW l \in Levels(job)
  PROVE  /\ l.src \in Path /\ l.src \in Seq(Name) /\ Len(l.src) \in Nat
         /\ \A e \in l.todo :
              /\ e.path \in Path /\ e.path \in Seq(Name)
              /\ IsPrefix(l.src, e.path) /\ Len(e.path) = Len(l.src) + 1
              /\ \A q \in Seq(Name) : IsPrefix(q, e.path) => q = e.path \/ IsPrefix(q, l.src)
<1>1. l.src \in Path /\ l.src \in Seq(Name) /\ Len(l.src) \in Nat
  BY LenProperties DEF Levels, Path
<1>2. ASSUME NEW e \in l.todo
      PROVE  /\ e.path \in Path /\ e.path \in Seq(Name)
             /\ IsPrefix(l.src, e.path) /\ Len(e.path) = Len(l.src) + 1
             /\ \A q \in Seq(Name) : IsPrefix(q, e.path) => q = e.path \/ IsPrefix(q, l.src)
  <2>1. e.path \in Path /\ e.path \in Seq(Name) /\ e.path # <<>> /\ Front(e.path) = l.src
    BY DEF Levels, EntryRecord, Path
  <2>2. Len(e.path) \in Nat
    BY <2>1, LenProperties
  <2>3. Len(l.src) = Len(e.path) - 1
    BY <2>1, FrontIs
  <2> QED
    BY <1>1, <2>1, <2>2, <2>3, FrontIs
<1> QED
  BY <1>1, <1>2

LEMMA NestedPush ==
  ASSUME NEW job, NEW s \in Seq(Levels(job)), NEW l \in Levels(job),
         Nested(s), Clear(s, l.src), \A e, d \in l.todo : e.path = d.path => e = d
  PROVE  /\ DOMAIN Append(s, l) = 1..(Len(s) + 1) /\ DOMAIN s = 1..Len(s) /\ Len(s) \in Nat
         /\ \A i \in DOMAIN s : Append(s, l)[i] = s[i]
         /\ Append(s, l)[Len(s) + 1] = l
         /\ Nested(Append(s, l))
         /\ \A x : Spotted(Append(s, l), x) <=>
                     Spotted(s, x) \/ \E e \in l.todo : IsPrefix(e.path, x)
<1> DEFINE n == Append(s, l)
           k == Len(s) + 1
<1>1. /\ DOMAIN n = 1..k /\ DOMAIN s = 1..Len(s) /\ Len(s) \in Nat
      /\ \A i \in DOMAIN s : n[i] = s[i]
      /\ n[k] = l
  <2>1. DOMAIN n = 1..Len(n) /\ n \in Seq(Levels(job))
    BY AppendProperties
  <2> QED
    BY <2>1, AppendProperties, LenProperties
<1> HIDE DEF n
<1>2. DOMAIN n = DOMAIN s \cup {k} /\ k \notin DOMAIN s /\ \A i \in DOMAIN s : i < k
  BY <1>1
<1> HIDE DEF k
<1>3. \A x : Spotted(n, x) <=> Spotted(s, x) \/ \E e \in l.todo : IsPrefix(e.path, x)
  BY <1>1, <1>2 DEF Spotted
<1>4. \A i \in DOMAIN s : s[i] \in Levels(job)
  BY <1>1
<1>5. \A i, j \in DOMAIN n : i < j => Len(n[i].src) < Len(n[j].src)
  <2>1. k \in Nat /\ \A i \in DOMAIN s : i \in Nat
    BY <1>1 DEF k
  <2>2. ~(k < k) /\ \A i \in DOMAIN s : ~(k < i)
    BY <1>2, <2>1
  <2>3. \A i, j \in DOMAIN s : i < j => Len(s[i].src) < Len(s[j].src)
    BY DEF Nested
  <2>4. \A i \in DOMAIN s : Len(s[i].src) < Len(l.src)
    BY DEF Clear
  <2> TAKE i, j \in DOMAIN n
  <2>5. CASE j \in DOMAIN s
    BY <1>1, <1>2, <2>2, <2>3, <2>5
  <2>6. CASE j = k
    BY <1>1, <1>2, <2>2, <2>4, <2>6
  <2> QED
    BY <1>2, <2>5, <2>6
<1>6. ASSUME NEW e \in l.todo, NEW i \in DOMAIN s, NEW d \in s[i].todo
      PROVE  ~IsPrefix(e.path, d.path) /\ ~IsPrefix(d.path, e.path)
  <2>1. /\ e.path \in Seq(Name) /\ l.src \in Seq(Name) /\ IsPrefix(l.src, e.path)
        /\ \A q \in Seq(Name) : IsPrefix(q, e.path) => q = e.path \/ IsPrefix(q, l.src)
    BY LevelEntry
  <2>2. d.path \in Seq(Name)
    BY <1>4, LevelEntry
  <2>3. ~IsPrefix(l.src, d.path) /\ ~IsPrefix(d.path, l.src)
    BY DEF Clear, Spotted
  <2>4. ~IsPrefix(e.path, d.path)
    BY <2>1, <2>2, <2>3, PrefixTrans
  <2> QED
    BY <2>1, <2>2, <2>3, <2>4
<1>7. ASSUME NEW e \in l.todo, NEW d \in l.todo, IsPrefix(e.path, d.path)
      PROVE  e = d
  BY <1>7, LevelEntry, PrefixSame
<1>8. \A i, j \in DOMAIN n : \A e \in n[i].todo : \A d \in n[j].todo :
        IsPrefix(e.path, d.path) => i = j /\ e = d
  BY <1>1, <1>2, <1>6, <1>7 DEF Nested
<1>9. ASSUME NEW i \in DOMAIN n
      PROVE  ~Spotted(n, n[i].src)
  <2>1. CASE i = k
    <3>1. ASSUME NEW e \in l.todo, IsPrefix(e.path, l.src)
          PROVE  FALSE
      <4>1. Len(e.path) = Len(l.src) + 1 /\ Len(l.src) \in Nat /\ Len(e.path) <= Len(l.src)
        BY <3>1, LevelEntry, PrefixDef
      <4> QED
        BY <4>1
    <3> QED
      BY <1>1, <1>3, <2>1, <3>1 DEF Clear
  <2>2. CASE i \in DOMAIN s
    <3>1. ASSUME NEW e \in l.todo, IsPrefix(e.path, s[i].src)
          PROVE  FALSE
      <4>1. /\ Len(e.path) = Len(l.src) + 1 /\ Len(l.src) \in Nat /\ e.path \in Seq(Name)
            /\ s[i].src \in Seq(Name) /\ Len(s[i].src) \in Nat /\ Len(s[i].src) < Len(l.src)
        BY <1>4, <2>2, LevelEntry DEF Clear
      <4>2. Len(e.path) <= Len(s[i].src)
        BY <3>1, <4>1, PrefixDef
      <4> QED
        BY <4>1, <4>2
    <3> QED
      BY <1>1, <1>3, <2>2, <3>1 DEF Nested
  <2> QED
    BY <1>2, <2>1, <2>2
<1> QED
  BY <1>1, <1>3, <1>5, <1>8, <1>9 DEF Nested, n, k

Took(s, e) == Front(s) \o <<[Last(s) EXCEPT !.todo = @ \ {e}]>>

LEMMA NestedTake ==
  ASSUME NEW job, NEW s \in Seq(Levels(job)), s # <<>>, Nested(s), NEW e \in Last(s).todo,
         NEW n, n = Took(s, e)
  PROVE  /\ DOMAIN n = DOMAIN s
         /\ \A i \in DOMAIN s : /\ n[i].src = s[i].src /\ n[i].dest = s[i].dest
                                /\ n[i].todo \subseteq s[i].todo
         /\ Nested(n) /\ Clear(n, e.path)
         /\ \A x : Spotted(s, x) <=> Spotted(n, x) \/ IsPrefix(e.path, x)
<1> DEFINE k == Len(s)
           l == [Last(s) EXCEPT !.todo = @ \ {e}]
           above == Front(s)
<1>1. /\ DOMAIN s = 1..k /\ k \in Nat \ {0} /\ Last(s) = s[k] /\ \A i \in DOMAIN s : s[i] \in Levels(job)
  BY LenProperties, EmptySeq DEF Last
<1>2. s[k] \in Levels(job) /\ k \in DOMAIN s
  BY <1>1
<1>3. l \in Levels(job) /\ l.src = s[k].src /\ l.dest = s[k].dest /\ l.todo = s[k].todo \ {e}
  BY <1>1, <1>2 DEF Levels
<1>4. /\ above \in Seq(Levels(job)) /\ Len(above) = k - 1
      /\ \A i \in 1..(k - 1) : above[i] = s[i]
  <2>1. above \in Seq(Levels(job)) /\ Len(above) = k - 1 /\ IsPrefix(above, s)
    BY FrontIs
  <2> QED
    BY <2>1, PrefixDef
<1> HIDE DEF k, l, above
<1>5. n = Append(above, l)
  BY <1>3, <1>4, AppendIsConcat DEF l, above, Took
<1>6. /\ n \in Seq(Levels(job)) /\ Len(n) = k
      /\ \A i \in 1..(k - 1) : n[i] = s[i]
      /\ n[k] = l
  <2>0. /\ n \in Seq(Levels(job)) /\ Len(n) = Len(above) + 1
        /\ \A i \in 1..Len(above) : n[i] = above[i]
        /\ n[Len(above) + 1] = l
    <3> DEFINE L == Levels(job)
    <3>1. above \in Seq(L) /\ l \in L
      BY <1>3, <1>4
    <3> HIDE DEF L
    <3>2. /\ Append(above, l) \in Seq(L) /\ Len(Append(above, l)) = Len(above) + 1
          /\ \A i \in 1..Len(above) : Append(above, l)[i] = above[i]
          /\ Append(above, l)[Len(above) + 1] = l
      BY <3>1, AppendProperties
    <3> QED
      BY <1>5, <3>2 DEF L
  <2>1. Len(n) = (k - 1) + 1 /\ n[(k - 1) + 1] = l /\ n \in Seq(Levels(job))
        /\ \A i \in 1..(k - 1) : n[i] = above[i]
    BY <1>4, <2>0
  <2>2. (k - 1) + 1 = k
    BY <1>1
  <2> QED
    BY <1>4, <2>1, <2>2
<1>7. DOMAIN n = DOMAIN s /\ \A i \in DOMAIN s : i = k \/ n[i] = s[i]
  BY <1>1, <1>6, LenProperties
<1>8. \A i \in DOMAIN s : /\ n[i].src = s[i].src /\ n[i].dest = s[i].dest
                          /\ n[i].todo \subseteq s[i].todo
                          /\ \A d \in s[i].todo : d \in n[i].todo \/ (d = e /\ i = k)
  BY <1>3, <1>6, <1>7
<1>9. e \in s[k].todo /\ e \notin n[k].todo
  BY <1>1, <1>3, <1>6
<1>10. e.path \in Seq(Name) /\ IsPrefix(e.path, e.path) /\ Len(e.path) = Len(s[k].src) + 1
       /\ Len(s[k].src) \in Nat
  BY <1>2, <1>9, LevelEntry, PrefixSelf
<1>11. \A x : Spotted(s, x) <=> Spotted(n, x) \/ IsPrefix(e.path, x)
  BY <1>2, <1>7, <1>8, <1>9 DEF Spotted
<1>12. Nested(n)
  <2>0. /\ \A i, j \in DOMAIN s : i < j => Len(s[i].src) < Len(s[j].src)
        /\ \A i, j \in DOMAIN s : \A c \in s[i].todo : \A d \in s[j].todo :
             IsPrefix(c.path, d.path) => i = j /\ c = d
    BY DEF Nested
  <2>1. \A i, j \in DOMAIN n : i < j => Len(n[i].src) < Len(n[j].src)
    <3> TAKE i, j \in DOMAIN n
    <3>1. i \in DOMAIN s /\ j \in DOMAIN s /\ n[i].src = s[i].src /\ n[j].src = s[j].src
      BY <1>7, <1>8
    <3> QED
      BY <2>0, <3>1
  <2>2. \A i, j \in DOMAIN n : \A c \in n[i].todo : \A d \in n[j].todo :
          IsPrefix(c.path, d.path) => i = j /\ c = d
    <3> TAKE i, j \in DOMAIN n
    <3>1. /\ i \in DOMAIN s /\ j \in DOMAIN s
          /\ n[i].todo \subseteq s[i].todo /\ n[j].todo \subseteq s[j].todo
      BY <1>7, <1>8
    <3> QED
      BY <2>0, <3>1
  <2>3. \A i \in DOMAIN n : ~Spotted(n, n[i].src)
    BY <1>7, <1>8, <1>11 DEF Nested
  <2> QED
    BY <2>1, <2>2, <2>3 DEF Nested
<1>13. \A i \in DOMAIN n : Len(n[i].src) < Len(e.path)
  <2> TAKE i \in DOMAIN n
  <2>1. n[i].src = s[i].src /\ i \in DOMAIN s
    BY <1>7, <1>8
  <2>2. i = k \/ i < k
    BY <1>1, <2>1
  <2>3. i < k => Len(s[i].src) < Len(s[k].src)
    BY <1>2, <2>1 DEF Nested
  <2>4. Len(s[i].src) \in Nat
    BY <1>1, <2>1, LevelEntry
  <2> QED
    BY <1>10, <2>1, <2>2, <2>3, <2>4
<1>14. ASSUME NEW i \in DOMAIN n, NEW d \in n[i].todo
       PROVE  ~IsPrefix(d.path, e.path) /\ ~IsPrefix(e.path, d.path)
  <2>1. i \in DOMAIN s /\ d \in s[i].todo /\ ~(i = k /\ d = e)
    BY <1>7, <1>8, <1>9, <1>14
  <2> QED
    BY <1>2, <1>9, <2>1 DEF Nested
<1>15. Clear(n, e.path)
  BY <1>13, <1>14 DEF Clear, Spotted
<1> QED
  BY <1>7, <1>8, <1>11, <1>12, <1>15

LEMMA NestedPop ==
  ASSUME NEW job, NEW s \in Seq(Levels(job)), s # <<>>, Nested(s), Last(s).todo = {}
  PROVE  /\ DOMAIN Front(s) \subseteq DOMAIN s /\ \A i \in DOMAIN Front(s) : Front(s)[i] = s[i]
         /\ \A i \in DOMAIN s : i \in DOMAIN Front(s) \/ s[i] = Last(s)
         /\ Nested(Front(s))
         /\ \A x : Spotted(Front(s), x) <=> Spotted(s, x)
         /\ Last(s) \in Levels(job) /\ \E i \in DOMAIN s : s[i] = Last(s)
         /\ \A x \in Seq(Name) : IsPrefix(Last(s).src, x) /\ Len(x) = Len(Last(s).src) + 1 =>
              ~Spotted(s, x) /\ \A i \in DOMAIN s : s[i].src # x
<1> DEFINE k == Len(s)
           n == Front(s)
<1>1. /\ DOMAIN s = 1..k /\ k \in Nat \ {0} /\ Last(s) = s[k] /\ \A i \in DOMAIN s : s[i] \in Levels(job)
  BY LenProperties, EmptySeq DEF Last
<1>2. n \in Seq(Levels(job)) /\ Len(n) = k - 1 /\ \A i \in 1..(k - 1) : n[i] = s[i]
  <2>1. n \in Seq(Levels(job)) /\ Len(n) = k - 1 /\ IsPrefix(n, s)
    BY FrontIs
  <2> QED
    BY <2>1, PrefixDef
<1>3. DOMAIN n = 1..(k - 1)
  BY <1>2, LenProperties
<1> HIDE DEF n, k
<1>4. /\ DOMAIN n \subseteq DOMAIN s /\ k \in DOMAIN s /\ \A i \in DOMAIN n : n[i] = s[i]
      /\ \A i \in DOMAIN s : i \in DOMAIN n \/ i = k
      /\ \A i \in DOMAIN s : i # k => i < k
  BY <1>1, <1>2, <1>3
<1>5. \A x : Spotted(n, x) <=> Spotted(s, x)
  BY <1>1, <1>4 DEF Spotted
<1>6. Nested(n)
  <2>1. \A i \in DOMAIN n : ~Spotted(n, n[i].src)
    BY <1>4, <1>5 DEF Nested
  <2> QED
    BY <1>4, <2>1 DEF Nested
<1>7. ASSUME NEW x \in Seq(Name), IsPrefix(s[k].src, x), Len(x) = Len(s[k].src) + 1
      PROVE  ~Spotted(s, x) /\ \A i \in DOMAIN s : s[i].src # x
  <2>1. s[k].src \in Seq(Name) /\ Len(s[k].src) \in Nat
    BY <1>1, <1>4, LevelEntry
  <2>2. ASSUME NEW i \in DOMAIN s, s[i].src = x
        PROVE  FALSE
    <3>1. i = k \/ Len(s[i].src) < Len(s[k].src)
      BY <1>4 DEF Nested
    <3> QED
      BY <1>7, <2>1, <2>2, <3>1
  <2>3. ASSUME NEW i \in DOMAIN s, NEW e \in s[i].todo, IsPrefix(e.path, x)
        PROVE  FALSE
    <3>1. i # k
      BY <1>1, <2>3
    <3>2. Len(s[i].src) < Len(s[k].src)
      BY <1>4, <3>1 DEF Nested
    <3>3. e.path \in Seq(Name) /\ Len(e.path) = Len(s[i].src) + 1 /\ Len(s[i].src) \in Nat
      BY <1>1, LevelEntry
    <3>4. Len(e.path) <= Len(s[k].src)
      BY <2>1, <3>2, <3>3
    <3>5. IsPrefix(e.path, s[k].src)
      BY <1>7, <2>1, <2>3, <3>3, <3>4, PrefixTree
    <3> QED
      BY <1>4, <3>5 DEF Nested, Spotted
  <2> QED
    BY <2>2, <2>3 DEF Spotted
<1> QED
  BY <1>1, <1>4, <1>5, <1>6, <1>7 DEF n

-----------------------------------------------------------------------------
(***************************************************************************)
(* What has become of a job to paste, as long as no other thread is about:   *)
(* what waits or lies beneath an entry that is left is as it was, the rest   *)
(* is pasted, and of a cut nothing remains but what is still to be done.      *)
(***************************************************************************)
AtFile == {"file", "ask", "move", "copy", "block", "test", "unlink"}

Good(t, g) ==
  /\ g.job.kind \in {"move", "copy"} /\ g.alone /\ Suits(t, g.job, g.was)
  /\ IF t \in Worker THEN g.plain
     ELSE ~g.failed /\ ~(g.pc = "done" /\ g.ret = 0 /\ ~g.removing)

Waiting(g, x) == \E p \in g.items : IsPrefix(p, x)
Beneath(g, x) == (g.pc \in AtPath /\ IsPrefix(g.from, x)) \/ Spotted(g.stack, x)
ToPaste(t, g) ==
  {q \in Marked(t, g.job, g.was) : Waiting(g, q) \/ (g.pc \in Pasting /\ Beneath(g, q))}

(* The server removes the directories it has moved at the end. *)
Covers(t, g, x) ==
  /\ t \in Http /\ g.item.isDir /\ ~g.removing /\ g.pc \notin {"items", "idle"}
  /\ IsPrefix(g.item.path, x)
Around(t, g, x) ==
  Waiting(g, x) \/ Beneath(g, x) \/ (\E i \in DOMAIN g.stack : g.stack[i].src = x) \/ Covers(t, g, x)

(* A directory that a walk is in. *)
LevelFits(g, l) ==
  /\ IsPrefix(g.item.path, l.src) /\ (l.src \in DOMAIN g.was => g.was[l.src] = Dir)
  /\ ~g.removing => /\ l.dest = Image(g.job, l.src)
                    /\ \A e \in l.todo : e.path \in DOMAIN g.was /\ (e.isDir <=> g.was[e.path] = Dir)

Track(t, g) ==
  /\ Nested(g.stack)
  /\ \A i \in DOMAIN g.stack : LevelFits(g, g.stack[i])
  /\ g.pc \in AtPath => Clear(g.stack, g.from) /\ IsPrefix(g.item.path, g.from)
  /\ g.pc \in {"idle", "items", "done"} => g.stack = <<>>
  /\ g.pc = "idle" => g.items = {}
  /\ g.pc \notin {"idle", "items"} => g.item.path \in Chosen(t, g.job, g.was) \ g.items
  /\ g.pc \in Pasting => ~g.removing /\ (g.pc # "entries" => g.to = Image(g.job, g.from))
  /\ g.pc \in Removing => g.removing /\ g.item.isDir
  /\ g.pc = "enter" => /\ g.from \in Marked(t, g.job, g.was) \cup Chosen(t, g.job, g.was)
                       /\ g.from \in DOMAIN g.was => g.was[g.from] = Dir
  /\ g.pc \in AtFile => g.from \in DOMAIN g.was /\ g.was[g.from] # Dir
  /\ t \in Http /\ (g.pc = "enter" \/ g.stack # <<>>) => g.item.isDir

Gone(t, g, f) ==
  g.plain /\ g.job.kind = "move" =>
    \A x \in DOMAIN f : Within(t, g.job, g.was, x) => Around(t, g, x)

(* The copy at hand is as long as both counts say. *)
CopyIs(g, f, done, total) ==
  LET w == g.was[g.from]
  IN /\ g.pc \in InCopy =>
          g.to \in DOMAIN f /\ g.data = w.of /\ f[g.to].of = w.of
     /\ g.pc \in {"block", "test"} =>
          f[g.to].blocks = g.block /\ done = g.block /\ total = w.blocks /\ g.block <= w.blocks
     /\ g.pc = "unlink" => f[g.to] = w

PasteOK(t, g, f, done, total) ==
  /\ Track(t, g) /\ Placed(t, g.job, g.was, f, ToPaste(t, g)) /\ Gone(t, g, f)
  /\ CopyIs(g, f, done, total)

Pastes(t) ==
  Good(t, thread[t]) => PasteOK(t, thread[t], fs, bytes_transfered, bytes_to_download)

(* The items lie side by side. *)
LEMMA ItemsOne ==
  ASSUME NEW t, NEW job, NEW was, Suits(t, job, was), NEW i \in job.items, NEW p \in job.items,
         NEW x \in Seq(Name), IsPrefix(i, x), IsPrefix(p, x)
  PROVE  p = i
<1>1. /\ p \in Seq(Name) /\ p # <<>> /\ Front(p) = Home(job) /\ Len(p) \in Nat
      /\ i \in Seq(Name) /\ i # <<>> /\ Front(i) = Home(job) /\ Len(i) \in Nat
  BY LenProperties DEF Path, Suits
<1>2. Len(p) = Len(i)
  <2>1. Len(Home(job)) = Len(p) - 1 /\ Len(Home(job)) = Len(i) - 1
    BY <1>1, FrontIs
  <2> QED
    BY <1>1, <2>1
<1>3. Len(p) <= Len(i)
  BY <1>1, <1>2
<1>4. IsPrefix(p, i)
  BY <1>1, <1>3, PrefixTree
<1> QED
  BY <1>1, <1>2, <1>4, PrefixSame

LEMMA ItemsApart ==
  ASSUME NEW t, NEW g, ThreadOK(t, g), Suits(t, g.job, g.was), NEW i \in g.job.items,
         i \notin g.items, NEW x \in Seq(Name), IsPrefix(i, x)
  PROVE  ~Waiting(g, x)
<1> SUFFICES ASSUME NEW p \in g.items, IsPrefix(p, x)
             PROVE  FALSE
  BY DEF Waiting
<1>1. p \in g.job.items
  BY DEF ThreadOK, Errand
<1>2. p = i
  BY <1>1, ItemsOne
<1> QED
  BY <1>2

(* Nothing at or under a clear path is an entry's. *)
LEMMA ClearUnder ==
  ASSUME NEW job, NEW s \in Seq(Levels(job)), NEW p \in Seq(Name), Clear(s, p),
         NEW x \in Seq(Name), IsPrefix(p, x)
  PROVE  ~Spotted(s, x)
<1> SUFFICES ASSUME NEW i \in DOMAIN s, NEW e \in s[i].todo, IsPrefix(e.path, x)
             PROVE  FALSE
  BY DEF Spotted
<1>1. s[i] \in Levels(job)
  BY LenProperties
<1>2. e.path \in Seq(Name)
  BY <1>1, LevelEntry
<1>3. ~IsPrefix(e.path, p) /\ ~IsPrefix(p, e.path)
  BY DEF Clear, Spotted
<1>4. Len(p) \in Nat /\ Len(e.path) \in Nat
  BY <1>2, LenProperties
<1>5. Len(p) <= Len(e.path) \/ Len(e.path) <= Len(p)
  BY <1>4
<1> QED
  BY <1>2, <1>3, <1>5, PrefixTree

(* The path at hand of a job to paste. *)
LEMMA PathAtHand ==
  ASSUME NEW t, NEW g, ThreadOK(t, g), Good(t, g), Track(t, g), g.pc \in AtPath
  PROVE  /\ g.from \in Path /\ g.from \in Seq(Name) /\ Within(t, g.job, g.was, g.from)
         /\ g.stack \in Seq(Levels(g.job)) /\ g.item.path \in Chosen(t, g.job, g.was)
         /\ g.item.path \in Seq(Name)
         /\ \A x \in Seq(Name) : IsPrefix(g.from, x) => ~Waiting(g, x) /\ ~Spotted(g.stack, x)
         /\ \A x \in Seq(Name) : IsPrefix(g.item.path, x) =>
              Within(t, g.job, g.was, x) /\ ~Waiting(g, x)
<1>1. g.pc \notin {"idle", "items"}
  BY DEF AtPath, Pasting
<1>2. /\ g.item.path \in Chosen(t, g.job, g.was) \ g.items
      /\ Clear(g.stack, g.from) /\ IsPrefix(g.item.path, g.from)
      /\ g.from \in Path /\ g.stack \in Seq(Levels(g.job)) /\ g.job.items \subseteq Path
      /\ Suits(t, g.job, g.was)
  BY <1>1 DEF Track, ThreadOK, Place, Walk, Errand, Good
<1>3. g.item.path \in g.job.items /\ g.item.path \in Seq(Name) /\ g.from \in Seq(Name)
  BY <1>2 DEF Chosen, Path
<1>4. \A x \in Seq(Name) : IsPrefix(g.item.path, x) =>
        Within(t, g.job, g.was, x) /\ ~Waiting(g, x)
  BY <1>2, <1>3, ItemsApart DEF Within
<1>5. \A x \in Seq(Name) : IsPrefix(g.from, x) => ~Waiting(g, x) /\ ~Spotted(g.stack, x)
  BY <1>2, <1>3, <1>4, PrefixTrans, ClearUnder
<1> QED
  BY <1>2, <1>3, <1>4, <1>5

(* The file at hand is there as it was, and where it belongs there is room for it. *)
LEMMA FileAtHand ==
  ASSUME NEW t, NEW g, ThreadOK(t, g), Good(t, g), Track(t, g), g.pc \in AtFile,
         Tree(fs), Placed(t, g.job, g.was, fs, ToPaste(t, g))
  PROVE  /\ g.from \in Marked(t, g.job, g.was) /\ g.from \in ToPaste(t, g)
         /\ g.from \in DOMAIN fs /\ fs[g.from] = g.was[g.from] /\ fs[g.from] # Dir
         /\ g.to = Image(g.job, g.from) /\ g.to \in Path /\ g.from # g.to
         /\ ~IsPrefix(g.from, g.to) /\ ~Within(t, g.job, g.was, g.to)
         /\ Front(g.to) \in DOMAIN fs /\ fs[Front(g.to)] = Dir
         /\ g.to \in DOMAIN fs => fs[g.to] # Dir
<1> DEFINE from == g.from
           to == g.to
           job == g.job
           was == g.was
<1>1. g.pc \in AtPath /\ g.pc \in Pasting \ {"entries"}
  BY DEF AtFile, AtPath, Pasting
<1>2. /\ from \in Path /\ from \in Seq(Name) /\ Within(t, job, was, from)
      /\ g.stack \in Seq(Levels(job)) /\ g.item.path \in Chosen(t, job, was)
      /\ g.item.path \in Seq(Name)
      /\ \A x \in Seq(Name) : IsPrefix(from, x) => ~Waiting(g, x) /\ ~Spotted(g.stack, x)
      /\ \A x \in Seq(Name) : IsPrefix(g.item.path, x) =>
           Within(t, job, was, x) /\ ~Waiting(g, x)
  BY <1>1, PathAtHand
<1>3. /\ from \in DOMAIN was /\ was[from] # Dir /\ to = Image(job, from)
      /\ Clear(g.stack, from) /\ IsPrefix(g.item.path, from)
  BY <1>1 DEF Track
<1>4. Suits(t, job, was) /\ Tree(was) /\ job.dest \in Seq(Name)
  BY DEF Good, Suits
<1>5. from \in Marked(t, job, was)
  BY <1>2, <1>3 DEF Marked
<1>6. from \in ToPaste(t, g)
  BY <1>1, <1>2, <1>5, PrefixSelf DEF ToPaste, Beneath
<1>7. from \in DOMAIN fs /\ fs[from] = was[from]
  BY <1>2, <1>5, <1>6 DEF Placed
<1>8. /\ to \in Path /\ to \in Seq(Name) /\ to # <<>> /\ ~Within(t, job, was, to)
      /\ IsPrefix(job.dest, to) /\ job.dest # to
      /\ Home(job) \in Seq(Name) /\ IsPrefix(Home(job), from)
  BY <1>3, <1>4, <1>5, MarkedIs DEF Path
<1>9. ~IsPrefix(from, to) /\ from # to
  <2>1. job.items \subseteq Path
    BY <1>4 DEF Suits
  <2> QED
    BY <1>2, <1>8, <2>1, WithinUp, PrefixSelf
<1>10. to \in DOMAIN fs => fs[to] # Dir
  BY <1>3, <1>5 DEF Placed
<1>11. /\ Front(to) \in Seq(Name) /\ IsPrefix(Front(to), to) /\ Front(to) # to
       /\ IsPrefix(job.dest, Front(to))
  BY <1>4, <1>8, FrontIs
<1>12. ASSUME IsPrefix(Front(to), job.dest)
       PROVE  Front(to) \in DOMAIN fs /\ fs[Front(to)] = Dir
  <2>1. Front(to) = job.dest
    <3>1. Len(Front(to)) = Len(job.dest)
      <4>1. /\ Len(Front(to)) <= Len(job.dest) /\ Len(job.dest) <= Len(Front(to))
            /\ Len(job.dest) \in Nat /\ Len(Front(to)) \in Nat
        BY <1>4, <1>11, <1>12, PrefixDef, LenProperties
      <4> QED
        BY <4>1
    <3> QED
      BY <1>4, <1>11, <1>12, <3>1, PrefixSame
  <2> QED
    BY <2>1 DEF Placed
<1>13. ASSUME ~IsPrefix(Front(to), job.dest)
       PROVE  Front(to) \in DOMAIN fs /\ fs[Front(to)] = Dir
  <2> DEFINE home == Home(job)
             dest == job.dest
             up == Front(to)
  <2>1. /\ home \in Seq(Name) /\ dest \in Seq(Name) /\ IsPrefix(home, from)
        /\ up \in Seq(Name) /\ IsPrefix(up, Put(home, dest, from)) /\ ~IsPrefix(up, dest)
    BY <1>3, <1>4, <1>8, <1>11, <1>13 DEF Image, Put
  <2>2. \E b \in Seq(Name) : /\ IsPrefix(home, b) /\ b # home /\ IsPrefix(b, from)
                             /\ up = Put(home, dest, b)
    <3> HIDE DEF home, dest, up, from
    <3> QED
      BY <1>2, <2>1, ImageAbove
  <2>3. PICK b \in Seq(Name) : /\ IsPrefix(home, b) /\ b # home /\ IsPrefix(b, from)
                               /\ Front(to) = Image(job, b)
    BY <2>2 DEF Put, Image
  <2>4. b # from
    BY <1>3, <1>11, <2>3
  <2>5. b \in Marked(t, job, was) /\ was[b] = Dir
    BY <1>4, <1>5, <2>3, <2>4, MarkedUp
  <2>6. ~Waiting(g, b)
    <3>1. \A p \in g.items : p \in Seq(Name)
      BY DEF ThreadOK, Errand, Path
    <3>2. ~Waiting(g, from)
      BY <1>2, PrefixSelf
    <3> QED
      BY <1>2, <2>3, <3>1, <3>2, PrefixTrans DEF Waiting
  <2>7. ~IsPrefix(from, b)
    <3>1. Len(b) <= Len(from) /\ Len(b) \in Nat /\ Len(from) \in Nat
      BY <1>2, <2>3, PrefixDef, LenProperties
    <3>2. IsPrefix(from, b) => Len(from) <= Len(b)
      BY <1>2, <2>3, PrefixDef
    <3>3. IsPrefix(from, b) => Len(from) = Len(b)
      BY <3>1, <3>2
    <3> QED
      BY <1>2, <2>3, <2>4, <3>3, PrefixSame
  <2>8. ~Spotted(g.stack, b)
    <3>1. \A i \in DOMAIN g.stack : g.stack[i] \in Levels(job)
      BY <1>2, LenProperties
    <3>2. \A i \in DOMAIN g.stack : \A e \in g.stack[i].todo : e.path \in Seq(Name)
      BY <3>1, LevelEntry
    <3>3. ~Spotted(g.stack, from)
      BY <1>3 DEF Clear
    <3> QED
      BY <1>2, <2>3, <3>2, <3>3, PrefixTrans DEF Spotted
  <2>9. b \notin ToPaste(t, g)
    BY <2>6, <2>7, <2>8 DEF ToPaste, Beneath
  <2> QED
    BY <2>3, <2>5, <2>9 DEF Placed
<1> QED
  BY <1>3, <1>5, <1>6, <1>7, <1>8, <1>9, <1>10, <1>12, <1>13

-----------------------------------------------------------------------------
(***************************************************************************)
(* Where a step of the walk leads: what it leaves to do, and around what.   *)
(***************************************************************************)
Keeps(n, g) ==
  /\ n.job = g.job /\ n.was = g.was /\ n.item = g.item /\ n.items = g.items
  /\ n.removing = g.removing /\ n.alone = g.alone /\ n.failed = g.failed
  /\ n.plain => g.plain

LEMMA KeepsFits ==
  ASSUME NEW t, NEW g, NEW n, Keeps(n, g)
  PROVE  /\ \A l : LevelFits(n, l) <=> LevelFits(g, l)
         /\ \A x : Waiting(n, x) <=> Waiting(g, x)
         /\ Marked(t, n.job, n.was) = Marked(t, g.job, g.was)
         /\ Chosen(t, n.job, n.was) = Chosen(t, g.job, g.was)
BY DEF Keeps, LevelFits, Waiting

(* The same file, one step on. *)
LEMMA SameFile ==
  ASSUME NEW t, NEW g, Track(t, g), NEW n, Keeps(n, g),
         g.pc \in AtFile, n.pc \in AtFile, n.from = g.from, n.to = g.to, n.stack = g.stack
  PROVE  /\ Track(t, n) /\ ToPaste(t, n) = ToPaste(t, g)
         /\ \A x : Around(t, g, x) => Around(t, n, x)
<1>1. /\ n.pc \in AtPath /\ n.pc \in Pasting /\ n.pc # "entries" /\ n.pc # "enter"
      /\ n.pc \notin {"idle", "items", "done"} /\ n.pc \notin Removing
      /\ g.pc \in AtPath /\ g.pc \in Pasting /\ g.pc # "entries"
      /\ g.pc \notin {"idle", "items"}
  BY DEF AtFile, AtPath, Pasting, Removing
<1>2. Track(t, n)
  BY <1>1, KeepsFits DEF Track, Keeps
<1>3. \A x : Beneath(n, x) <=> Beneath(g, x)
  BY <1>1 DEF Beneath
<1>4. ToPaste(t, n) = ToPaste(t, g)
  BY <1>1, <1>3, KeepsFits DEF ToPaste
<1>5. \A x : Around(t, g, x) => Around(t, n, x)
  BY <1>1, <1>3, KeepsFits DEF Around, Covers, Keeps
<1> QED
  BY <1>2, <1>4, <1>5

(* The path at hand is done with. *)
LEMMA Returned ==
  ASSUME NEW t, NEW g, ThreadOK(t, g), Good(t, g), Track(t, g), NEW n, Keeps(n, g),
         g.pc \in AtFile \cup {"rm"}, n.stack = g.stack,
         n.pc = IF g.stack = <<>> THEN "done" ELSE IF g.pc = "rm" THEN "rmtest" ELSE "entries"
  PROVE  /\ Track(t, n)
         /\ ToPaste(t, n) = {q \in ToPaste(t, g) : g.pc = "rm" \/ ~IsPrefix(g.from, q)}
         /\ \A x : Around(t, g, x) /\ ~IsPrefix(g.from, x) => Around(t, n, x)
<1>1. /\ g.pc \in AtPath /\ g.pc \notin {"idle", "items"} /\ n.pc \notin AtPath
      /\ n.pc \notin {"idle", "items", "enter"} /\ n.pc \notin AtFile
  BY DEF AtFile, AtPath, Pasting
<1>2. /\ n.pc \in Pasting => n.pc = "entries" /\ g.pc \in AtFile /\ g.pc \in Pasting
      /\ n.pc \in Removing => g.pc \in Removing
      /\ n.pc = "done" => n.stack = <<>>
      /\ g.pc = "rm" => g.pc \notin Pasting /\ n.pc \notin Pasting
      /\ g.pc # "rm" => g.pc \in Pasting /\ (n.pc \in Pasting \/ n.stack = <<>>)
  BY DEF AtFile, Pasting, Removing
<1>3. Track(t, n)
  <2>1. \A i \in DOMAIN n.stack : LevelFits(n, n.stack[i])
    BY KeepsFits DEF Track
  <2>2. /\ Nested(n.stack)
        /\ g.item.path \in Chosen(t, g.job, g.was) \ g.items
        /\ g.pc \in Pasting => ~g.removing
        /\ g.pc \in Removing => g.removing /\ g.item.isDir
        /\ t \in Http /\ n.stack # <<>> => g.item.isDir
    BY <1>1 DEF Track
  <2> QED
    BY <1>1, <1>2, <2>1, <2>2, KeepsFits DEF Track, Keeps
<1>4. \A x : Beneath(n, x) <=> Spotted(g.stack, x)
  BY <1>1 DEF Beneath
<1>5. \A x : Beneath(g, x) <=> IsPrefix(g.from, x) \/ Spotted(g.stack, x)
  BY <1>1 DEF Beneath
<1>6. n.stack = <<>> => \A x : ~Spotted(g.stack, x)
  BY DEF Spotted
<1>7. \A q \in Marked(t, g.job, g.was) :
        IsPrefix(g.from, q) => ~Waiting(g, q) /\ ~Spotted(g.stack, q)
  <2>1. \A q \in Marked(t, g.job, g.was) : q \in Seq(Name)
    BY MarkedIs DEF Good
  <2> QED
    BY <1>1, <2>1, PathAtHand
<1>8. ToPaste(t, n) = {q \in ToPaste(t, g) : g.pc = "rm" \/ ~IsPrefix(g.from, q)}
  <2>1. ToPaste(t, n) = {q \in Marked(t, g.job, g.was) :
                           Waiting(g, q) \/ (n.pc \in Pasting /\ Spotted(g.stack, q))}
    BY <1>4, KeepsFits DEF ToPaste
  <2>2. ToPaste(t, g) = {q \in Marked(t, g.job, g.was) :
                           Waiting(g, q) \/ (g.pc \in Pasting /\ (IsPrefix(g.from, q) \/ Spotted(g.stack, q)))}
    BY <1>5 DEF ToPaste
  <2> QED
    BY <1>2, <1>6, <1>7, <2>1, <2>2
<1>9. ASSUME NEW x, Around(t, g, x), ~IsPrefix(g.from, x)
      PROVE  Around(t, n, x)
  <2>1. CASE Waiting(g, x) \/ Beneath(g, x)
    BY <1>4, <1>5, <1>9, <2>1, KeepsFits DEF Around
  <2>2. CASE \E i \in DOMAIN g.stack : g.stack[i].src = x
    BY <2>2 DEF Around
  <2>3. CASE Covers(t, g, x)
    BY <1>1, <2>3 DEF Around, Covers, Keeps
  <2> QED
    BY <1>9, <2>1, <2>2, <2>3 DEF Around
<1> QED
  BY <1>3, <1>8, <1>9

(* A directory is entered. *)
LEMMA Entered ==
  ASSUME NEW t, NEW g, ThreadOK(t, g), Good(t, g), Track(t, g), NEW n, Keeps(n, g),
         \/ g.pc = "enter" /\ n.pc = "entries"
         \/ g.pc = "rm" /\ n.pc = "rmloop" /\ g.item.isDir,
         NEW l \in Levels(g.job), l.src = g.from, n.stack = Append(g.stack, l),
         \A e, d \in l.todo : e.path = d.path => e = d,
         LevelFits(g, l)
  PROVE  /\ Track(t, n)
         /\ \A x : Beneath(n, x) <=> Spotted(g.stack, x) \/ \E e \in l.todo : IsPrefix(e.path, x)
         /\ \A x : /\ Around(t, g, x)
                   /\ IsPrefix(g.from, x) => x = g.from \/ \E e \in l.todo : IsPrefix(e.path, x)
                   => Around(t, n, x)
<1>1. /\ g.pc \in AtPath /\ g.pc \notin {"idle", "items"} /\ n.pc \notin AtPath
      /\ n.pc \notin {"idle", "items", "done", "enter"} /\ n.pc \notin AtFile
      /\ n.pc \in Pasting => n.pc = "entries" /\ g.pc \in Pasting
      /\ n.pc \in Removing => g.pc \in Removing
  BY DEF AtFile, AtPath, Pasting, Removing
<1>2. g.stack \in Seq(Levels(g.job)) /\ Clear(g.stack, l.src) /\ Nested(g.stack)
  BY <1>1 DEF ThreadOK, Walk, Track
<1>3. /\ DOMAIN n.stack = 1..(Len(g.stack) + 1) /\ DOMAIN g.stack = 1..Len(g.stack)
      /\ Len(g.stack) \in Nat
      /\ \A i \in DOMAIN g.stack : n.stack[i] = g.stack[i]
      /\ n.stack[Len(g.stack) + 1] = l
      /\ Nested(n.stack)
      /\ \A x : Spotted(n.stack, x) <=>
                  Spotted(g.stack, x) \/ \E e \in l.todo : IsPrefix(e.path, x)
  BY <1>2, NestedPush
<1>4. DOMAIN n.stack = DOMAIN g.stack \cup {Len(g.stack) + 1}
  BY <1>3
<1>5. \A i \in DOMAIN n.stack : LevelFits(n, n.stack[i])
  <2>1. \A i \in DOMAIN n.stack : LevelFits(g, n.stack[i])
    BY <1>3, <1>4 DEF Track
  <2> QED
    BY <2>1, KeepsFits
<1>6. Track(t, n)
  <2>1. /\ g.item.path \in Chosen(t, g.job, g.was) \ g.items
        /\ g.pc \in Pasting => ~g.removing
        /\ g.pc \in Removing => g.removing /\ g.item.isDir
        /\ t \in Http => g.item.isDir
    BY <1>1 DEF Track
  <2> QED
    BY <1>1, <1>3, <1>5, <2>1, KeepsFits DEF Track, Keeps
<1>7. \A x : Beneath(n, x) <=> Spotted(g.stack, x) \/ \E e \in l.todo : IsPrefix(e.path, x)
  BY <1>1, <1>3 DEF Beneath
<1>8. ASSUME NEW x, Around(t, g, x),
             IsPrefix(g.from, x) => x = g.from \/ \E e \in l.todo : IsPrefix(e.path, x)
      PROVE  Around(t, n, x)
  <2>1. CASE Waiting(g, x)
    BY <2>1, KeepsFits DEF Around
  <2>2. CASE Beneath(g, x)
    <3>1. CASE x = g.from
      BY <1>3, <1>4, <3>1 DEF Around
    <3>2. CASE x # g.from
      <4>1. Beneath(n, x)
        BY <1>7, <1>8, <2>2, <3>2 DEF Beneath
      <4> QED
        BY <4>1 DEF Around
    <3> QED
      BY <3>1, <3>2
  <2>3. CASE \E i \in DOMAIN g.stack : g.stack[i].src = x
    BY <1>3, <1>4, <2>3 DEF Around
  <2>4. CASE Covers(t, g, x)
    BY <1>1, <2>4 DEF Around, Covers, Keeps
  <2> QED
    BY <1>8, <2>1, <2>2, <2>3, <2>4 DEF Around
<1> QED
  BY <1>6, <1>7, <1>8

(* The next entry is taken up. *)
LEMMA Taken ==
  ASSUME NEW t, NEW g, ThreadOK(t, g), Good(t, g), Track(t, g), NEW n, Keeps(n, g),
         NEW e \in Last(g.stack).todo, g.stack # <<>>,
         \/ g.pc = "entries" /\ n.pc \in {"enter", "file", "move", "copy"}
            /\ (n.pc = "enter" <=> e.isDir) /\ n.to = Into(Last(g.stack).dest, e.path)
         \/ g.pc = "rmloop" /\ n.pc = "rm",
         n.from = e.path,
         n.stack = Front(g.stack) \o <<[Last(g.stack) EXCEPT !.todo = @ \ {e}]>>
  PROVE  /\ Track(t, n) /\ ToPaste(t, n) = ToPaste(t, g)
         /\ \A x : Around(t, g, x) => Around(t, n, x)
<1> DEFINE s == g.stack
           l == Last(s)
<1>1. /\ g.pc \notin AtPath /\ g.pc \notin {"idle", "items", "done"} /\ n.pc \in AtPath
      /\ n.pc \notin {"idle", "items", "done"} /\ n.pc # "entries"
      /\ n.pc \in Pasting <=> g.pc \in Pasting
      /\ n.pc \in Pasting <=> g.pc = "entries"
      /\ n.pc \in Removing => g.pc \in Removing
      /\ n.pc \in AtFile => g.pc = "entries" /\ ~e.isDir
      /\ n.pc = "enter" => g.pc = "entries" /\ e.isDir
  BY DEF AtFile, AtPath, Pasting, Removing
<1>2. s \in Seq(Levels(g.job)) /\ s # <<>> /\ Nested(s) /\ Len(s) \in DOMAIN s /\ l = s[Len(s)]
      /\ g.job.items \subseteq Path
  BY LenProperties, EmptySeq DEF ThreadOK, Walk, Track, Last, Errand
<1>3. /\ DOMAIN n.stack = DOMAIN s
      /\ \A i \in DOMAIN s : /\ n.stack[i].src = s[i].src /\ n.stack[i].dest = s[i].dest
                             /\ n.stack[i].todo \subseteq s[i].todo
      /\ Nested(n.stack) /\ Clear(n.stack, e.path)
      /\ \A x : Spotted(s, x) <=> Spotted(n.stack, x) \/ IsPrefix(e.path, x)
  <2> DEFINE m == n.stack
             L == Levels(g.job)
  <2>1. /\ s \in Seq(L) /\ s # <<>> /\ Nested(s) /\ e \in Last(s).todo
        /\ m = Took(s, e)
    BY <1>2 DEF Took
  <2> HIDE DEF m, s
  <2>2. /\ DOMAIN m = DOMAIN s
        /\ \A i \in DOMAIN s : /\ m[i].src = s[i].src /\ m[i].dest = s[i].dest
                               /\ m[i].todo \subseteq s[i].todo
        /\ Nested(m) /\ Clear(m, e.path)
        /\ \A x : Spotted(s, x) <=> Spotted(m, x) \/ IsPrefix(e.path, x)
    BY <2>1, NestedTake
  <2> QED
    BY <2>2 DEF m, s
<1>4. l \in Levels(g.job) /\ LevelFits(g, l) /\ e \in l.todo
  BY <1>2 DEF Track
<1>5. /\ l.src \in Seq(Name) /\ e.path \in Path /\ e.path \in Seq(Name)
      /\ IsPrefix(l.src, e.path)
  BY <1>4, LevelEntry
<1>6. /\ g.item.path \in Chosen(t, g.job, g.was) \ g.items
      /\ g.item.path \in Seq(Name)
      /\ g.pc \in Pasting => ~g.removing
      /\ g.pc \in Removing => g.removing /\ g.item.isDir
      /\ t \in Http => g.item.isDir
  BY <1>1, <1>2 DEF Track, Chosen, Path
<1>7. IsPrefix(g.item.path, l.src) /\ IsPrefix(g.item.path, e.path)
  BY <1>4, <1>5, <1>6, PrefixTrans DEF LevelFits
<1>8. \A i \in DOMAIN n.stack : LevelFits(n, n.stack[i])
  <2>1. \A i \in DOMAIN s : LevelFits(g, s[i])
    BY DEF Track
  <2>2. \A i \in DOMAIN n.stack : LevelFits(g, n.stack[i])
    BY <1>3, <2>1 DEF LevelFits
  <2> QED
    BY <2>2, KeepsFits
<1>9. Within(t, g.job, g.was, e.path)
  BY <1>6, <1>7 DEF Within
<1>10. ASSUME g.pc = "entries"
       PROVE  /\ e.path \in DOMAIN g.was /\ (e.isDir <=> g.was[e.path] = Dir)
              /\ e.path \in Marked(t, g.job, g.was)
              /\ Into(l.dest, e.path) = Image(g.job, e.path)
  <2>1. /\ e.path \in DOMAIN g.was /\ (e.isDir <=> g.was[e.path] = Dir)
        /\ l.dest = Image(g.job, l.src)
    BY <1>4, <1>6, <1>10 DEF LevelFits, Pasting
  <2>2. e.path \in Marked(t, g.job, g.was)
    BY <1>9, <2>1 DEF Marked
  <2>3. /\ IsPrefix(Home(g.job), g.item.path) /\ Home(g.job) \in Seq(Name)
        /\ g.job.dest \in Seq(Name)
    BY <1>6, MarkedIs DEF Good, Suits
  <2>4. IsPrefix(Home(g.job), l.src)
    BY <1>5, <1>6, <1>7, <2>3, PrefixTrans
  <2>5. Front(e.path) = l.src
    BY <1>4 DEF Levels
  <2>6. l.dest \in Seq(Name)
    BY <1>4 DEF Levels
  <2>7. Into(l.dest, e.path) = l.dest \o Rest(l.src, e.path)
    BY <1>5, <2>5, <2>6, ImageTop
  <2>8. (g.job.dest \o Rest(Home(g.job), l.src)) \o Rest(l.src, e.path)
          = g.job.dest \o Rest(Home(g.job), e.path)
    <3> DEFINE home == Home(g.job)
               dest == g.job.dest
               a == l.src
               b == e.path
    <3>1. /\ home \in Seq(Name) /\ dest \in Seq(Name) /\ a \in Seq(Name) /\ b \in Seq(Name)
          /\ IsPrefix(home, a) /\ IsPrefix(a, b)
      BY <1>5, <2>3, <2>4
    <3> HIDE DEF home, dest, a, b
    <3>2. (dest \o Rest(home, a)) \o Rest(a, b) = dest \o Rest(home, b)
      BY <3>1, ImageStep
    <3> QED
      BY <3>2 DEF home, dest, a, b
  <2> HIDE DEF l
  <2> QED
    BY <2>1, <2>2, <2>7, <2>8 DEF Image
<1> HIDE DEF l, s
<1>11. Track(t, n)
  <2>1. n.pc \in Pasting => n.to = Image(g.job, n.from)
    BY <1>1, <1>10 DEF l, s, Pasting
  <2>2. n.pc = "enter" => n.from \in Marked(t, g.job, g.was) /\ g.was[n.from] = Dir
    BY <1>1, <1>10
  <2>3. n.pc \in AtFile => n.from \in DOMAIN g.was /\ g.was[n.from] # Dir
    BY <1>1, <1>10
  <2> QED
    BY <1>1, <1>3, <1>6, <1>7, <1>8, <2>1, <2>2, <2>3, KeepsFits DEF Track, Keeps
<1>12. \A x : Beneath(n, x) <=> Beneath(g, x)
  BY <1>1, <1>3 DEF Beneath, s
<1>13. ToPaste(t, n) = ToPaste(t, g)
  BY <1>1, <1>12, KeepsFits DEF ToPaste
<1>14. ASSUME NEW x, Around(t, g, x)
       PROVE  Around(t, n, x)
  <2>1. CASE Waiting(g, x) \/ Beneath(g, x)
    BY <1>12, <2>1, KeepsFits DEF Around
  <2>2. CASE \E i \in DOMAIN g.stack : g.stack[i].src = x
    BY <1>3, <2>2 DEF Around, s
  <2>3. CASE Covers(t, g, x)
    BY <1>1, <2>3 DEF Around, Covers, Keeps
  <2> QED
    BY <1>14, <2>1, <2>2, <2>3 DEF Around
<1> QED
  BY <1>11, <1>13, <1>14

(* A directory is left, or the whole walk. *)
LEMMA WalkLeft ==
  ASSUME NEW t, NEW g, ThreadOK(t, g), Good(t, g), Track(t, g), NEW n, Keeps(n, g),
         g.pc \in {"entries", "rmloop"}, Last(g.stack).todo = {}, g.stack # <<>>,
         n.stack = Front(g.stack),
         n.pc = IF Front(g.stack) = <<>> THEN "done"
                ELSE IF g.pc = "entries" THEN "entries" ELSE "rmtest"
  PROVE  /\ Track(t, n) /\ ToPaste(t, n) = ToPaste(t, g)
         /\ \A x : Around(t, g, x) /\ x # Last(g.stack).src => Around(t, n, x)
<1> DEFINE s == g.stack
<1>1. /\ g.pc \notin AtPath /\ g.pc \notin {"idle", "items", "done"} /\ n.pc \notin AtPath
      /\ n.pc \notin {"idle", "items", "enter"} /\ n.pc \notin AtFile
      /\ n.pc \in Pasting => n.pc = "entries" /\ g.pc \in Pasting
      /\ n.pc \in Removing => g.pc \in Removing
      /\ n.pc = "done" => n.stack = <<>>
      /\ g.pc \in Pasting => n.pc \in Pasting \/ n.stack = <<>>
  BY DEF AtFile, AtPath, Pasting, Removing
<1>2. s \in Seq(Levels(g.job)) /\ Nested(s)
  BY DEF ThreadOK, Walk, Track
<1>3. /\ DOMAIN n.stack \subseteq DOMAIN s /\ \A i \in DOMAIN n.stack : n.stack[i] = s[i]
      /\ \A i \in DOMAIN s : i \in DOMAIN n.stack \/ s[i] = Last(s)
      /\ Nested(n.stack)
      /\ \A x : Spotted(n.stack, x) <=> Spotted(s, x)
  BY <1>2, NestedPop
<1>4. \A i \in DOMAIN n.stack : LevelFits(n, n.stack[i])
  <2>1. \A i \in DOMAIN n.stack : LevelFits(g, n.stack[i])
    BY <1>3 DEF Track
  <2> QED
    BY <2>1, KeepsFits
<1>5. Track(t, n)
  <2>1. /\ g.item.path \in Chosen(t, g.job, g.was) \ g.items
        /\ g.pc \in Pasting => ~g.removing
        /\ g.pc \in Removing => g.removing /\ g.item.isDir
        /\ t \in Http => g.item.isDir
    BY <1>1 DEF Track
  <2> QED
    BY <1>1, <1>3, <1>4, <2>1, KeepsFits DEF Track, Keeps
<1>6. \A x : Beneath(n, x) <=> Beneath(g, x)
  BY <1>1, <1>3 DEF Beneath
<1>7. n.stack = <<>> => \A x : ~Beneath(n, x)
  BY <1>1 DEF Beneath, Spotted
<1>8. ToPaste(t, n) = ToPaste(t, g)
  BY <1>1, <1>6, <1>7, KeepsFits DEF ToPaste
<1>9. ASSUME NEW x, Around(t, g, x), x # Last(s).src
      PROVE  Around(t, n, x)
  <2>1. CASE Waiting(g, x) \/ Beneath(g, x)
    BY <1>6, <2>1, KeepsFits DEF Around
  <2>2. CASE \E i \in DOMAIN g.stack : g.stack[i].src = x
    BY <1>3, <1>9, <2>2 DEF Around
  <2>3. CASE Covers(t, g, x)
    BY <1>1, <2>3 DEF Around, Covers, Keeps
  <2> QED
    BY <1>9, <2>1, <2>2, <2>3 DEF Around
<1> QED
  BY <1>5, <1>8, <1>9

(* The removal goes on, or is broken off. *)
LEMMA RemovalGoes ==
  ASSUME NEW t, NEW g, Track(t, g), NEW n, Keeps(n, g), g.pc \in Removing,
         \/ g.pc = "rmtest" /\ n.pc = "rmloop" /\ n.stack = g.stack
         \/ n.pc = "done" /\ n.stack = <<>>
  PROVE  /\ Track(t, n) /\ ToPaste(t, n) = ToPaste(t, g)
         /\ n.pc = "rmloop" => \A x : Around(t, g, x) => Around(t, n, x)
<1>1. /\ n.pc \notin {"idle", "items", "enter"} /\ n.pc \notin AtFile /\ n.pc \notin AtPath
      /\ n.pc \notin Pasting /\ g.pc \notin Pasting /\ g.pc \notin {"idle", "items", "done"}
  BY DEF AtFile, AtPath, Pasting, Removing
<1>2. Nested(<<>>)
  BY DEF Nested, Spotted
<1>3. Track(t, n)
  <2>1. \A i \in DOMAIN n.stack : LevelFits(g, n.stack[i])
    <3>1. CASE n.stack = <<>>
      BY <3>1
    <3>2. CASE n.stack = g.stack
      BY <3>2 DEF Track
    <3> QED
      BY <3>1, <3>2
  <2>2. \A i \in DOMAIN n.stack : LevelFits(n, n.stack[i])
    BY <2>1, KeepsFits
  <2> QED
    BY <1>1, <1>2, <2>2, KeepsFits DEF Track, Keeps
<1>4. ToPaste(t, n) = ToPaste(t, g)
  BY <1>1, KeepsFits DEF ToPaste
<1>5. ASSUME n.pc = "rmloop", NEW x, Around(t, g, x)
      PROVE  Around(t, n, x)
  <2>1. g.pc = "rmtest" /\ n.stack = g.stack /\ g.pc \notin AtPath
    BY <1>5 DEF AtPath, Pasting
  <2> QED
    BY <1>1, <1>5, <2>1, KeepsFits DEF Around, Beneath, Covers, Keeps
<1> QED
  BY <1>3, <1>4, <1>5

-----------------------------------------------------------------------------
(***************************************************************************)
(* The steps at a file.                                                    *)
(***************************************************************************)
LEMMA OwnSet ==
  ASSUME Inv, NEW t \in Threads, NEW r, DOMAIN r \subseteq Steps,
         Set(t, r) \/ Set(t, r ++ Odd)
  PROVE  /\ Keeps(thread'[t], thread[t])
         /\ \A f \in Steps : thread'[t][f] = IF f \in DOMAIN r THEN r[f] ELSE thread[t][f]
         /\ Set(t, r ++ Odd) => ~thread'[t].plain
<1> DEFINE g == thread[t]
           n == thread'[t]
<1>1. g = [f \in Fields |-> g[f]]
  BY Here DEF Inv, Shape
<1>2. /\ DOMAIN r \subseteq Fields /\ DOMAIN r \subseteq Fields \ {"plain"}
      /\ \A f \in {"job", "was", "item", "items", "removing", "alone", "failed", "plain"} :
           f \in Fields /\ f \notin DOMAIN r
      /\ \A f \in Steps : f \in Fields /\ f # "plain"
  BY DEF Fields, Steps
<1>3. Set(t, r) => n = r ++ g
  BY DEF Set
<1>4. Set(t, r ++ Odd) => n = (r ++ Odd) ++ g
  BY DEF Set
<1> HIDE DEF g, n
<1>5. \A f \in Fields : (r ++ g)[f] = IF f \in DOMAIN r THEN r[f] ELSE g[f]
  BY <1>1, <1>2, Merged
<1>6. /\ \A f \in Fields \ {"plain"} : ((r ++ Odd) ++ g)[f] = (r ++ g)[f]
      /\ ((r ++ Odd) ++ g).plain = FALSE
  BY <1>1, <1>2, OddIs
<1>7. \A f \in Fields \ {"plain"} : n[f] = IF f \in DOMAIN r THEN r[f] ELSE g[f]
  BY <1>3, <1>4, <1>5, <1>6
<1>8. n.plain => g.plain
  BY <1>2, <1>3, <1>4, <1>5, <1>6
<1>9. Keeps(n, g)
  BY <1>2, <1>7, <1>8 DEF Keeps
<1>10. Set(t, r ++ Odd) => ~n.plain
  BY <1>4, <1>6
<1>11. \A f \in Steps : n[f] = IF f \in DOMAIN r THEN r[f] ELSE g[f]
  BY <1>2, <1>7
<1> QED
  BY <1>9, <1>10, <1>11 DEF g, n

LEMMA GoodBefore ==
  ASSUME NEW t, NEW g, NEW n, Keeps(n, g), Good(t, n), g.pc # "done"
  PROVE  Good(t, g)
BY DEF Good, Keeps

(* A thread whose paste is still good has not returned from CopyOrMove with 0. *)
LEMMA ReturnOwn ==
  ASSUME Inv, NEW t \in Threads, NEW ret \in {0, 1},
         Set(t, Return(t, ret)) \/ Set(t, Return(t, ret) ++ Odd),
         Good(t, thread'[t]), thread[t].pc \in Pasting,
         Pastes(t)
  PROVE  /\ Good(t, thread[t]) /\ Keeps(thread'[t], thread[t])
         /\ t \in Worker => ~Set(t, Return(t, ret) ++ Odd)
         /\ t \in Worker \/ ret = 1
         /\ ret = 1 =>
              /\ thread'[t].stack = thread[t].stack
              /\ thread'[t].pc = IF thread[t].stack = <<>> THEN "done" ELSE "entries"
<1> DEFINE g == thread[t]
           n == thread'[t]
           r == Return(t, ret)
<1>1. /\ r = [pc |-> "entries"] \/ r = [pc |-> "done", stack |-> <<>>, ret |-> ret]
      /\ ret = 1 => r = IF g.stack # <<>> THEN [pc |-> "entries"]
                        ELSE [pc |-> "done", stack |-> <<>>, ret |-> ret]
      /\ ret = 0 => r = [pc |-> "done", stack |-> <<>>, ret |-> ret]
  BY DEF Return
<1> HIDE DEF r
<1>2. DOMAIN r \subseteq Steps
  BY <1>1 DEF Steps
<1>3. /\ Keeps(n, g)
      /\ \A f \in Steps : n[f] = IF f \in DOMAIN r THEN r[f] ELSE g[f]
      /\ Set(t, r ++ Odd) => ~n.plain
  <2>1. Set(t, r) \/ Set(t, r ++ Odd)
    BY DEF r
  <2> HIDE DEF g, n
  <2> QED
    BY <1>2, <2>1, OwnSet DEF g, n
<1>4. {"pc", "stack", "ret"} \subseteq Steps
  BY DEF Steps
<1>5. g.pc # "done"
  BY DEF Pasting
<1>6. Good(t, g)
  BY <1>3, <1>5, GoodBefore
<1>7. ~g.removing
  BY <1>6 DEF Pastes, PasteOK, Track
<1>8. ret = 0 => n.pc = "done" /\ n.ret = 0
  <2> SUFFICES ASSUME ret = 0
               PROVE  n.pc = "done" /\ n.ret = 0
    OBVIOUS
  <2>1. DOMAIN r = {"pc", "stack", "ret"} /\ r["pc"] = "done" /\ r["ret"] = 0
    BY <1>1
  <2> QED
    BY <1>3, <1>4, <2>1
<1>9. t \in Worker \/ ret = 1
  <2>1. n.removing = g.removing
    BY <1>3 DEF Keeps
  <2> QED
    BY <1>7, <1>8, <2>1 DEF Good
<1>10. ret = 1 => n.stack = g.stack /\ n.pc = IF g.stack = <<>> THEN "done" ELSE "entries"
  <2> SUFFICES ASSUME ret = 1
               PROVE  n.stack = g.stack /\ n.pc = IF g.stack = <<>> THEN "done" ELSE "entries"
    OBVIOUS
  <2>1. CASE g.stack # <<>>
    <3>1. DOMAIN r = {"pc"} /\ r["pc"] = "entries"
      BY <1>1, <2>1
    <3> QED
      BY <1>3, <1>4, <2>1, <3>1
  <2>2. CASE g.stack = <<>>
    <3>1. DOMAIN r = {"pc", "stack", "ret"} /\ r["pc"] = "done" /\ r["stack"] = <<>>
      BY <1>1, <2>2
    <3> QED
      BY <1>3, <1>4, <2>2, <3>1
  <2> QED
    BY <2>1, <2>2
<1>11. t \in Worker => n.plain
  BY DEF Good
<1> QED
  BY <1>3, <1>6, <1>9, <1>10, <1>11 DEF r

(* The file at hand has come to where it belongs and, of a cut, is gone. *)
LEMMA FileDone ==
  ASSUME Inv, NEW t \in Threads, thread[t].pc \in AtFile,
         Set(t, Return(t, 1)) \/ Set(t, Return(t, 1) ++ Odd),
         Good(t, thread'[t]), Pastes(t),
         Placed(t, thread[t].job, thread[t].was, fs',
                {q \in ToPaste(t, thread[t]) : ~IsPrefix(thread[t].from, q)}),
         thread[t].job.kind = "move" =>
           \A x \in DOMAIN fs' : Within(t, thread[t].job, thread[t].was, x) =>
             x \in DOMAIN fs /\ ~IsPrefix(thread[t].from, x)
  PROVE  Pastes(t)'
<1> DEFINE g == thread[t]
           n == thread'[t]
<1>1. g.pc \in Pasting /\ g.pc # "rm"
  BY DEF AtFile, Pasting
<1>2. /\ Good(t, g) /\ Keeps(n, g) /\ n.stack = g.stack
      /\ n.pc = IF g.stack = <<>> THEN "done" ELSE "entries"
  BY <1>1, ReturnOwn
<1>3. ThreadOK(t, g) /\ Track(t, g) /\ Gone(t, g, fs)
  BY <1>2, Here DEF Inv, Pastes, PasteOK
<1> HIDE DEF g, n
<1>4. /\ Track(t, n)
      /\ ToPaste(t, n) = {q \in ToPaste(t, g) : ~IsPrefix(g.from, q)}
      /\ \A x : Around(t, g, x) /\ ~IsPrefix(g.from, x) => Around(t, n, x)
  BY <1>1, <1>2, <1>3, Returned DEF g
<1>5. Placed(t, n.job, n.was, fs', ToPaste(t, n))
  BY <1>2, <1>4 DEF Keeps, g
<1>6. Gone(t, n, fs')
  BY <1>2, <1>3, <1>4 DEF Gone, Keeps, g
<1>7. CopyIs(n, fs', bytes_transfered', bytes_to_download')
  BY <1>2 DEF CopyIs, InCopy
<1> QED
  BY <1>4, <1>5, <1>6, <1>7 DEF Pastes, PasteOK, n

(* The same file, and nothing has happened but perhaps where it belongs. *)
LEMMA FileGoes ==
  ASSUME Inv, NEW t \in Threads, thread[t].pc \in AtFile, thread'[t].pc \in AtFile,
         Keeps(thread'[t], thread[t]), thread'[t].from = thread[t].from,
         thread'[t].to = thread[t].to, thread'[t].stack = thread[t].stack,
         Good(t, thread'[t]), Pastes(t),
         Good(t, thread[t]) => /\ Placed(t, thread[t].job, thread[t].was, fs', ToPaste(t, thread[t]))
                               /\ DOMAIN fs' \subseteq DOMAIN fs \cup {thread[t].to},
         CopyIs(thread'[t], fs', bytes_transfered', bytes_to_download')
  PROVE  Pastes(t)'
<1> DEFINE g == thread[t]
           n == thread'[t]
<1>1. Good(t, g)
  BY GoodBefore DEF AtFile
<1>2. /\ ThreadOK(t, g) /\ Track(t, g) /\ Gone(t, g, fs) /\ Tree(fs)
      /\ Placed(t, g.job, g.was, fs, ToPaste(t, g))
  BY <1>1, Here DEF Inv, Pastes, PasteOK
<1>3. ~Within(t, g.job, g.was, g.to)
  <2> HIDE DEF g
  <2> QED
    BY <1>1, <1>2, FileAtHand DEF g
<1> HIDE DEF g, n
<1>4. /\ Track(t, n) /\ ToPaste(t, n) = ToPaste(t, g)
      /\ \A x : Around(t, g, x) => Around(t, n, x)
  BY <1>2, SameFile DEF g, n
<1>5. Keeps(n, g)
  BY DEF g, n
<1>6. Placed(t, n.job, n.was, fs', ToPaste(t, n))
  BY <1>1, <1>4, <1>5 DEF Keeps, g
<1>7. Gone(t, n, fs')
  BY <1>1, <1>2, <1>3, <1>4, <1>5 DEF Gone, Keeps, g
<1> QED
  BY <1>4, <1>6, <1>7 DEF Pastes, PasteOK, n

LEMMA AtWork ==
  ASSUME Inv, NEW t \in Threads, Pastes(t), Good(t, thread[t])
  PROVE  /\ ThreadOK(t, thread[t]) /\ Tree(fs) /\ Track(t, thread[t])
         /\ Placed(t, thread[t].job, thread[t].was, fs, ToPaste(t, thread[t]))
         /\ Gone(t, thread[t], fs)
         /\ CopyIs(thread[t], fs, bytes_transfered, bytes_to_download)
BY Here DEF Inv, Pastes, PasteOK

(* Where the file at hand belongs can be reached: rename refuses only across devices. *)
LEMMA NotRefused ==
  ASSUME Inv, NEW t \in Threads, Pastes(t), Good(t, thread[t]), thread[t].pc \in AtFile
  PROVE  RenameError(thread[t].from, thread[t].to) \in {"EXDEV", "none"}
<1> DEFINE g == thread[t]
           from == g.from
           to == g.to
<1>1. /\ from \in DOMAIN fs /\ fs[from] # Dir /\ ~IsPrefix(from, to)
      /\ Front(to) \in DOMAIN fs /\ fs[Front(to)] = Dir
      /\ to \in DOMAIN fs => fs[to] # Dir
  <2> HIDE DEF g
  <2> QED
    BY AtWork, FileAtHand DEF g
<1> HIDE DEF from, to
<1>2. \A p \in DOMAIN fs : fs[p].of = "dir" <=> fs[p] = Dir
  BY FileIs DEF Inv, Tree
<1>3. /\ Exists(from) /\ IsDir(Front(to)) /\ ~IsDir(from) /\ ~IsDir(to)
  BY <1>1, <1>2 DEF Exists, IsDir
<1>4. RenameError(from, to) \in {"EXDEV", "none"}
  BY <1>1, <1>3 DEF RenameError
<1> QED
  BY <1>4 DEF from, to

(* Everything of the job at or under the path at hand is still to be pasted. *)
LEMMA AllBeneath ==
  ASSUME NEW t, NEW g, g.pc \in AtPath, g.pc \in Pasting
  PROVE  \A q \in Marked(t, g.job, g.was) : IsPrefix(g.from, q) => q \in ToPaste(t, g)
BY DEF ToPaste, Beneath

LEMMA PasteMoveRenamed ==
  ASSUME Inv, NEW t \in Threads, Pastes(t), Good(t, thread'[t]), MoveRenamed(t)
  PROVE  Pastes(t)'
<1> DEFINE g == thread[t]
           n == thread'[t]
           P == ToPaste(t, g)
           from == g.from
           to == g.to
<1>1. /\ g.pc = "move" /\ g.pc \in AtFile /\ g.pc \in AtPath /\ g.pc \in Pasting
      /\ from # to /\ RenameError(from, to) = "none" /\ fs' = Renamed(from, to)
      /\ Set(t, Return(t, 1))
  BY DEF MoveRenamed, At, AtFile, AtPath, Pasting
<1>2. Good(t, g)
  BY <1>1, ReturnOwn
<1>3. ThreadOK(t, g) /\ Tree(fs) /\ Track(t, g) /\ Placed(t, g.job, g.was, fs, P)
  BY <1>2, AtWork
<1>4. /\ from \in Marked(t, g.job, g.was) /\ to = Image(g.job, from)
      /\ from \in Path /\ to \in Path
  <2> HIDE DEF g
  <2> QED
    BY <1>1, <1>2, <1>3, FileAtHand, PathAtHand
<1>5. RenameMoves(from, to, fs')
  BY <1>1, <1>3, <1>4, RenamedTree
<1>6. g.job.kind = "move" /\ Suits(t, g.job, g.was)
  BY <1>1, <1>2, <1>3 DEF ThreadOK, Place, Good
<1>7. \A q \in Marked(t, g.job, g.was) : IsPrefix(from, q) => q \in P
  <2> HIDE DEF g
  <2> QED
    BY <1>1, AllBeneath
<1>8. /\ Placed(t, g.job, g.was, fs', P \ {q \in P : IsPrefix(from, q)})
      /\ \A x \in DOMAIN fs' : Within(t, g.job, g.was, x) => x \in DOMAIN fs /\ ~IsPrefix(from, x)
  <2> DEFINE job == g.job
             was == g.was
  <2>1. /\ Suits(t, job, was) /\ Tree(fs) /\ Placed(t, job, was, fs, P) /\ job.kind = "move"
        /\ from \in Marked(t, job, was)
        /\ \A q \in Marked(t, job, was) : IsPrefix(from, q) => q \in P
        /\ RenameMoves(from, Image(job, from), fs')
    BY <1>3, <1>4, <1>5, <1>6, <1>7
  <2> HIDE DEF job, was, from, P
  <2>2. /\ Placed(t, job, was, fs', P \ {q \in P : IsPrefix(from, q)})
        /\ \A x \in DOMAIN fs' : Within(t, job, was, x) => x \in DOMAIN fs /\ ~IsPrefix(from, x)
    BY <2>1, PlacedRenamed
  <2> QED
    BY <2>2 DEF job, was
<1>9. P \ {q \in P : IsPrefix(from, q)} = {q \in P : ~IsPrefix(from, q)}
  OBVIOUS
<1> QED
  BY <1>1, <1>8, <1>9, FileDone

LEMMA PasteMoveRefused ==
  ASSUME Inv, NEW t \in Threads, Pastes(t), Good(t, thread'[t]), MoveRefused(t),
         t \in Http => "rename" \notin Faults[t]
  PROVE  FALSE
<1>1. /\ thread[t].pc = "move" /\ thread[t].pc \in AtFile /\ thread[t].pc \in Pasting
      /\ Set(t, Return(t, 1)) \/ Set(t, Return(t, 1) ++ Odd)
  BY DEF MoveRefused, At, AtFile, Pasting
<1>2. Good(t, thread[t]) /\ (t \in Worker => ~Set(t, Return(t, 1) ++ Odd))
  BY <1>1, ReturnOwn
<1>3. RenameError(thread[t].from, thread[t].to) # "other"
  BY <1>1, <1>2, NotRefused
<1>4. thread[t].from # thread[t].to
  BY <1>1, <1>2, AtWork, FileAtHand
<1>5. t \in Worker \/ t \in Http
  BY DEF Threads
<1> QED
  BY <1>2, <1>3, <1>4, <1>5 DEF MoveRefused, Fault

(* The same file goes on, the devices and the counts as they are. *)
LEMMA PasteOnward ==
  ASSUME Inv, NEW t \in Threads, Pastes(t), Good(t, thread'[t]), thread[t].pc \in AtFile,
         NEW pc \in {"ask", "move", "copy", "block", "test"},
         Set(t, [pc |-> pc]), fs' = fs, bytes_transfered' = bytes_transfered,
         bytes_to_download' = bytes_to_download,
         pc = "block" => thread[t].pc = "test",
         pc = "test" => thread[t].pc = "block"
  PROVE  Pastes(t)'
<1> DEFINE g == thread[t]
           n == thread'[t]
           r == [pc |-> pc]
<1>1. DOMAIN r = {"pc"} /\ r["pc"] = pc
  OBVIOUS
<1>2. Set(t, r)
  OBVIOUS
<1> HIDE DEF r
<1>3. DOMAIN r \subseteq Steps /\ Steps = {"pc", "stack", "from", "to", "data", "block", "ret"}
  BY <1>1 DEF Steps
<1>4. Keeps(n, g) /\ \A f \in Steps : n[f] = IF f \in DOMAIN r THEN r[f] ELSE g[f]
  <2> HIDE DEF n, g
  <2> QED
    BY <1>2, <1>3, OwnSet DEF n, g
<1>5. /\ n.pc = pc /\ n.from = g.from /\ n.to = g.to /\ n.stack = g.stack
      /\ n.data = g.data /\ n.block = g.block
  BY <1>1, <1>3, <1>4
<1>6. Good(t, g)
  BY <1>4, GoodBefore DEF AtFile
<1>7. CopyIs(g, fs, bytes_transfered, bytes_to_download)
      /\ Placed(t, g.job, g.was, fs, ToPaste(t, g))
  BY <1>6, AtWork
<1> HIDE DEF n, g
<1>8. CopyIs(n, fs', bytes_transfered', bytes_to_download')
  <2>1. CASE pc \in {"block", "test"}
    <3>1. g.pc \in {"block", "test"}
      BY <2>1 DEF g
    <3> QED
      BY <1>4, <1>5, <1>7, <2>1, <3>1 DEF CopyIs, Keeps, InCopy
  <2>2. CASE pc \notin {"block", "test"}
    BY <1>5, <2>2 DEF CopyIs, InCopy
  <2> QED
    BY <2>1, <2>2
<1>9. n.pc \in AtFile /\ DOMAIN fs' \subseteq DOMAIN fs \cup {g.to}
  BY <1>5 DEF AtFile
<1> QED
  BY <1>4, <1>5, <1>7, <1>8, <1>9, FileGoes DEF n, g

LEMMA PasteFile ==
  ASSUME Inv, NEW t \in Threads, Pastes(t), Good(t, thread'[t]),
         File(t) \/ Answer(t) \/ MoveCopies(t)
  PROVE  Pastes(t)'
<1> DEFINE g == thread[t]
<1>1. /\ g.pc \in {"file", "ask", "move"} /\ g.pc \in AtFile /\ g.pc \in Pasting
      /\ fs' = fs /\ bytes_transfered' = bytes_transfered /\ bytes_to_download' = bytes_to_download
  BY DEF File, Answer, MoveCopies, At, AtFile, Pasting, counters
<1>2. Place(t, g)
  BY Here DEF Inv
<1>3. Kind(t) \in {"move", "copy"} /\ (g.pc \in {"file", "ask"} => t \in Worker)
  BY <1>1, <1>2 DEF Place, Kind
<1>4. \/ \E pc \in {"ask", "move", "copy"} : Set(t, [pc |-> pc])
      \/ g.pc \in {"file", "ask"} /\ Set(t, Return(t, 1) ++ Odd)
  <2>1. CASE File(t)
    <3>1. \/ Set(t, [pc |-> "ask"])
          \/ Set(t, Return(t, 1) ++ Odd)
          \/ Set(t, [pc |-> Kind(t)])
      BY <2>1 DEF File
    <3> QED
      BY <1>3, <2>1, <3>1 DEF File, At
  <2>2. CASE Answer(t)
    BY <1>3, <2>2 DEF Answer, At
  <2>3. CASE MoveCopies(t)
    BY <2>3 DEF MoveCopies
  <2> QED
    BY <2>1, <2>2, <2>3
<1>5. CASE \E pc \in {"ask", "move", "copy"} : Set(t, [pc |-> pc])
  BY <1>1, <1>5, PasteOnward
<1>6. CASE g.pc \in {"file", "ask"} /\ Set(t, Return(t, 1) ++ Odd)
  BY <1>1, <1>3, <1>6, ReturnOwn
<1> QED
  BY <1>4, <1>5, <1>6

(* No directory is made where one is. *)
LEMMA MkDirsNone ==
  ASSUME NEW f, Tree(f), NEW p \in DOMAIN f
  PROVE  DOMAIN MkDirs(f, p) = DOMAIN f /\ \A q \in DOMAIN f : MkDirs(f, p)[q] = f[q]
<1> DEFINE above == {SubSeq(p, 1, i) : i \in 1..Len(p)}
           made == {q \in above \ DOMAIN f : \A r \in DOMAIN f : IsPrefix(r, q) => f[r].of = "dir"}
<1>1. p \in Path /\ p \in Seq(Name) /\ Len(p) \in Nat
  BY LenProperties DEF Tree, Path
<1>2. ASSUME NEW x \in above
      PROVE  x \in DOMAIN f
  <2>1. PICK i \in 1..Len(p) : x = SubSeq(p, 1, i)
    OBVIOUS
  <2>2. x \in Seq(Name) /\ Len(x) = i /\ \A k \in 1..i : x[k] = p[k]
    <3>1. 1 \in 1..(Len(p) + 1) /\ i \in 0..Len(p)
      BY <1>1
    <3> QED
      BY <1>1, <2>1, <3>1, SubSeqProperties
  <2>3. IsPrefix(x, p) /\ x # <<>>
    BY <1>1, <2>2, PrefixDef, EmptySeq
  <2> QED
    BY <1>1, <2>2, <2>3 DEF Tree, Path
<1> HIDE DEF above
<1>3. made = {}
  BY <1>2
<1>4. MkDirs(f, p) = f ++ [q \in made |-> Dir]
  BY DEF MkDirs, above
<1> HIDE DEF made
<1>5. MkDirs(f, p) = f ++ [q \in {} |-> Dir]
  BY <1>3, <1>4
<1> QED
  BY <1>5 DEF ++

LEMMA PasteCopyBegin ==
  ASSUME Inv, NEW t \in Threads, Pastes(t), Good(t, thread'[t]), CopyBegin(t) \/ CopyNothing(t)
  PROVE  Pastes(t)'
<1> DEFINE g == thread[t]
           n == thread'[t]
           P == ToPaste(t, g)
           from == g.from
           to == g.to
           made == MkDirs(fs, Front(to))
           empty == [of |-> fs[from].of, blocks |-> 0]
           r == [pc |-> "block", data |-> fs[from].of, block |-> 0]
<1>1. /\ g.pc = "copy" /\ g.pc \in AtFile /\ g.pc \in AtPath /\ g.pc \in Pasting /\ g.pc # "done"
  BY DEF CopyBegin, CopyNothing, At, AtFile, AtPath, Pasting
<1>2. CASE \E ret \in {0, 1} : \/ Set(t, Return(t, ret)) /\ CopyNothing(t)
                               \/ ret = 0 /\ Set(t, Return(t, ret) ++ Odd)
  <2>1. PICK ret \in {0, 1} : \/ Set(t, Return(t, ret)) /\ CopyNothing(t)
                              \/ ret = 0 /\ Set(t, Return(t, ret) ++ Odd)
    BY <1>2
  <2>2. /\ Good(t, g) /\ (t \in Worker => ~Set(t, Return(t, ret) ++ Odd))
        /\ t \in Worker \/ ret = 1
    BY <1>1, <2>1, ReturnOwn
  <2>3. from \in DOMAIN fs /\ fs[from] # Dir /\ from # to
    <3> HIDE DEF g
    <3> QED
      BY <1>1, <2>2, AtWork, FileAtHand DEF g
  <2>4. FileExists(from)
    BY <2>3, FileIs DEF FileExists, Exists, Inv, Tree
  <2>5. ~CopyNothing(t)
    BY <2>3, <2>4 DEF CopyNothing
  <2> QED
    BY <2>1, <2>2, <2>5
<1>3. CASE /\ CopyBegin(t) /\ Set(t, r) /\ fs' = [p \in {to} |-> empty] ++ made
           /\ bytes_transfered' = 0 /\ bytes_to_download' = fs[from].blocks
  <2>1. /\ DOMAIN r = {"pc", "data", "block"} /\ r["pc"] = "block"
        /\ r["data"] = fs[from].of /\ r["block"] = 0
    OBVIOUS
  <2>2. Set(t, r)
    BY <1>3
  <2> HIDE DEF r
  <2>3. DOMAIN r \subseteq Steps /\ Steps = {"pc", "stack", "from", "to", "data", "block", "ret"}
    BY <2>1 DEF Steps
  <2>4. Keeps(n, g) /\ \A f \in Steps : n[f] = IF f \in DOMAIN r THEN r[f] ELSE g[f]
    <3> HIDE DEF n, g
    <3> QED
      BY <2>2, <2>3, OwnSet DEF n, g
  <2>5. /\ n.pc = "block" /\ n.from = from /\ n.to = to /\ n.stack = g.stack
        /\ n.data = fs[from].of /\ n.block = 0
    BY <2>1, <2>3, <2>4
  <2>6. Good(t, g)
    BY <1>1, <2>4, GoodBefore
  <2>7. /\ Placed(t, g.job, g.was, fs, P) /\ Tree(fs) /\ Suits(t, g.job, g.was)
    BY <2>6, AtWork DEF Good
  <2>8. /\ from \in Marked(t, g.job, g.was) /\ from \in P
        /\ from \in DOMAIN fs /\ fs[from] = g.was[from] /\ fs[from] # Dir
        /\ to = Image(g.job, from) /\ Front(to) \in DOMAIN fs
    <3> HIDE DEF g
    <3> QED
      BY <1>1, <2>6, AtWork, FileAtHand DEF g
  <2>9. /\ DOMAIN made = DOMAIN fs /\ \A q \in DOMAIN fs : made[q] = fs[q]
    BY <2>7, <2>8, MkDirsNone
  <2> HIDE DEF made, empty
  <2>10. /\ DOMAIN fs' = DOMAIN fs \cup {to}
         /\ \A q \in DOMAIN fs : q # to => fs'[q] = fs[q]
         /\ fs'[to] = empty
    BY <1>3, <2>9 DEF ++
  <2>11. fs[from].of # "dir" /\ fs[from].blocks \in Nat
    BY <2>7, <2>8, FileIs DEF Tree
  <2>12. empty.of = fs[from].of /\ empty.blocks = 0 /\ empty # Dir
    BY <2>11 DEF empty, Dir
  <2>13. Placed(t, g.job, g.was, fs', P)
    <3> DEFINE job == g.job
               was == g.was
    <3>1. /\ Suits(t, job, was) /\ Placed(t, job, was, fs, P) /\ from \in Marked(t, job, was)
          /\ from \in P /\ was[from] # Dir
          /\ DOMAIN fs' = DOMAIN fs \cup {Image(job, from)}
          /\ \A q \in DOMAIN fs : q # Image(job, from) => fs'[q] = fs[q]
          /\ fs'[Image(job, from)] # Dir
      BY <2>7, <2>8, <2>10, <2>12
    <3> HIDE DEF job, was, from, P
    <3>2. Placed(t, job, was, fs', P)
      BY <3>1, PlacedFile
    <3> QED
      BY <3>2 DEF job, was
  <2>14. CopyIs(n, fs', bytes_transfered', bytes_to_download')
    <3>1. /\ n.was[n.from] = fs[from] /\ n.pc = "block" /\ n.to = to /\ fs'[to] = empty
          /\ to \in DOMAIN fs'
      BY <2>4, <2>5, <2>8, <2>10 DEF Keeps
    <3> HIDE DEF n, from, to
    <3> QED
      BY <1>3, <2>5, <2>11, <2>12, <3>1 DEF CopyIs
  <2>15. n.pc \in AtFile /\ DOMAIN fs' \subseteq DOMAIN fs \cup {to}
    BY <2>5, <2>10 DEF AtFile
  <2> QED
    BY <1>1, <2>4, <2>5, <2>13, <2>14, <2>15, FileGoes
<1>4. \/ \E ret \in {0, 1} : \/ Set(t, Return(t, ret)) /\ CopyNothing(t)
                             \/ ret = 0 /\ Set(t, Return(t, ret) ++ Odd)
      \/ /\ CopyBegin(t) /\ Set(t, r) /\ fs' = [p \in {to} |-> empty] ++ made
         /\ bytes_transfered' = 0 /\ bytes_to_download' = fs[from].blocks
  <2>1. CASE CopyNothing(t)
    <3>1. \E ret \in {0, 1} : Set(t, Return(t, ret))
      BY <2>1 DEF CopyNothing
    <3> QED
      BY <2>1, <3>1
  <2>2. CASE CopyBegin(t)
    BY <2>2 DEF CopyBegin
  <2> QED
    BY <2>1, <2>2
<1> HIDE DEF r, empty, made
<1> QED
  BY <1>2, <1>3, <1>4

LEMMA PasteCopyBlock ==
  ASSUME Inv, NEW t \in Threads, Pastes(t), Good(t, thread'[t]), CopyBlock(t)
  PROVE  Pastes(t)'
<1> DEFINE g == thread[t]
           n == thread'[t]
           P == ToPaste(t, g)
           from == g.from
           to == g.to
           more == g.block < Source(t)
           block == IF more THEN g.block + 1 ELSE g.block
           r == [pc |-> "test", block |-> block]
<1>1. /\ g.pc = "block" /\ g.pc \in AtFile /\ g.pc \in Pasting /\ g.pc # "done"
      /\ g.pc \in InCopy
  BY DEF CopyBlock, At, AtFile, Pasting, InCopy
<1>2. \/ /\ fs' = Written(t, block) /\ Set(t, r)
         /\ bytes_transfered' = bytes_transfered + (block - g.block)
         /\ bytes_to_download' = bytes_to_download
      \/ Set(t, Return(t, 0) ++ Odd)
  BY DEF CopyBlock
<1>3. CASE Set(t, Return(t, 0) ++ Odd)
  BY <1>1, <1>3, ReturnOwn
<1>4. CASE /\ fs' = Written(t, block) /\ Set(t, r)
           /\ bytes_transfered' = bytes_transfered + (block - g.block)
           /\ bytes_to_download' = bytes_to_download
  <2>1. DOMAIN r = {"pc", "block"} /\ r["pc"] = "test" /\ r["block"] = block
    OBVIOUS
  <2>2. Set(t, r)
    BY <1>4
  <2> HIDE DEF r
  <2>3. DOMAIN r \subseteq Steps /\ Steps = {"pc", "stack", "from", "to", "data", "block", "ret"}
    BY <2>1 DEF Steps
  <2>4. Keeps(n, g) /\ \A f \in Steps : n[f] = IF f \in DOMAIN r THEN r[f] ELSE g[f]
    <3> HIDE DEF n, g
    <3> QED
      BY <2>2, <2>3, OwnSet DEF n, g
  <2>5. /\ n.pc = "test" /\ n.from = from /\ n.to = to /\ n.stack = g.stack
        /\ n.data = g.data /\ n.block = block
    BY <2>1, <2>3, <2>4
  <2>6. Good(t, g)
    BY <1>1, <2>4, GoodBefore
  <2>7. /\ Placed(t, g.job, g.was, fs, P) /\ Tree(fs) /\ Suits(t, g.job, g.was)
        /\ CopyIs(g, fs, bytes_transfered, bytes_to_download)
    BY <2>6, AtWork DEF Good
  <2>8. /\ from \in Marked(t, g.job, g.was) /\ from \in P
        /\ from \in DOMAIN fs /\ fs[from] = g.was[from] /\ fs[from] # Dir
        /\ to = Image(g.job, from)
        /\ to \in DOMAIN fs => fs[to] # Dir
    <3> HIDE DEF g
    <3> QED
      BY <1>1, <2>6, AtWork, FileAtHand DEF g
  <2>9. /\ to \in DOMAIN fs /\ g.data = fs[from].of /\ fs[to].of = fs[from].of
        /\ fs[to].blocks = g.block /\ bytes_transfered = g.block
        /\ bytes_to_download = fs[from].blocks /\ g.block <= fs[from].blocks
    BY <1>1, <2>7, <2>8 DEF CopyIs
  <2>10. /\ fs[from].of # "dir" /\ fs[from].blocks \in Nat /\ fs[to].of # "dir"
         /\ fs[to].blocks \in Nat /\ fs[to] = [of |-> fs[to].of, blocks |-> fs[to].blocks]
    BY <2>7, <2>8, <2>9, FileIs DEF Tree
  <2>11. Source(t) = fs[from].blocks
    BY <2>8, <2>9, <2>10 DEF Source, FileExists, Exists
  <2> HIDE DEF more
  <2>12. block \in Nat /\ block <= fs[from].blocks /\ g.block \in Nat
    BY <2>9, <2>10, <2>11 DEF more
  <2> HIDE DEF block
  <2>13. fs' = [fs EXCEPT ![to].blocks = block]
    BY <1>4, <2>9, <2>10 DEF Written, FileExists, Exists
  <2>14. /\ DOMAIN fs' = DOMAIN fs \cup {to}
         /\ \A q \in DOMAIN fs : q # to => fs'[q] = fs[q]
         /\ fs'[to].of = fs[from].of /\ fs'[to].blocks = block
    <3>1. /\ DOMAIN fs' = DOMAIN fs
          /\ \A q \in DOMAIN fs : q # to => fs'[q] = fs[q]
          /\ fs'[to] = [fs[to] EXCEPT !.blocks = block]
      <4> HIDE DEF to
      <4> QED
        BY <2>9, <2>13
    <3>2. fs'[to].of = fs[to].of /\ fs'[to].blocks = block
      <4> DEFINE old == fs[to]
      <4>1. old = [of |-> old.of, blocks |-> old.blocks] /\ fs'[to] = [old EXCEPT !.blocks = block]
        BY <2>10, <3>1
      <4> HIDE DEF old, to
      <4>2. fs'[to].of = old.of /\ fs'[to].blocks = block
        BY <4>1
      <4> QED
        BY <4>2 DEF old
    <3> QED
      BY <2>9, <3>1, <3>2
  <2>15. fs'[to] # Dir
    BY <2>10, <2>14 DEF Dir
  <2>16. Placed(t, g.job, g.was, fs', P)
    <3> DEFINE job == g.job
               was == g.was
    <3>1. /\ Suits(t, job, was) /\ Placed(t, job, was, fs, P) /\ from \in Marked(t, job, was)
          /\ from \in P /\ was[from] # Dir
          /\ DOMAIN fs' = DOMAIN fs \cup {Image(job, from)}
          /\ \A q \in DOMAIN fs : q # Image(job, from) => fs'[q] = fs[q]
          /\ fs'[Image(job, from)] # Dir
      BY <2>7, <2>8, <2>14, <2>15
    <3> HIDE DEF job, was, from, P
    <3>2. Placed(t, job, was, fs', P)
      BY <3>1, PlacedFile
    <3> QED
      BY <3>2 DEF job, was
  <2>17. CopyIs(n, fs', bytes_transfered', bytes_to_download')
    <3>1. /\ n.was[n.from] = fs[from] /\ n.pc = "test" /\ n.to = to /\ to \in DOMAIN fs'
      BY <2>4, <2>5, <2>8, <2>14 DEF Keeps
    <3>2. bytes_transfered' = block
      BY <1>4, <2>9, <2>12
    <3> HIDE DEF n, from, to
    <3> QED
      BY <1>4, <2>5, <2>9, <2>12, <2>14, <3>1, <3>2 DEF CopyIs
  <2>18. n.pc \in AtFile /\ DOMAIN fs' \subseteq DOMAIN fs \cup {to}
    BY <2>5, <2>14 DEF AtFile
  <2> QED
    BY <1>1, <2>4, <2>5, <2>16, <2>17, <2>18, FileGoes
<1> HIDE DEF r, block, more
<1> QED
  BY <1>2, <1>3, <1>4

LEMMA PasteReadFails ==
  ASSUME Inv, NEW t \in Threads, Pastes(t), Good(t, thread'[t]), ReadFails(t)
  PROVE  Pastes(t)'
<1>1. /\ thread[t].pc = "block" /\ thread[t].pc \in AtFile /\ Set(t, [pc |-> "test"])
      /\ fs' = fs /\ bytes_transfered' = bytes_transfered
      /\ bytes_to_download' = bytes_to_download
  BY DEF ReadFails, At, AtFile, counters
<1> QED
  BY <1>1, PasteOnward

(* What is copied is pasted, with all that a file has under it. *)
LEMMA CopiedFile ==
  ASSUME Inv, NEW t \in Threads, Pastes(t), Good(t, thread[t]), thread[t].pc \in AtFile,
         thread[t].to \in DOMAIN fs, fs[thread[t].to] = thread[t].was[thread[t].from]
  PROVE  /\ Placed(t, thread[t].job, thread[t].was, fs,
                   {q \in ToPaste(t, thread[t]) : ~IsPrefix(thread[t].from, q)})
         /\ \A x \in DOMAIN fs : IsPrefix(thread[t].from, x) => x = thread[t].from
<1> DEFINE g == thread[t]
           P == ToPaste(t, g)
           Q == {q \in P : ~IsPrefix(g.from, q)}
<1>1. /\ Placed(t, g.job, g.was, fs, P) /\ Tree(fs) /\ Suits(t, g.job, g.was)
  BY AtWork DEF Good
<1>2. /\ g.from \in Marked(t, g.job, g.was) /\ g.from \in DOMAIN fs
      /\ fs[g.from] = g.was[g.from] /\ fs[g.from] # Dir /\ g.to = Image(g.job, g.from)
  <2> HIDE DEF g
  <2> QED
    BY AtWork, FileAtHand DEF g
<1>3. \A q \in Marked(t, g.job, g.was) : IsPrefix(g.from, q) => q = g.from
  <2>1. Tree(g.was) /\ g.from \in DOMAIN g.was /\ g.was[g.from] # Dir
    BY <1>1, <1>2 DEF Suits, Marked
  <2>2. \A q \in DOMAIN g.was : IsPrefix(g.from, q) => q = g.from
    BY <2>1, FileAlone
  <2> QED
    BY <2>2 DEF Marked
<1>4. \A q \in Marked(t, g.job, g.was) : q \in P \ Q =>
        Image(g.job, q) \in DOMAIN fs /\ fs[Image(g.job, q)] = g.was[q]
  BY <1>2, <1>3
<1>5. Q \subseteq P
  OBVIOUS
<1>6. Placed(t, g.job, g.was, fs, Q)
  <2> DEFINE job == g.job
             was == g.was
  <2>1. /\ Placed(t, job, was, fs, P)
        /\ \A q \in Marked(t, job, was) : q \in P \ Q =>
             Image(job, q) \in DOMAIN fs /\ fs[Image(job, q)] = was[q]
    BY <1>1, <1>4
  <2> HIDE DEF job, was, P, Q
  <2>2. Placed(t, job, was, fs, Q)
    BY <1>5, <2>1, PlacedMore
  <2> QED
    BY <2>2 DEF job, was
<1>7. \A x \in DOMAIN fs : IsPrefix(g.from, x) => x = g.from
  BY <1>1, <1>2, FileAlone
<1> QED
  BY <1>6, <1>7

LEMMA PasteCopyTest ==
  ASSUME Inv, NEW t \in Threads, Pastes(t), Good(t, thread'[t]), CopyTest(t),
         t \in Http => "flush" \notin Faults[t]
  PROVE  Pastes(t)'
<1> DEFINE g == thread[t]
           n == thread'[t]
           from == g.from
           to == g.to
           r == [pc |-> "unlink"]
<1>1. /\ g.pc = "test" /\ g.pc \in AtFile /\ g.pc \in Pasting /\ g.pc # "done"
      /\ g.pc \in InCopy
      /\ bytes_transfered' = bytes_transfered /\ bytes_to_download' = bytes_to_download
  BY DEF CopyTest, At, AtFile, Pasting, InCopy, counters
<1>2. CASE ~Copied(t)
  <2>1. Set(t, [pc |-> "block"]) /\ fs' = fs
    BY <1>2 DEF CopyTest
  <2> QED
    BY <1>1, <2>1, PasteOnward
<1>3. CASE Copied(t)
  <2> DEFINE next == IF g.job.kind = "move" THEN r ELSE Return(t, 1)
  <2>1. \/ Set(t, next) /\ fs' = fs
        \/ Set(t, next ++ Odd) /\ "flush" \in Faults[t]
    BY <1>3 DEF CopyTest, Fault, Kind
  <2>2. /\ DOMAIN r = {"pc"} /\ r["pc"] = "unlink"
        /\ DOMAIN r \subseteq Steps /\ Steps = {"pc", "stack", "from", "to", "data", "block", "ret"}
    BY DEF Steps
  <2> HIDE DEF r
  <2>3. CASE g.job.kind = "move"
    <3>1. Set(t, r) \/ Set(t, r ++ Odd)
      BY <2>1, <2>3
    <3>2. /\ Keeps(n, g) /\ \A f \in Steps : n[f] = IF f \in DOMAIN r THEN r[f] ELSE g[f]
          /\ Set(t, r ++ Odd) => ~n.plain
      <4> HIDE DEF n, g
      <4> QED
        BY <2>2, <3>1, OwnSet DEF n, g
    <3>3. /\ n.pc = "unlink" /\ n.from = from /\ n.to = to /\ n.stack = g.stack
          /\ n.data = g.data
      BY <2>2, <3>2
    <3>4. Good(t, g)
      BY <1>1, <3>2, GoodBefore
    <3>5. t \in Worker => ~Set(t, r ++ Odd)
      BY <3>2 DEF Good
    <3>6. fs' = fs
      BY <2>1, <2>3, <3>5 DEF Threads
    <3>7. /\ Placed(t, g.job, g.was, fs, ToPaste(t, g)) /\ Tree(fs)
          /\ CopyIs(g, fs, bytes_transfered, bytes_to_download)
      BY <3>4, AtWork
    <3>8. /\ from \in DOMAIN fs /\ fs[from] = g.was[from] /\ fs[from] # Dir
          /\ to \in DOMAIN fs => fs[to] # Dir
      <4> HIDE DEF g
      <4> QED
        BY <1>1, <3>4, AtWork, FileAtHand DEF g
    <3>9. CopyIs(n, fs', bytes_transfered', bytes_to_download')
      <4>1. /\ to \in DOMAIN fs /\ g.data = fs[from].of /\ fs[to].of = fs[from].of
            /\ fs[to].blocks = g.block /\ bytes_transfered = g.block
            /\ bytes_to_download = fs[from].blocks /\ g.block <= fs[from].blocks
        BY <1>1, <3>7, <3>8 DEF CopyIs
      <4>2. /\ fs[from] = [of |-> fs[from].of, blocks |-> fs[from].blocks]
            /\ fs[to] = [of |-> fs[to].of, blocks |-> fs[to].blocks]
            /\ fs[from].blocks \in Nat /\ fs[to].blocks \in Nat
        BY <3>7, <3>8, <4>1, FileIs DEF Tree
      <4>3. fs[to].blocks = fs[from].blocks
        BY <1>3, <4>1, <4>2 DEF Copied
      <4>4. fs[to] = fs[from]
        <5> HIDE DEF to, from
        <5> QED
          BY <4>1, <4>2, <4>3
      <4>5. n.was[n.from] = fs[from]
        BY <3>2, <3>3, <3>8 DEF Keeps
      <4> HIDE DEF n, to, from
      <4> QED
        BY <3>3, <3>6, <4>1, <4>4, <4>5 DEF CopyIs
    <3>10. n.pc \in AtFile /\ DOMAIN fs' \subseteq DOMAIN fs \cup {to}
      BY <3>3, <3>6 DEF AtFile
    <3> QED
      BY <1>1, <3>2, <3>3, <3>6, <3>7, <3>9, <3>10, FileGoes
  <2>4. CASE g.job.kind # "move"
    <3>1. Set(t, Return(t, 1)) \/ Set(t, Return(t, 1) ++ Odd)
      BY <2>1, <2>4
    <3>2. Good(t, g) /\ (t \in Worker => ~Set(t, Return(t, 1) ++ Odd))
      BY <1>1, <3>1, ReturnOwn
    <3>3. fs' = fs
      BY <2>1, <2>4, <3>2 DEF Threads
    <3>4. /\ Placed(t, g.job, g.was, fs, ToPaste(t, g)) /\ Tree(fs)
          /\ CopyIs(g, fs, bytes_transfered, bytes_to_download)
      BY <3>2, AtWork
    <3>5. /\ from \in DOMAIN fs /\ fs[from] = g.was[from] /\ fs[from] # Dir
          /\ to \in DOMAIN fs => fs[to] # Dir
      <4> HIDE DEF g
      <4> QED
        BY <1>1, <3>2, AtWork, FileAtHand DEF g
    <3>6. to \in DOMAIN fs /\ fs[to] = g.was[from]
      <4>1. /\ to \in DOMAIN fs /\ g.data = fs[from].of /\ fs[to].of = fs[from].of
            /\ fs[to].blocks = g.block /\ bytes_transfered = g.block
            /\ bytes_to_download = fs[from].blocks /\ g.block <= fs[from].blocks
        BY <1>1, <3>4, <3>5 DEF CopyIs
      <4>2. /\ fs[from] = [of |-> fs[from].of, blocks |-> fs[from].blocks]
            /\ fs[to] = [of |-> fs[to].of, blocks |-> fs[to].blocks]
            /\ fs[from].blocks \in Nat /\ fs[to].blocks \in Nat
        BY <3>4, <3>5, <4>1, FileIs DEF Tree
      <4>3. fs[to].blocks = fs[from].blocks
        BY <1>3, <4>1, <4>2 DEF Copied
      <4>4. fs[to] = fs[from]
        <5> HIDE DEF to, from
        <5> QED
          BY <4>1, <4>2, <4>3
      <4> QED
        BY <3>5, <4>1, <4>4
    <3>7. Placed(t, g.job, g.was, fs', {q \in ToPaste(t, g) : ~IsPrefix(g.from, q)})
      BY <1>1, <3>2, <3>3, <3>6, CopiedFile
    <3> QED
      BY <1>1, <2>4, <3>1, <3>7, FileDone
  <2> QED
    BY <2>3, <2>4
<1> HIDE DEF r
<1> QED
  BY <1>2, <1>3

LEMMA PasteUnlink ==
  ASSUME Inv, NEW t \in Threads, Pastes(t), Good(t, thread'[t]), Unlink(t)
  PROVE  Pastes(t)'
<1> DEFINE g == thread[t]
           from == g.from
           to == g.to
           Q == {q \in ToPaste(t, g) : ~IsPrefix(from, q)}
<1>1. /\ g.pc = "unlink" /\ g.pc \in AtFile /\ g.pc \in AtPath /\ g.pc \in Pasting /\ g.pc \in InCopy
      /\ Set(t, Return(t, 1))
      /\ fs' = IF FileExists(from) THEN Unlinked(fs, {from}) ELSE fs
  BY DEF Unlink, At, AtFile, AtPath, Pasting, InCopy
<1>2. Good(t, g)
  BY <1>1, ReturnOwn
<1>3. /\ ThreadOK(t, g) /\ Placed(t, g.job, g.was, fs, ToPaste(t, g)) /\ Tree(fs)
      /\ Suits(t, g.job, g.was) /\ Track(t, g)
      /\ CopyIs(g, fs, bytes_transfered, bytes_to_download)
  BY <1>2, AtWork DEF Good
<1>4. /\ from \in DOMAIN fs /\ fs[from] # Dir /\ Within(t, g.job, g.was, from)
      /\ from \in Seq(Name)
  <2> HIDE DEF g
  <2> QED
    BY <1>1, <1>2, <1>3, FileAtHand, PathAtHand
<1>5. fs' = Unlinked(fs, {from})
  BY <1>1, <1>3, <1>4, FileIs DEF FileExists, Exists, Tree
<1>6. to \in DOMAIN fs /\ fs[to] = g.was[from]
  BY <1>1, <1>3 DEF CopyIs
<1>7. /\ Placed(t, g.job, g.was, fs, Q)
      /\ \A x \in DOMAIN fs : IsPrefix(from, x) => x = from
  BY <1>1, <1>2, <1>6, CopiedFile
<1>8. from \notin Q
  BY <1>4, PrefixSelf
<1>9. g.job.kind = "move"
  BY <1>1, <1>3 DEF ThreadOK, Place
<1>10. Placed(t, g.job, g.was, fs', Q)
  <2> DEFINE job == g.job
             was == g.was
  <2>1. /\ Suits(t, job, was) /\ Placed(t, job, was, fs, Q) /\ job.kind = "move"
        /\ Within(t, job, was, from) /\ from \notin Q
    BY <1>3, <1>4, <1>7, <1>8, <1>9
  <2> HIDE DEF job, was, from, Q
  <2>2. Placed(t, job, was, Unlinked(fs, {from}), Q)
    BY <2>1, PlacedLess
  <2> QED
    BY <1>5, <2>2 DEF job, was
<1>11. \A x \in DOMAIN fs' : x \in DOMAIN fs /\ x # from
  BY <1>5 DEF Unlinked
<1>12. \A x \in DOMAIN fs' : x \in DOMAIN fs /\ ~IsPrefix(from, x)
  BY <1>7, <1>11
<1> QED
  BY <1>1, <1>10, <1>12, FileDone

-----------------------------------------------------------------------------
(***************************************************************************)
(* The steps in directories.                                               *)
(***************************************************************************)
LEMMA Settled ==
  ASSUME NEW t, Keeps(thread'[t], thread[t]), Track(t, thread'[t]),
         Placed(t, thread[t].job, thread[t].was, fs', ToPaste(t, thread'[t])),
         Gone(t, thread'[t], fs'), thread'[t].pc \notin InCopy
  PROVE  Pastes(t)'
<1> DEFINE n == thread'[t]
<1>1. Placed(t, n.job, n.was, fs', ToPaste(t, n))
  BY DEF Keeps
<1> HIDE DEF n
<1>2. CopyIs(n, fs', bytes_transfered', bytes_to_download')
  BY DEF CopyIs, InCopy, n
<1> QED
  BY <1>1, <1>2 DEF Pastes, PasteOK, n

(* Nothing happens to the devices, and nothing is left out. *)
LEMMA SettledSame ==
  ASSUME Inv, NEW t \in Threads, Pastes(t), Good(t, thread[t]), fs' = fs,
         Keeps(thread'[t], thread[t]), Track(t, thread'[t]),
         ToPaste(t, thread'[t]) = ToPaste(t, thread[t]),
         thread'[t].plain => \A x : Around(t, thread[t], x) => Around(t, thread'[t], x),
         thread'[t].pc \notin InCopy
  PROVE  Pastes(t)'
<1> DEFINE g == thread[t]
           n == thread'[t]
<1>1. Placed(t, g.job, g.was, fs, ToPaste(t, g)) /\ Gone(t, g, fs)
  BY AtWork
<1> HIDE DEF g, n
<1>2. Gone(t, n, fs')
  BY <1>1 DEF Gone, Keeps, g, n
<1>3. Placed(t, g.job, g.was, fs', ToPaste(t, n))
  BY <1>1 DEF g, n
<1> QED
  BY <1>2, <1>3, Settled DEF g, n

LEMMA PasteNextEntry ==
  ASSUME Inv, NEW t \in Threads, Pastes(t), Good(t, thread'[t]), NextEntry(t)
  PROVE  Pastes(t)'
<1> DEFINE g == thread[t]
           n == thread'[t]
           pc(e) == IF e.isDir THEN "enter" ELSE IF t \in Worker THEN "file" ELSE g.job.kind
           left(e) == Front(g.stack) \o <<[Last(g.stack) EXCEPT !.todo = @ \ {e}]>>
           dest(e) == Into(Last(g.stack).dest, e.path)
<1>1. g.pc = "entries" /\ g.pc # "done" /\ fs' = fs
  BY DEF NextEntry, At
<1>2. PICK e \in Last(g.stack).todo :
        Set(t, [pc |-> pc(e), from |-> e.path, to |-> dest(e), stack |-> left(e)])
  BY DEF NextEntry, Kind, Top
<1> DEFINE r == [pc |-> pc(e), from |-> e.path, to |-> dest(e), stack |-> left(e)]
           p == pc(e)
           s == left(e)
           d == dest(e)
<1>3. /\ p \in {"enter", "file", g.job.kind} /\ (e.isDir => p = "enter")
      /\ ~e.isDir => p \in {"file", g.job.kind}
  OBVIOUS
<1> HIDE DEF p, s, d
<1>4. DOMAIN r = {"pc", "from", "to", "stack"} /\ r["pc"] = p /\ r["from"] = e.path
      /\ r["to"] = d /\ r["stack"] = s
  BY DEF p, s, d
<1>5. Set(t, r)
  BY <1>2
<1> HIDE DEF r
<1>6. DOMAIN r \subseteq Steps /\ Steps = {"pc", "stack", "from", "to", "data", "block", "ret"}
  BY <1>4 DEF Steps
<1>7. Keeps(n, g) /\ \A f \in Steps : n[f] = IF f \in DOMAIN r THEN r[f] ELSE g[f]
  <2> HIDE DEF n, g
  <2> QED
    BY <1>5, <1>6, OwnSet DEF n, g
<1>8. n.pc = p /\ n.from = e.path /\ n.to = d /\ n.stack = s
  BY <1>4, <1>6, <1>7
<1>9. Good(t, g)
  BY <1>1, <1>7, GoodBefore
<1>10. ThreadOK(t, g) /\ Track(t, g) /\ g.job.kind \in {"move", "copy"}
  BY <1>9, AtWork DEF Good
<1>11. g.stack # <<>>
  BY <1>1, <1>10 DEF ThreadOK, Walk, InDirectory
<1>12. /\ Track(t, n) /\ ToPaste(t, n) = ToPaste(t, g)
       /\ \A x : Around(t, g, x) => Around(t, n, x)
  <2>1. n.pc \in {"enter", "file", "move", "copy"} /\ (n.pc = "enter" <=> e.isDir)
    BY <1>3, <1>8, <1>10
  <2>2. /\ n.to = Into(Last(g.stack).dest, e.path)
        /\ n.stack = Front(g.stack) \o <<[Last(g.stack) EXCEPT !.todo = @ \ {e}]>>
    BY <1>8 DEF s, d
  <2> HIDE DEF n, g
  <2> QED
    BY <1>1, <1>2, <1>7, <1>8, <1>9, <1>10, <1>11, <2>1, <2>2, Taken
<1>13. n.pc \notin InCopy
  BY <1>3, <1>8, <1>10 DEF InCopy
<1> HIDE DEF n, g
<1> QED
  BY <1>1, <1>7, <1>9, <1>12, <1>13, SettledSame DEF n, g

LEMMA LeaveOwn ==
  ASSUME Inv, NEW t \in Threads, NEW pc, NEW r,
         r = IF Front(thread[t].stack) = <<>> THEN [pc |-> "done", stack |-> <<>>, ret |-> 1]
             ELSE [pc |-> pc, stack |-> Front(thread[t].stack)],
         Set(t, r) \/ Set(t, r ++ Odd)
  PROVE  /\ Keeps(thread'[t], thread[t]) /\ thread'[t].stack = Front(thread[t].stack)
         /\ thread'[t].pc = IF Front(thread[t].stack) = <<>> THEN "done" ELSE pc
         /\ Set(t, r ++ Odd) => ~thread'[t].plain
<1> DEFINE g == thread[t]
           n == thread'[t]
           above == Front(g.stack)
<1>1. CASE above = <<>>
  <2>1. r = [pc |-> "done", stack |-> <<>>, ret |-> 1]
    BY <1>1
  <2>2. DOMAIN r = {"pc", "stack", "ret"} /\ r["pc"] = "done" /\ r["stack"] = <<>>
    BY <2>1
  <2>3. DOMAIN r \subseteq Steps /\ {"pc", "stack"} \subseteq Steps
    BY <2>2 DEF Steps
  <2>4. /\ Keeps(n, g) /\ \A f \in Steps : n[f] = IF f \in DOMAIN r THEN r[f] ELSE g[f]
        /\ Set(t, r ++ Odd) => ~n.plain
    <3> HIDE DEF n, g
    <3> QED
      BY <2>3, OwnSet DEF n, g
  <2> QED
    BY <1>1, <2>2, <2>3, <2>4
<1>2. CASE above # <<>>
  <2>1. r = [pc |-> pc, stack |-> above]
    BY <1>2
  <2> HIDE DEF above
  <2>2. DOMAIN r = {"pc", "stack"} /\ r["pc"] = pc /\ r["stack"] = above
    BY <2>1
  <2>3. DOMAIN r \subseteq Steps /\ {"pc", "stack"} \subseteq Steps
    BY <2>2 DEF Steps
  <2>4. /\ Keeps(n, g) /\ \A f \in Steps : n[f] = IF f \in DOMAIN r THEN r[f] ELSE g[f]
        /\ Set(t, r ++ Odd) => ~n.plain
    <3> HIDE DEF n, g
    <3> QED
      BY <2>3, OwnSet DEF n, g
  <2> QED
    BY <1>2, <2>2, <2>3, <2>4 DEF above
<1> QED
  BY <1>1, <1>2

(* A worker that was not to be stopped, and met no fault, does not give up. *)
LEMMA PasteGivesUp ==
  ASSUME Inv, NEW t \in Threads, Pastes(t), Good(t, thread'[t]),
         EnterStopped(t) \/ EnterRefused(t) \/ EntriesStopped(t)
  PROVE  FALSE
<1>1. t \in Worker /\ thread'[t].plain
  BY DEF EnterStopped, EnterRefused, EntriesStopped, Stopped, Renames, Good
<1>2. ASSUME NEW ret \in {0, 1}, Set(t, Return(t, ret) ++ Odd), At(t, "enter")
      PROVE  FALSE
  <2>1. thread[t].pc \in Pasting
    BY <1>2 DEF At, Pasting
  <2> QED
    BY <1>1, <1>2, <2>1, ReturnOwn
<1>3. CASE EnterStopped(t)
  BY <1>2, <1>3 DEF EnterStopped
<1>4. CASE EnterRefused(t)
  BY <1>2, <1>4 DEF EnterRefused
<1>5. CASE EntriesStopped(t)
  <2> DEFINE r == Leave(t)
  <2>1. Set(t, r ++ Odd)
    BY <1>5 DEF EntriesStopped
  <2>2. r = IF Front(thread[t].stack) = <<>> THEN [pc |-> "done", stack |-> <<>>, ret |-> 1]
            ELSE [pc |-> "entries", stack |-> Front(thread[t].stack)]
    BY DEF Leave
  <2> HIDE DEF r
  <2>3. ~thread'[t].plain
    BY <2>1, <2>2, LeaveOwn
  <2> QED
    BY <1>1, <2>3
<1> QED
  BY <1>3, <1>4, <1>5

(* A mkdir that is refused is a fault, which the worker's paste remembers. *)
LEMMA PasteUnmade ==
  ASSUME Inv, NEW t \in Threads, Pastes(t), Good(t, thread'[t]),
         EnterUnmade(t) \/ CopyUnmade(t), t \in Http => "mkdir" \notin Faults[t]
  PROVE  FALSE
<1>1. "mkdir" \in Faults[t]
  BY DEF EnterUnmade, CopyUnmade, Fault
<1>2. t \in Worker /\ thread'[t].plain
  BY <1>1 DEF Threads, Good
<1>3. CASE CopyUnmade(t)
  <2>1. thread[t].pc \in Pasting /\ \E ret \in {0, 1} : Set(t, Return(t, ret) ++ Odd)
    BY <1>3 DEF CopyUnmade, At, Pasting
  <2> QED
    BY <1>2, <2>1, ReturnOwn
<1>4. CASE EnterUnmade(t)
  <2> DEFINE stack(todo) == Append(thread[t].stack,
                              [src |-> thread[t].from, dest |-> thread[t].to, todo |-> todo])
             r(todo) == [pc |-> "entries", stack |-> stack(todo)]
  <2>1. PICK todo \in {{}, Entries(thread[t].from)} : Set(t, r(todo) ++ Odd)
    BY <1>4 DEF EnterUnmade
  <2> DEFINE s == stack(todo)
             q == [pc |-> "entries", stack |-> s]
  <2>2. Set(t, q ++ Odd)
    BY <2>1
  <2> HIDE DEF s
  <2>3. DOMAIN q \subseteq Steps
    BY DEF Steps
  <2> HIDE DEF q
  <2>4. ~thread'[t].plain
    BY <2>2, <2>3, OwnSet
  <2> QED
    BY <1>2, <2>4
<1> QED
  BY <1>3, <1>4

(* The directory on top of the stack: of the job, and not one of its entries. *)
LEMMA TopAtHand ==
  ASSUME NEW t, NEW g, ThreadOK(t, g), Good(t, g), Track(t, g), g.stack # <<>>,
         g.pc \notin AtPath, Last(g.stack).todo = {}
  PROVE  /\ Last(g.stack) \in Levels(g.job) /\ LevelFits(g, Last(g.stack))
         /\ Last(g.stack).src \in Path /\ Last(g.stack).src \in Seq(Name)
         /\ Within(t, g.job, g.was, Last(g.stack).src)
         /\ Last(g.stack).src \notin ToPaste(t, g)
         /\ \A x \in Seq(Name) :
              IsPrefix(Last(g.stack).src, x) /\ Len(x) = Len(Last(g.stack).src) + 1 =>
                /\ Within(t, g.job, g.was, x)
                /\ Around(t, g, x) => Covers(t, g, x)
<1> DEFINE s == g.stack
           l == Last(s)
<1>1. /\ s \in Seq(Levels(g.job)) /\ s # <<>> /\ Nested(s) /\ Last(s).todo = {}
      /\ g.job.items \subseteq Path /\ g.pc \notin {"idle", "items", "done"}
      /\ Suits(t, g.job, g.was)
  BY DEF ThreadOK, Walk, Track, Errand, Good
<1>2. /\ l \in Levels(g.job) /\ \E i \in DOMAIN s : s[i] = l
      /\ \A x \in Seq(Name) : IsPrefix(l.src, x) /\ Len(x) = Len(l.src) + 1 =>
           ~Spotted(s, x) /\ \A i \in DOMAIN s : s[i].src # x
  <2> DEFINE job == g.job
  <2>1. s \in Seq(Levels(job))
    BY <1>1
  <2> HIDE DEF s, job
  <2>2. /\ Last(s) \in Levels(job) /\ \E i \in DOMAIN s : s[i] = Last(s)
        /\ \A x \in Seq(Name) : IsPrefix(Last(s).src, x) /\ Len(x) = Len(Last(s).src) + 1 =>
             ~Spotted(s, x) /\ \A i \in DOMAIN s : s[i].src # x
    BY <1>1, <2>1, NestedPop
  <2> QED
    BY <2>2 DEF job
<1>3. LevelFits(g, l) /\ ~Spotted(s, l.src)
  BY <1>1, <1>2 DEF Track, Nested
<1>4. l.src \in Path /\ l.src \in Seq(Name)
  BY <1>2, LevelEntry
<1>5. /\ g.item.path \in Chosen(t, g.job, g.was) \ g.items /\ g.item.path \in g.job.items
      /\ g.item.path \in Seq(Name) /\ IsPrefix(g.item.path, l.src)
  BY <1>1, <1>3 DEF Track, LevelFits, Chosen, Path
<1> HIDE DEF l, s
<1>6. ASSUME NEW x \in Seq(Name), IsPrefix(l.src, x)
      PROVE  Within(t, g.job, g.was, x) /\ ~Waiting(g, x)
  <2>1. IsPrefix(g.item.path, x)
    BY <1>4, <1>5, <1>6, PrefixTrans
  <2> QED
    BY <1>1, <1>5, <2>1, ItemsApart DEF Within
<1>7. Within(t, g.job, g.was, l.src) /\ ~Waiting(g, l.src)
  BY <1>4, <1>6, PrefixSelf
<1>8. l.src \notin ToPaste(t, g)
  BY <1>3, <1>7 DEF ToPaste, Beneath, s
<1>9. \A x \in Seq(Name) : IsPrefix(l.src, x) /\ Len(x) = Len(l.src) + 1 =>
        /\ Within(t, g.job, g.was, x)
        /\ Around(t, g, x) => Covers(t, g, x)
  BY <1>2, <1>6 DEF Around, Beneath, s
<1> QED
  BY <1>2, <1>3, <1>4, <1>7, <1>8, <1>9 DEF l, s

LEMMA PasteEntriesDone ==
  ASSUME Inv, NEW t \in Threads, Pastes(t), Good(t, thread'[t]), EntriesDone(t)
  PROVE  Pastes(t)'
<1> DEFINE g == thread[t]
           n == thread'[t]
           src == Last(g.stack).src
           r == Leave(t)
<1>1. /\ g.pc = "entries" /\ g.pc # "done" /\ g.pc \notin AtPath /\ g.pc \in Pasting
      /\ Last(g.stack).todo = {} /\ Set(t, r)
      /\ fs' = IF RemovesEmpty(t) THEN Unlinked(fs, Under(src)) ELSE fs
  BY DEF EntriesDone, At, AtPath, Pasting, Top
<1>2. r = IF Front(thread[t].stack) = <<>> THEN [pc |-> "done", stack |-> <<>>, ret |-> 1]
          ELSE [pc |-> "entries", stack |-> Front(thread[t].stack)]
  BY DEF Leave
<1> HIDE DEF r
<1>3. /\ Keeps(n, g) /\ n.stack = Front(g.stack)
      /\ n.pc = IF Front(g.stack) = <<>> THEN "done" ELSE "entries"
  BY <1>1, <1>2, LeaveOwn
<1>4. Good(t, g)
  BY <1>1, <1>3, GoodBefore
<1>5. /\ ThreadOK(t, g) /\ Tree(fs) /\ Track(t, g) /\ Placed(t, g.job, g.was, fs, ToPaste(t, g))
      /\ Gone(t, g, fs) /\ Suits(t, g.job, g.was)
  BY <1>4, AtWork DEF Good
<1>6. g.stack # <<>>
  BY <1>1, <1>5 DEF ThreadOK, Walk, InDirectory
<1>7. /\ Track(t, n) /\ ToPaste(t, n) = ToPaste(t, g)
      /\ \A x : Around(t, g, x) /\ x # src => Around(t, n, x)
  <2> HIDE DEF n, g
  <2> QED
    BY <1>1, <1>3, <1>4, <1>5, <1>6, WalkLeft
<1>8. /\ LevelFits(g, Last(g.stack)) /\ src \in Path /\ src \in Seq(Name)
      /\ Within(t, g.job, g.was, src) /\ src \notin ToPaste(t, g)
      /\ \A x \in Seq(Name) : IsPrefix(src, x) /\ Len(x) = Len(src) + 1 =>
           /\ Within(t, g.job, g.was, x)
           /\ Around(t, g, x) => Covers(t, g, x)
  <2> HIDE DEF g
  <2> QED
    BY <1>1, <1>4, <1>5, <1>6, TopAtHand
<1>9. n.pc \notin InCopy /\ n.pc \notin {"idle", "items"}
  BY <1>3 DEF InCopy
<1> HIDE DEF n, g, src
<1>10. CASE RemovesEmpty(t)
  <2>1. g.job.kind = "move" /\ src \in DOMAIN fs /\ Children(src) = {}
    BY <1>10 DEF RemovesEmpty, Kind, IsDir, Exists, Top, src, g
  <2>2. fs' = Unlinked(fs, {src})
    BY <1>1, <1>5, <1>10, <2>1, NoChildren
  <2>3. Placed(t, g.job, g.was, fs', ToPaste(t, n))
    <3> DEFINE job == g.job
               was == g.was
               P == ToPaste(t, g)
    <3>1. /\ Suits(t, job, was) /\ Placed(t, job, was, fs, P) /\ job.kind = "move"
          /\ Within(t, job, was, src) /\ src \notin P
      BY <1>5, <1>8, <2>1
    <3> HIDE DEF job, was, P
    <3>2. Placed(t, job, was, Unlinked(fs, {src}), P)
      BY <3>1, PlacedLess
    <3> QED
      BY <1>7, <2>2, <3>2 DEF job, was, P
  <2>4. \A x \in DOMAIN fs' : x \in DOMAIN fs /\ x # src
    BY <2>2 DEF Unlinked
  <2>5. Gone(t, n, fs')
    BY <1>3, <1>5, <1>7, <2>4 DEF Gone, Keeps
  <2> QED
    BY <1>3, <1>7, <1>9, <2>3, <2>5, Settled DEF n, g
<1>11. CASE ~RemovesEmpty(t)
  <2>1. fs' = fs
    BY <1>1, <1>11
  <2>2. ASSUME n.plain, g.job.kind = "move", src \in DOMAIN fs
        PROVE  Around(t, n, src)
    <3>1. CASE t \in Http
      <4>1. g.item.isDir /\ ~g.removing /\ IsPrefix(g.item.path, src)
        BY <1>1, <1>5, <1>6, <1>8, <3>1 DEF Track, LevelFits, src
      <4> QED
        BY <1>3, <1>9, <3>1, <4>1 DEF Around, Covers, Keeps
    <3>2. CASE t \in Worker
      <4>1. src \in DOMAIN g.was /\ fs[src] = g.was[src] /\ g.was[src] = Dir
        BY <1>5, <1>8, <2>2 DEF Placed, LevelFits, src
      <4>2. IsDir(src)
        BY <2>2, <4>1 DEF IsDir, Exists, Dir
      <4>3. Children(src) # {}
        BY <1>11, <2>2, <3>2, <4>2 DEF RemovesEmpty, Kind, Top, src, g
      <4>4. PICK c \in DOMAIN fs : IsPrefix(src, c) /\ Len(c) = Len(src) + 1
        BY <4>3 DEF Children, Under
      <4>5. c \in Seq(Name)
        BY <1>5 DEF Tree, Path
      <4>6. Around(t, g, c)
        BY <1>3, <1>5, <1>8, <2>2, <4>4, <4>5 DEF Gone, Keeps
      <4>7. t \in Http
        BY <1>8, <4>4, <4>5, <4>6 DEF Covers
      <4> QED
        BY <3>2, <4>7, FileOpsAssumption DEF FileOpsAssumption
    <3> QED
      BY <3>1, <3>2 DEF Threads
  <2>3. Gone(t, n, fs')
    BY <1>3, <1>5, <1>7, <2>1, <2>2 DEF Gone, Keeps
  <2>4. Placed(t, g.job, g.was, fs', ToPaste(t, n))
    BY <1>5, <1>7, <2>1
  <2> QED
    BY <1>3, <1>7, <1>9, <2>3, <2>4, Settled DEF n, g
<1> QED
  BY <1>10, <1>11

(* mkdir makes nothing but on the way. *)
LEMMA MkDirsOnWay ==
  ASSUME NEW f, NEW p \in Seq(Name), NEW x \in DOMAIN MkDirs(f, p) \ DOMAIN f
  PROVE  x \in Seq(Name) /\ IsPrefix(x, p)
<1>1. PICK i \in 1..Len(p) : x = SubSeq(p, 1, i)
  BY DEF MkDirs, ++
<1>2. Len(p) \in Nat /\ 1 \in 1..(Len(p) + 1) /\ i \in 0..Len(p)
  BY LenProperties
<1>3. x \in Seq(Name) /\ Len(x) = i /\ \A k \in 1..i : x[k] = p[k]
  BY <1>1, <1>2, SubSeqProperties
<1> QED
  BY <1>2, <1>3, PrefixDef

(* What is listed of a directory of the job. *)
LEMMA ListedFits ==
  ASSUME NEW t, NEW g, ThreadOK(t, g), Good(t, g), Track(t, g), g.pc \in {"enter", "rm"},
         Tree(fs), Placed(t, g.job, g.was, fs, ToPaste(t, g)),
         g.from \in DOMAIN g.was => g.was[g.from] = Dir,
         NEW todo \in SUBSET Entries(g.from), NEW to \in Seq(Name),
         ~g.removing => to = Image(g.job, g.from)
  PROVE  /\ [src |-> g.from, dest |-> to, todo |-> todo] \in Levels(g.job)
         /\ LevelFits(g, [src |-> g.from, dest |-> to, todo |-> todo])
         /\ \A e, d \in todo : e.path = d.path => e = d
<1>1. g.pc \in AtPath
  BY DEF AtPath, Pasting
<1>2. /\ g.from \in Path /\ g.from \in Seq(Name) /\ Within(t, g.job, g.was, g.from)
      /\ IsPrefix(g.item.path, g.from) /\ Inside(g.job, g.from) /\ g.job.items \subseteq Path
  BY <1>1, PathAtHand DEF Track, ThreadOK, Place, Errand
<1>3. [src |-> g.from, dest |-> to, todo |-> todo] \in Levels(g.job)
  BY <1>2, LevelIs
<1>4. ASSUME NEW e \in todo
      PROVE  e = Entry(e.path) /\ e.path \in DOMAIN g.was /\ (e.isDir <=> g.was[e.path] = Dir)
  <2>1. PICK c \in Children(g.from) : e = Entry(c)
    BY DEF Entries
  <2>2. c \in DOMAIN fs /\ IsPrefix(g.from, c) /\ c \in Seq(Name)
    BY DEF Children, Under, Tree, Path
  <2>3. Within(t, g.job, g.was, c)
    BY <1>2, <2>2, WithinUp
  <2>4. c \in DOMAIN g.was /\ fs[c] = g.was[c]
    BY <2>2, <2>3 DEF Placed
  <2>5. fs[c].of = "dir" <=> fs[c] = Dir
    BY <2>2, FileIs DEF Tree
  <2>6. e.path = c /\ (e.isDir <=> fs[c].of = "dir")
    BY <2>1, <2>2 DEF Entry, IsDir, Exists
  <2> QED
    BY <2>1, <2>4, <2>5, <2>6
<1>5. LevelFits(g, [src |-> g.from, dest |-> to, todo |-> todo])
  BY <1>2, <1>4 DEF LevelFits
<1> QED
  BY <1>3, <1>4, <1>5

LEMMA PasteEnterListed ==
  ASSUME Inv, NEW t \in Threads, Pastes(t), Good(t, thread'[t]), EnterListed(t),
         t \in Http => "list" \notin Faults[t]
  PROVE  Pastes(t)'
<1> DEFINE g == thread[t]
           n == thread'[t]
           job == g.job
           was == g.was
           P == ToPaste(t, g)
           from == g.from
           to == g.to
           renamed == Renames(t) /\ RenameError(from, to) = "none"
           todo == IF renamed THEN {} ELSE Entries(from)
           l == [src |-> from, dest |-> to, todo |-> todo]
           s == Append(g.stack, l)
           r == [pc |-> "entries", stack |-> s]
           bare == Append(g.stack, [src |-> from, dest |-> to, todo |-> {}])
           q == [pc |-> "entries", stack |-> bare]
<1>1. /\ g.pc = "enter" /\ g.pc # "done" /\ g.pc \in AtPath /\ g.pc \in Pasting
      /\ fs' = IF renamed THEN Renamed(from, to) ELSE MkDirs(fs, to)
      /\ Set(t, r) \/ (Set(t, q ++ Odd) /\ "list" \in Faults[t])
  BY DEF EnterListed, At, AtPath, Pasting, Fault
<1> HIDE DEF s, bare, renamed
<1>2. /\ DOMAIN r = {"pc", "stack"} /\ r["pc"] = "entries" /\ r["stack"] = s
      /\ DOMAIN q = {"pc", "stack"}
  OBVIOUS
<1> HIDE DEF r, q
<1>3. /\ DOMAIN r \subseteq Steps /\ DOMAIN q \subseteq Steps /\ {"pc", "stack"} \subseteq Steps
  BY <1>2 DEF Steps
<1>4. Set(t, r)
  <2>1. Set(t, q ++ Odd) => ~n.plain
    <3> HIDE DEF n
    <3> QED
      BY <1>3, OwnSet DEF n
  <2>2. t \in Worker => n.plain
    BY DEF Good
  <2> QED
    BY <1>1, <2>1, <2>2 DEF Threads
<1>5. Keeps(n, g) /\ \A f \in Steps : n[f] = IF f \in DOMAIN r THEN r[f] ELSE g[f]
  <2> HIDE DEF n, g
  <2> QED
    BY <1>3, <1>4, OwnSet DEF n, g
<1>6. n.pc = "entries" /\ n.stack = s
  BY <1>2, <1>3, <1>5
<1>7. Good(t, g)
  BY <1>1, <1>5, GoodBefore
<1>8. /\ ThreadOK(t, g) /\ Tree(fs) /\ Track(t, g) /\ Placed(t, job, was, fs, P)
      /\ Gone(t, g, fs) /\ Suits(t, job, was)
  BY <1>7, AtWork DEF Good
<1>9. /\ from \in Path /\ from \in Seq(Name) /\ Within(t, job, was, from)
      /\ \A x \in Seq(Name) : IsPrefix(from, x) => ~Waiting(g, x) /\ ~Spotted(g.stack, x)
  <2> HIDE DEF g
  <2> QED
    BY <1>1, <1>7, <1>8, PathAtHand
<1>10. /\ to = Image(job, from) /\ from \in Marked(t, job, was) \cup Chosen(t, job, was)
       /\ from \in DOMAIN was => was[from] = Dir
       /\ ~g.removing
  BY <1>1, <1>8 DEF Track
<1>11. /\ to \in Path /\ to \in Seq(Name) /\ ~Within(t, job, was, to) /\ job.items \subseteq Path
  <2> HIDE DEF job, was, from, to
  <2> QED
    BY <1>8, <1>10, MarkedIs DEF Suits
<1>12. l \in Levels(job) /\ LevelFits(g, l) /\ \A e, d \in todo : e.path = d.path => e = d
  <2>1. todo \in SUBSET Entries(from)
    OBVIOUS
  <2> HIDE DEF todo, g
  <2> QED
    BY <1>1, <1>7, <1>8, <1>10, <1>11, <2>1, ListedFits DEF job, was, from, P
<1>13. /\ Track(t, n)
       /\ \A x : Beneath(n, x) <=> Spotted(g.stack, x) \/ \E e \in todo : IsPrefix(e.path, x)
       /\ \A x : /\ Around(t, g, x)
                 /\ IsPrefix(from, x) => x = from \/ \E e \in todo : IsPrefix(e.path, x)
                 => Around(t, n, x)
  <2>1. l.src = from /\ l.todo = todo
    OBVIOUS
  <2>2. n.stack = Append(g.stack, l)
    BY <1>6 DEF s
  <2> HIDE DEF n, g, l, todo
  <2>3. /\ Track(t, n)
        /\ \A x : Beneath(n, x) <=> Spotted(g.stack, x) \/ \E e \in l.todo : IsPrefix(e.path, x)
        /\ \A x : /\ Around(t, g, x)
                  /\ IsPrefix(from, x) => x = from \/ \E e \in l.todo : IsPrefix(e.path, x)
                  => Around(t, n, x)
    BY <1>1, <1>5, <1>6, <1>7, <1>8, <1>12, <2>1, <2>2, Entered
  <2> QED
    BY <2>1, <2>3
<1>14. ToPaste(t, n) = {x \in Marked(t, job, was) : Waiting(g, x) \/ Spotted(g.stack, x)
                                                     \/ \E e \in todo : IsPrefix(e.path, x)}
  <2>1. n.pc \in Pasting
    BY <1>6 DEF Pasting
  <2> HIDE DEF n, g, todo
  <2> QED
    BY <1>5, <1>13, <2>1, KeepsFits DEF ToPaste, job, was
<1>15. P = {x \in Marked(t, job, was) : Waiting(g, x) \/ Spotted(g.stack, x) \/ IsPrefix(from, x)}
  BY <1>1 DEF ToPaste, Beneath
<1>16. n.pc \notin InCopy
  BY <1>6 DEF InCopy
<1>17. \A x \in Marked(t, job, was) : x \in Seq(Name)
  <2> HIDE DEF job, was
  <2> QED
    BY <1>8, MarkedIs
<1> HIDE DEF n, g, P, l, todo, job, was, from, to
<1>18. CASE renamed
  <2>1. todo = {}
    BY <1>18 DEF todo
  <2>2. /\ g.job.kind = "move" /\ from \in DOMAIN fs /\ RenameError(from, to) = "none"
    BY <1>18 DEF renamed, Renames, Kind, RenameError, Exists, from, to, g
  <2>3. from \in Marked(t, job, was) /\ from # to
    BY <1>8, <1>9, <1>11, <2>2 DEF Placed, Marked
  <2>4. RenameMoves(from, to, fs')
    BY <1>1, <1>8, <1>9, <1>11, <1>18, <2>2, <2>3, RenamedTree
  <2>5. /\ Placed(t, job, was, fs', P \ {x \in P : IsPrefix(from, x)})
        /\ \A x \in DOMAIN fs' : Within(t, job, was, x) => x \in DOMAIN fs /\ ~IsPrefix(from, x)
    <3>1. \A x \in Marked(t, job, was) : IsPrefix(from, x) => x \in P
      BY <1>15
    <3>2. RenameMoves(from, Image(job, from), fs') /\ job.kind = "move"
      BY <1>10, <2>2, <2>4 DEF job
    <3> QED
      BY <1>8, <2>3, <3>1, <3>2, PlacedRenamed
  <2>6. ToPaste(t, n) = P \ {x \in P : IsPrefix(from, x)}
    BY <1>9, <1>14, <1>15, <1>17, <2>1
  <2>7. Gone(t, n, fs')
    BY <1>5, <1>8, <1>13, <2>5 DEF Gone, Keeps, job, was
  <2> QED
    BY <1>5, <1>13, <1>16, <2>5, <2>6, <2>7, Settled DEF n, g, job, was
<1>19. CASE ~renamed
  <2>1. todo = Entries(from) /\ fs' = MkDirs(fs, to)
    BY <1>1, <1>19 DEF todo
  <2>2. /\ Placed(t, job, was, fs', P)
        /\ from \in DOMAIN was => to \in DOMAIN fs' /\ fs'[to] = Dir
    BY <1>8, <1>10, <2>1, PlacedDirs
  <2>3. ASSUME NEW x \in DOMAIN fs, IsPrefix(from, x), x # from
        PROVE  \E e \in todo : IsPrefix(e.path, x)
    <3>1. PICK c \in Children(from) : IsPrefix(c, x)
      BY <1>8, <1>9, <2>3, ChildAbove
    <3>2. Entry(c) \in todo /\ Entry(c).path = c
      BY <2>1 DEF Entries, Entry
    <3> QED
      BY <3>1, <3>2
  <2>4. ToPaste(t, n) \subseteq P
    <3> SUFFICES ASSUME NEW x \in Marked(t, job, was), NEW e \in todo, IsPrefix(e.path, x)
                 PROVE  IsPrefix(from, x)
      BY <1>14, <1>15
    <3>1. PICK c \in Children(from) : e = Entry(c)
      BY <2>1 DEF Entries
    <3>2. e.path = c /\ c \in Seq(Name) /\ IsPrefix(from, c)
      BY <1>8, <3>1 DEF Entry, Children, Under, Tree, Path
    <3> QED
      BY <1>9, <1>17, <3>2, PrefixTrans
  <2>5. \A x \in Marked(t, job, was) : x \in P \ ToPaste(t, n) =>
          Image(job, x) \in DOMAIN fs' /\ fs'[Image(job, x)] = was[x]
    <3> SUFFICES ASSUME NEW x \in Marked(t, job, was), x \in P, x \notin ToPaste(t, n)
                 PROVE  x = from
      BY <1>10, <2>2 DEF Marked
    <3>1. x \in DOMAIN fs
      BY <1>8 DEF Placed
    <3>2. IsPrefix(from, x) /\ ~\E e \in todo : IsPrefix(e.path, x)
      BY <1>14, <1>15
    <3> QED
      BY <2>3, <3>1, <3>2
  <2>6. Placed(t, job, was, fs', ToPaste(t, n))
    <3> DEFINE Q == ToPaste(t, n)
    <3>1. /\ Q \subseteq P
          /\ \A x \in Marked(t, job, was) : x \in P \ Q =>
               Image(job, x) \in DOMAIN fs' /\ fs'[Image(job, x)] = was[x]
      BY <2>4, <2>5
    <3> HIDE DEF Q
    <3>2. Placed(t, job, was, fs', Q)
      BY <2>2, <3>1, PlacedMore
    <3> QED
      BY <3>2 DEF Q
  <2>7. ASSUME NEW x \in DOMAIN fs', Within(t, job, was, x)
        PROVE  x \in DOMAIN fs
    <3> SUFFICES ASSUME x \notin DOMAIN fs
                 PROVE  FALSE
      OBVIOUS
    <3>1. x \in Seq(Name) /\ IsPrefix(x, to)
      BY <1>11, <2>1, MkDirsOnWay
    <3> QED
      BY <1>11, <2>7, <3>1, WithinUp
  <2>8. Gone(t, n, fs')
    BY <1>5, <1>8, <1>13, <2>3, <2>7 DEF Gone, Keeps, job, was
  <2> QED
    BY <1>5, <1>13, <1>16, <2>6, <2>8, Settled DEF n, g, job, was
<1> QED
  BY <1>18, <1>19

-----------------------------------------------------------------------------
(***************************************************************************)
(* The steps of the removal with which the server ends a cut.              *)
(***************************************************************************)
LEMMA RmReturnOwn ==
  ASSUME Inv, NEW t \in Threads, NEW ret,
         Set(t, RmReturn(t, ret)) \/ Set(t, RmReturn(t, ret) ++ Odd)
  PROVE  /\ Keeps(thread'[t], thread[t])
         /\ ret = 1 => /\ thread'[t].stack = thread[t].stack
                       /\ thread'[t].pc = IF thread[t].stack = <<>> THEN "done" ELSE "rmtest"
         /\ ret # 1 => thread'[t].pc = "done" /\ thread'[t].stack = <<>>
         /\ Set(t, RmReturn(t, ret) ++ Odd) => ~thread'[t].plain
<1> DEFINE g == thread[t]
           n == thread'[t]
           r == RmReturn(t, ret)
<1>1. /\ DOMAIN r \subseteq Steps /\ "pc" \in DOMAIN r
      /\ r["pc"] = IF g.stack = <<>> \/ ret # 1 THEN "done" ELSE "rmtest"
      /\ "stack" \in DOMAIN r <=> g.stack # <<>> /\ ret # 1
      /\ "stack" \in DOMAIN r => r["stack"] = <<>>
  <2>1. CASE g.stack = <<>>
    <3>1. r = [pc |-> "done", ret |-> ret]
      BY <2>1 DEF RmReturn
    <3> HIDE DEF r
    <3>2. DOMAIN r = {"pc", "ret"} /\ r["pc"] = "done"
      BY <3>1
    <3> QED
      BY <2>1, <3>2 DEF Steps
  <2>2. CASE g.stack # <<>> /\ ret = 1
    <3>1. r = [pc |-> "rmtest"]
      BY <2>2 DEF RmReturn
    <3> HIDE DEF r
    <3>2. DOMAIN r = {"pc"} /\ r["pc"] = "rmtest"
      BY <3>1
    <3> QED
      BY <2>2, <3>2 DEF Steps
  <2>3. CASE g.stack # <<>> /\ ret # 1
    <3>1. r = [pc |-> "done", stack |-> <<>>, ret |-> ret]
      BY <2>3 DEF RmReturn
    <3> HIDE DEF r
    <3>2. DOMAIN r = {"pc", "stack", "ret"} /\ r["pc"] = "done" /\ r["stack"] = <<>>
      BY <3>1
    <3> QED
      BY <2>3, <3>2 DEF Steps
  <2> QED
    BY <2>1, <2>2, <2>3
<1>2. Set(t, r) \/ Set(t, r ++ Odd)
  OBVIOUS
<1> HIDE DEF r
<1>3. /\ Keeps(n, g) /\ \A f \in Steps : n[f] = IF f \in DOMAIN r THEN r[f] ELSE g[f]
      /\ Set(t, r ++ Odd) => ~n.plain
  <2> HIDE DEF n, g
  <2> QED
    BY <1>1, <1>2, OwnSet DEF n, g
<1>4. {"pc", "stack"} \subseteq Steps
  BY DEF Steps
<1>5. n.pc = r["pc"] /\ n.stack = IF "stack" \in DOMAIN r THEN r["stack"] ELSE g.stack
  BY <1>1, <1>3, <1>4
<1> QED
  BY <1>1, <1>3, <1>5 DEF r

(* Only the server removes what it has moved, and it pastes nothing meanwhile. *)
LEMMA AtRemoval ==
  ASSUME Inv, NEW t \in Threads, Pastes(t), Good(t, thread'[t]), Keeps(thread'[t], thread[t]),
         thread[t].pc \in Removing
  PROVE  /\ Good(t, thread[t]) /\ thread[t].job.kind = "move" /\ t \in Http
         /\ thread[t].pc \notin Pasting
         /\ thread[t].removing /\ thread[t].item.isDir
<1>1. thread[t].pc # "done" /\ thread[t].pc \notin Pasting
  BY DEF Removing, Pasting
<1>2. Good(t, thread[t])
  BY <1>1, GoodBefore
<1>3. Place(t, thread[t]) /\ Track(t, thread[t]) /\ thread[t].job.kind \in {"move", "copy"}
  BY <1>2, AtWork DEF ThreadOK, Good
<1> QED
  BY <1>1, <1>2, <1>3 DEF Place, Track, Threads

LEMMA PasteBrokenOff ==
  ASSUME Inv, NEW t \in Threads, Pastes(t), Good(t, thread'[t]), Keeps(thread'[t], thread[t]),
         thread[t].pc \in Removing, fs' = fs,
         thread'[t].pc = "done", thread'[t].stack = <<>>, ~thread'[t].plain
  PROVE  Pastes(t)'
<1> DEFINE g == thread[t]
           n == thread'[t]
<1>1. Good(t, g) /\ Track(t, g)
  BY AtRemoval, AtWork
<1>2. n.pc \notin InCopy
  BY DEF InCopy
<1> HIDE DEF n, g
<1>3. Track(t, n) /\ ToPaste(t, n) = ToPaste(t, g)
  BY <1>1, RemovalGoes DEF n, g
<1> QED
  BY <1>1, <1>2, <1>3, SettledSame DEF n, g

(* The removal is stopped, or gives up. *)
LEMMA PasteStops ==
  ASSUME Inv, NEW t \in Threads, Pastes(t), Good(t, thread'[t]),
         thread[t].pc \in Removing, fs' = fs, NEW ret,
         Set(t, [pc |-> "done", stack |-> <<>>, ret |-> ret] ++ Odd)
  PROVE  Pastes(t)'
<1> DEFINE g == thread[t]
           n == thread'[t]
           r == [pc |-> "done", stack |-> <<>>, ret |-> ret]
<1>1. DOMAIN r = {"pc", "stack", "ret"} /\ r["pc"] = "done" /\ r["stack"] = <<>>
  OBVIOUS
<1>2. Set(t, r ++ Odd)
  OBVIOUS
<1> HIDE DEF r
<1>3. DOMAIN r \subseteq Steps /\ {"pc", "stack"} \subseteq Steps
  BY <1>1 DEF Steps
<1>4. /\ Keeps(n, g) /\ \A f \in Steps : n[f] = IF f \in DOMAIN r THEN r[f] ELSE g[f]
      /\ ~n.plain
  <2> HIDE DEF n, g
  <2> QED
    BY <1>2, <1>3, OwnSet DEF n, g
<1> QED
  BY <1>1, <1>3, <1>4, PasteBrokenOff

LEMMA PasteRmNext ==
  ASSUME Inv, NEW t \in Threads, Pastes(t), Good(t, thread'[t]), RmNext(t)
  PROVE  Pastes(t)'
<1> DEFINE g == thread[t]
           n == thread'[t]
           left(e) == Front(g.stack) \o <<[Last(g.stack) EXCEPT !.todo = @ \ {e}]>>
<1>1. g.pc = "rmloop" /\ g.pc \in Removing /\ fs' = fs
  BY DEF RmNext, At, Removing
<1>2. PICK e \in Last(g.stack).todo : Set(t, [pc |-> "rm", from |-> e.path, stack |-> left(e)])
  BY DEF RmNext, Top
<1> DEFINE s == left(e)
           r == [pc |-> "rm", from |-> e.path, stack |-> s]
<1> HIDE DEF s
<1>3. DOMAIN r = {"pc", "from", "stack"} /\ r["pc"] = "rm" /\ r["from"] = e.path
      /\ r["stack"] = s
  OBVIOUS
<1>4. Set(t, r)
  BY <1>2 DEF s
<1> HIDE DEF r
<1>5. DOMAIN r \subseteq Steps /\ {"pc", "from", "stack"} \subseteq Steps
  BY <1>3 DEF Steps
<1>6. Keeps(n, g) /\ \A f \in Steps : n[f] = IF f \in DOMAIN r THEN r[f] ELSE g[f]
  <2> HIDE DEF n, g
  <2> QED
    BY <1>4, <1>5, OwnSet DEF n, g
<1>7. n.pc = "rm" /\ n.from = e.path /\ n.stack = s
  BY <1>3, <1>5, <1>6
<1>8. Good(t, g) /\ ThreadOK(t, g) /\ Track(t, g)
  BY <1>1, <1>6, AtRemoval, AtWork
<1>9. g.stack # <<>>
  BY <1>1, <1>8 DEF ThreadOK, Walk, InDirectory
<1>10. /\ Track(t, n) /\ ToPaste(t, n) = ToPaste(t, g)
       /\ \A x : Around(t, g, x) => Around(t, n, x)
  <2>1. n.stack = Front(g.stack) \o <<[Last(g.stack) EXCEPT !.todo = @ \ {e}]>>
    BY <1>7 DEF s
  <2> HIDE DEF n, g
  <2> QED
    BY <1>1, <1>2, <1>6, <1>7, <1>8, <1>9, <2>1, Taken
<1>11. n.pc \notin InCopy
  BY <1>7 DEF InCopy
<1> HIDE DEF n, g
<1> QED
  BY <1>1, <1>6, <1>8, <1>10, <1>11, SettledSame DEF n, g

LEMMA PasteRmTest ==
  ASSUME Inv, NEW t \in Threads, Pastes(t), Good(t, thread'[t]), RmTest(t)
  PROVE  Pastes(t)'
<1> DEFINE g == thread[t]
           n == thread'[t]
           r == [pc |-> "rmloop"]
<1>1. /\ g.pc = "rmtest" /\ g.pc \in Removing /\ fs' = fs
      /\ Set(t, [pc |-> "done", stack |-> <<>>, ret |-> 0] ++ Odd) \/ Set(t, r)
  BY DEF RmTest, At, Removing
<1>2. CASE Set(t, [pc |-> "done", stack |-> <<>>, ret |-> 0] ++ Odd)
  BY <1>1, <1>2, PasteStops
<1>3. CASE Set(t, r)
  <2>1. DOMAIN r = {"pc"} /\ r["pc"] = "rmloop"
    OBVIOUS
  <2>2. Set(t, r)
    BY <1>3
  <2> HIDE DEF r
  <2>3. DOMAIN r \subseteq Steps /\ {"pc", "stack"} \subseteq Steps
    BY <2>1 DEF Steps
  <2>4. Keeps(n, g) /\ \A f \in Steps : n[f] = IF f \in DOMAIN r THEN r[f] ELSE g[f]
    <3> HIDE DEF n, g
    <3> QED
      BY <2>2, <2>3, OwnSet DEF n, g
  <2>5. n.pc = "rmloop" /\ n.stack = g.stack
    BY <2>1, <2>3, <2>4
  <2>6. Good(t, g) /\ Track(t, g)
    BY <1>1, <2>4, AtRemoval, AtWork
  <2>7. n.pc \notin InCopy
    BY <2>5 DEF InCopy
  <2> HIDE DEF n, g
  <2>8. /\ Track(t, n) /\ ToPaste(t, n) = ToPaste(t, g)
        /\ \A x : Around(t, g, x) => Around(t, n, x)
    BY <1>1, <2>4, <2>5, <2>6, RemovalGoes
  <2> QED
    BY <1>1, <2>4, <2>6, <2>7, <2>8, SettledSame DEF n, g
<1> HIDE DEF r
<1> QED
  BY <1>1, <1>2, <1>3

(* Something that was moved is taken away. *)
LEMMA SettledLess ==
  ASSUME Inv, NEW t \in Threads, Pastes(t), Good(t, thread[t]), thread[t].job.kind = "move",
         NEW x, Within(t, thread[t].job, thread[t].was, x), x \notin ToPaste(t, thread[t]),
         fs' = Unlinked(fs, {x}), Keeps(thread'[t], thread[t]), Track(t, thread'[t]),
         ToPaste(t, thread'[t]) = ToPaste(t, thread[t]),
         \A y \in DOMAIN fs : y # x /\ Around(t, thread[t], y) => Around(t, thread'[t], y),
         thread'[t].pc \notin InCopy
  PROVE  Pastes(t)'
<1> DEFINE g == thread[t]
           n == thread'[t]
           job == g.job
           was == g.was
           P == ToPaste(t, g)
<1>1. Placed(t, job, was, fs, P) /\ Gone(t, g, fs) /\ Suits(t, job, was)
  BY AtWork DEF Good
<1>2. job.kind = "move" /\ Within(t, job, was, x) /\ x \notin P
  OBVIOUS
<1> HIDE DEF n, g, job, was, P
<1>3. Placed(t, job, was, Unlinked(fs, {x}), P)
  BY <1>1, <1>2, PlacedLess
<1>4. Placed(t, g.job, g.was, fs', ToPaste(t, n))
  BY <1>3 DEF job, was, P, n, g
<1>5. \A y \in DOMAIN fs' : y \in DOMAIN fs /\ y # x
  BY DEF Unlinked
<1>6. Gone(t, n, fs')
  BY <1>1, <1>5 DEF Gone, Keeps, n, g, job, was
<1> QED
  BY <1>4, <1>6, Settled DEF n, g

LEMMA PasteRmDone ==
  ASSUME Inv, NEW t \in Threads, Pastes(t), Good(t, thread'[t]), RmDone(t)
  PROVE  Pastes(t)'
<1> DEFINE g == thread[t]
           n == thread'[t]
           src == Last(g.stack).src
           r == RmLeave(t)
<1>1. /\ g.pc = "rmloop" /\ g.pc \in Removing /\ g.pc \notin AtPath /\ Last(g.stack).todo = {}
      /\ \/ fs' = fs /\ \E ret \in {0, -1} :
              Set(t, [pc |-> "done", stack |-> <<>>, ret |-> ret] ++ Odd)
         \/ fs' = Unlinked(fs, {src}) /\ Set(t, r)
  BY DEF RmDone, At, AtPath, Pasting, Removing, Top
<1>2. CASE fs' = fs /\ \E ret \in {0, -1} :
              Set(t, [pc |-> "done", stack |-> <<>>, ret |-> ret] ++ Odd)
  BY <1>1, <1>2, PasteStops
<1>3. CASE fs' = Unlinked(fs, {src}) /\ Set(t, r)
  <2>1. r = IF Front(thread[t].stack) = <<>> THEN [pc |-> "done", stack |-> <<>>, ret |-> 1]
            ELSE [pc |-> "rmtest", stack |-> Front(thread[t].stack)]
    BY DEF RmLeave
  <2>2. Set(t, r)
    BY <1>3
  <2> HIDE DEF r
  <2>3. /\ Keeps(n, g) /\ n.stack = Front(g.stack)
        /\ n.pc = IF Front(g.stack) = <<>> THEN "done" ELSE "rmtest"
    BY <2>1, <2>2, LeaveOwn
  <2>4. Good(t, g) /\ g.job.kind = "move" /\ ThreadOK(t, g) /\ Track(t, g)
    BY <1>1, <2>3, AtRemoval, AtWork
  <2>5. g.stack # <<>>
    BY <1>1, <2>4 DEF ThreadOK, Walk, InDirectory
  <2>6. /\ Track(t, n) /\ ToPaste(t, n) = ToPaste(t, g)
        /\ \A x : Around(t, g, x) /\ x # src => Around(t, n, x)
    <3> HIDE DEF n, g
    <3> QED
      BY <1>1, <2>3, <2>4, <2>5, WalkLeft
  <2>7. Within(t, g.job, g.was, src) /\ src \notin ToPaste(t, g)
    <3> HIDE DEF g
    <3> QED
      BY <1>1, <2>4, <2>5, TopAtHand
  <2>8. n.pc \notin InCopy
    BY <2>3 DEF InCopy
  <2> HIDE DEF n, g, src
  <2> QED
    BY <1>3, <2>3, <2>4, <2>6, <2>7, <2>8, SettledLess DEF n, g
<1> HIDE DEF r
<1> QED
  BY <1>1, <1>2, <1>3

LEMMA PasteRmEnter ==
  ASSUME Inv, NEW t \in Threads, Pastes(t), Good(t, thread'[t]), RmEnter(t)
  PROVE  Pastes(t)'
<1> DEFINE g == thread[t]
           n == thread'[t]
           from == g.from
           todo == Entries(from)
           l == [src |-> from, dest |-> <<>>, todo |-> todo]
           s == Append(g.stack, l)
           r == [pc |-> "rmloop", stack |-> s]
<1>1. /\ g.pc = "rm" /\ g.pc \in Removing /\ g.pc \in AtPath
      /\ \/ fs' = fs /\ Set(t, RmReturn(t, 1) ++ Odd)
         \/ fs' = fs /\ IsDir(from) /\ Set(t, r)
         \/ fs' = Unlinked(fs, {from}) /\ FileExists(from) /\ Set(t, RmReturn(t, 1))
         \/ fs' = fs /\ Set(t, RmReturn(t, -1) ++ Odd)
  BY DEF RmEnter, At, AtPath, Removing
<1> DEFINE Start == /\ Good(t, g) /\ ThreadOK(t, g) /\ Track(t, g) /\ Tree(fs)
                    /\ g.job.kind = "move" /\ g.removing /\ g.item.isDir /\ g.pc \notin Pasting
                    /\ Placed(t, g.job, g.was, fs, ToPaste(t, g)) /\ Gone(t, g, fs)
                    /\ from \in Path /\ from \in Seq(Name) /\ Within(t, g.job, g.was, from)
                    /\ from \notin ToPaste(t, g)
<1>2. ASSUME Keeps(n, g)
      PROVE  Start
  <2>1. /\ Good(t, g) /\ g.job.kind = "move" /\ g.removing /\ g.item.isDir /\ g.pc \notin Pasting
    <3> HIDE DEF n, g
    <3> QED
      BY <1>1, <1>2, AtRemoval DEF n, g
  <2>2. /\ ThreadOK(t, g) /\ Track(t, g) /\ Tree(fs)
        /\ Placed(t, g.job, g.was, fs, ToPaste(t, g)) /\ Gone(t, g, fs)
    BY <2>1, AtWork
  <2>3. from \in Path /\ from \in Seq(Name) /\ Within(t, g.job, g.was, from) /\ ~Waiting(g, from)
    <3> HIDE DEF g
    <3> QED
      BY <1>1, <2>1, <2>2, PathAtHand, PrefixSelf
  <2> QED
    BY <2>1, <2>2, <2>3 DEF ToPaste
<1>3. CASE fs' = fs /\ Set(t, RmReturn(t, 1) ++ Odd)
  <2>1. /\ Keeps(n, g) /\ ~n.plain /\ n.stack = g.stack
        /\ n.pc = IF g.stack = <<>> THEN "done" ELSE "rmtest"
    BY <1>3, RmReturnOwn
  <2>2. Start
    BY <1>2, <2>1
  <2>3. n.pc \notin InCopy
    BY <2>1 DEF InCopy
  <2> HIDE DEF n, g
  <2>4. Track(t, n) /\ ToPaste(t, n) = ToPaste(t, g)
    BY <1>1, <2>1, <2>2, Returned
  <2> QED
    BY <1>3, <2>1, <2>2, <2>3, <2>4, SettledSame DEF n, g
<1>4. CASE fs' = fs /\ IsDir(from) /\ Set(t, r)
  <2> HIDE DEF s
  <2>1. DOMAIN r = {"pc", "stack"} /\ r["pc"] = "rmloop" /\ r["stack"] = s
    OBVIOUS
  <2>2. Set(t, r)
    BY <1>4
  <2> HIDE DEF r
  <2>3. DOMAIN r \subseteq Steps /\ {"pc", "stack"} \subseteq Steps
    BY <2>1 DEF Steps
  <2>4. Keeps(n, g) /\ \A f \in Steps : n[f] = IF f \in DOMAIN r THEN r[f] ELSE g[f]
    <3> HIDE DEF n, g
    <3> QED
      BY <2>2, <2>3, OwnSet DEF n, g
  <2>5. n.pc = "rmloop" /\ n.stack = s
    BY <2>1, <2>3, <2>4
  <2>6. Start
    BY <1>2, <2>4
  <2>7. from \in DOMAIN fs /\ fs[from] = Dir
    BY <1>4, <2>6, FileIs DEF IsDir, Exists, Tree
  <2>8. from \in DOMAIN g.was => g.was[from] = Dir
    BY <2>6, <2>7 DEF Placed
  <2>9. l \in Levels(g.job) /\ LevelFits(g, l) /\ \A e, d \in todo : e.path = d.path => e = d
    <3>1. todo \in SUBSET Entries(from) /\ <<>> \in Seq(Name)
      OBVIOUS
    <3> HIDE DEF todo, g
    <3> QED
      BY <1>1, <2>6, <2>8, <3>1, ListedFits
  <2>10. /\ Track(t, n)
         /\ \A x : /\ Around(t, g, x)
                   /\ IsPrefix(from, x) => x = from \/ \E e \in todo : IsPrefix(e.path, x)
                   => Around(t, n, x)
    <3>1. l.src = from /\ l.todo = todo /\ n.stack = Append(g.stack, l)
      BY <2>5 DEF s
    <3> HIDE DEF n, g, l, todo
    <3>2. /\ Track(t, n)
          /\ \A x : /\ Around(t, g, x)
                    /\ IsPrefix(from, x) => x = from \/ \E e \in l.todo : IsPrefix(e.path, x)
                    => Around(t, n, x)
      BY <1>1, <2>4, <2>5, <2>6, <2>9, <3>1, Entered
    <3> QED
      BY <3>1, <3>2
  <2>11. n.pc \notin InCopy /\ n.pc \notin Pasting
    BY <2>5 DEF InCopy, Pasting
  <2>12. ASSUME NEW x \in DOMAIN fs, IsPrefix(from, x), x # from
         PROVE  \E e \in todo : IsPrefix(e.path, x)
    <3>1. PICK c \in Children(from) : IsPrefix(c, x)
      BY <2>6, <2>12, ChildAbove
    <3>2. Entry(c) \in todo /\ Entry(c).path = c
      BY DEF Entries, Entry
    <3> QED
      BY <3>1, <3>2
  <2> HIDE DEF n, g, todo
  <2>13. ToPaste(t, n) = ToPaste(t, g)
    BY <2>4, <2>6, <2>11, KeepsFits DEF ToPaste
  <2>14. Gone(t, n, fs')
    BY <1>4, <2>4, <2>6, <2>10, <2>12 DEF Gone, Keeps
  <2>15. Placed(t, g.job, g.was, fs', ToPaste(t, n))
    BY <1>4, <2>6, <2>13
  <2> QED
    BY <2>4, <2>10, <2>11, <2>14, <2>15, Settled DEF n, g
<1>5. CASE fs' = Unlinked(fs, {from}) /\ FileExists(from) /\ Set(t, RmReturn(t, 1))
  <2>1. /\ Keeps(n, g) /\ n.stack = g.stack
        /\ n.pc = IF g.stack = <<>> THEN "done" ELSE "rmtest"
    BY <1>5, RmReturnOwn
  <2>2. Start
    BY <1>2, <2>1
  <2>3. n.pc \notin InCopy
    BY <2>1 DEF InCopy
  <2>4. from \in DOMAIN fs /\ fs[from] # Dir
    BY <1>5 DEF FileExists, Exists, Dir
  <2>5. \A x \in DOMAIN fs : IsPrefix(from, x) => x = from
    BY <2>2, <2>4, FileAlone
  <2> HIDE DEF n, g, from
  <2>6. /\ Track(t, n) /\ ToPaste(t, n) = ToPaste(t, g)
        /\ \A x : Around(t, g, x) /\ ~IsPrefix(from, x) => Around(t, n, x)
    BY <1>1, <2>1, <2>2, Returned DEF from
  <2>7. \A x \in DOMAIN fs : x # from /\ Around(t, g, x) => Around(t, n, x)
    BY <2>5, <2>6
  <2> QED
    BY <1>5, <2>1, <2>2, <2>3, <2>6, <2>7, SettledLess DEF n, g
<1>6. CASE fs' = fs /\ Set(t, RmReturn(t, -1) ++ Odd)
  <2>1. Keeps(n, g) /\ ~n.plain /\ n.stack = <<>> /\ n.pc = "done"
    BY <1>6, RmReturnOwn
  <2> QED
    BY <1>1, <1>6, <2>1, PasteBrokenOff
<1> HIDE DEF r, Start
<1> QED
  BY <1>1, <1>3, <1>4, <1>5, <1>6

-----------------------------------------------------------------------------
(***************************************************************************)
(* The job: its items one after the other.                                 *)
(***************************************************************************)
LEMMA OwnFields ==
  ASSUME Inv, NEW t \in Threads, NEW r, DOMAIN r \subseteq Fields, Set(t, r)
  PROVE  \A f \in Fields : thread'[t][f] = IF f \in DOMAIN r THEN r[f] ELSE thread[t][f]
<1> DEFINE g == thread[t]
<1>1. g = [f \in Fields |-> g[f]]
  BY Here DEF Inv, Shape
<1>2. thread'[t] = r ++ g
  BY DEF Set
<1> HIDE DEF g
<1>3. \A f \in Fields : (r ++ g)[f] = IF f \in DOMAIN r THEN r[f] ELSE g[f]
  BY <1>1, Merged
<1> QED
  BY <1>2, <1>3 DEF g

(* Between the items: the devices as they are, the same left to do. *)
LEMMA SettledItems ==
  ASSUME Inv, NEW t \in Threads, Pastes(t), Good(t, thread[t]), fs' = fs,
         thread'[t].job = thread[t].job, thread'[t].was = thread[t].was,
         thread'[t].plain => thread[t].plain, Track(t, thread'[t]),
         ToPaste(t, thread'[t]) = ToPaste(t, thread[t]),
         thread[t].job.kind = "move" =>
           \A x \in DOMAIN fs : Within(t, thread[t].job, thread[t].was, x) /\ Around(t, thread[t], x)
             => Around(t, thread'[t], x),
         thread'[t].pc \notin InCopy
  PROVE  Pastes(t)'
<1> DEFINE g == thread[t]
           n == thread'[t]
<1>1. Placed(t, g.job, g.was, fs, ToPaste(t, g)) /\ Gone(t, g, fs)
  BY AtWork
<1>2. CopyIs(n, fs', bytes_transfered', bytes_to_download')
  BY DEF CopyIs, InCopy
<1> HIDE DEF g, n
<1>3. Gone(t, n, fs')
  BY <1>1 DEF Gone, g, n
<1>4. Placed(t, n.job, n.was, fs', ToPaste(t, n))
  BY <1>1 DEF g, n
<1> QED
  BY <1>2, <1>3, <1>4 DEF Pastes, PasteOK, n

LEMMA NothingOpen ==
  /\ Nested(<<>>) /\ \A x : ~Spotted(<<>>, x)
  /\ \A p : Clear(<<>>, p)
BY DEF Nested, Spotted, Clear

LEMMA PasteItemDone ==
  ASSUME Inv, NEW t \in Threads, Pastes(t), Good(t, thread'[t]), ItemDone(t)
  PROVE  Pastes(t)'
<1> DEFINE g == thread[t]
           n == thread'[t]
           again == /\ t \in Http /\ g.job.kind = "move" /\ g.item.isDir /\ g.ret # 0
                    /\ ~g.removing
           fails == g.failed \/ (g.ret = 0 /\ ~g.removing)
           rm == [pc |-> "rm", from |-> g.item.path, removing |-> TRUE]
           next == [pc |-> "items", failed |-> fails]
<1>1. /\ g.pc = "done" /\ fs' = fs
      /\ again => Set(t, rm)
      /\ ~again => Set(t, next)
  BY DEF ItemDone, At, Kind
<1>2. g.pc \notin AtPath /\ g.pc \notin Pasting /\ g.pc \notin Removing
  BY <1>1 DEF AtPath, Pasting, Removing
<1>3. Fields = {"pc", "job", "items", "item", "stack", "from", "to", "data", "block", "ret",
                "removing", "failed", "was", "alone", "plain"}
  BY DEF Fields
<1>4. ASSUME Good(t, g)
      PROVE  /\ ThreadOK(t, g) /\ Track(t, g) /\ g.stack = <<>>
             /\ g.item.path \in Chosen(t, g.job, g.was) \ g.items /\ g.item.path \in Seq(Name)
             /\ \A x : ~Beneath(g, x)
             /\ \A x : Around(t, g, x) <=> Waiting(g, x) \/ Covers(t, g, x)
  <2>1. /\ ThreadOK(t, g) /\ Track(t, g) /\ g.job.items \subseteq Path
    BY <1>4, AtWork DEF ThreadOK, Errand
  <2>2. g.stack = <<>> /\ g.item.path \in Chosen(t, g.job, g.was) \ g.items
    BY <1>1, <2>1 DEF Track
  <2>3. g.item.path \in Seq(Name)
    BY <2>1, <2>2 DEF Chosen, Path
  <2>4. \A x : ~Beneath(g, x)
    BY <1>2, <2>2, NothingOpen DEF Beneath
  <2>5. \A x : Around(t, g, x) <=> Waiting(g, x) \/ Covers(t, g, x)
    BY <2>2, <2>4 DEF Around
  <2> QED
    BY <2>1, <2>2, <2>3, <2>4, <2>5
<1>5. CASE again
  <2>1. DOMAIN rm = {"pc", "from", "removing"} /\ rm["pc"] = "rm" /\ rm["from"] = g.item.path
        /\ rm["removing"] = TRUE
    OBVIOUS
  <2>2. Set(t, rm)
    BY <1>1, <1>5
  <2> HIDE DEF rm
  <2>3. \A f \in Fields : n[f] = IF f \in DOMAIN rm THEN rm[f] ELSE g[f]
    BY <1>3, <2>1, <2>2, OwnFields
  <2>4. /\ n.pc = "rm" /\ n.from = g.item.path /\ n.removing /\ n.stack = g.stack
        /\ n.job = g.job /\ n.was = g.was /\ n.item = g.item /\ n.items = g.items
        /\ n.alone = g.alone /\ n.plain = g.plain /\ n.failed = g.failed
    BY <1>3, <2>1, <2>3
  <2>5. Good(t, g)
    BY <1>5, <2>4 DEF Good
  <2>6. n.pc \in AtPath /\ n.pc \notin Pasting /\ n.pc \notin AtFile /\ n.pc \notin InCopy
    BY <2>4 DEF AtPath, Pasting, AtFile, InCopy
  <2>7. Track(t, n)
    BY <1>4, <1>5, <2>4, <2>5, <2>6, NothingOpen, PrefixSelf DEF Track
  <2>8. ToPaste(t, n) = ToPaste(t, g)
    BY <1>2, <2>4, <2>6 DEF ToPaste, Waiting
  <2>9. \A x : Around(t, g, x) => Around(t, n, x)
    BY <1>4, <2>4, <2>5, <2>6 DEF Around, Waiting, Covers, Beneath
  <2> HIDE DEF n, g
  <2> QED
    BY <1>1, <2>4, <2>5, <2>6, <2>7, <2>8, <2>9, SettledItems DEF n, g
<1>6. CASE ~again
  <2> HIDE DEF fails
  <2>1. DOMAIN next = {"pc", "failed"} /\ next["pc"] = "items" /\ next["failed"] = fails
    OBVIOUS
  <2>2. Set(t, next)
    BY <1>1, <1>6
  <2> HIDE DEF next
  <2>3. \A f \in Fields : n[f] = IF f \in DOMAIN next THEN next[f] ELSE g[f]
    BY <1>3, <2>1, <2>2, OwnFields
  <2>4. /\ n.pc = "items" /\ n.removing = g.removing /\ n.stack = g.stack
        /\ n.job = g.job /\ n.was = g.was /\ n.item = g.item /\ n.items = g.items
        /\ n.alone = g.alone /\ n.plain = g.plain /\ n.failed = fails
    BY <1>3, <2>1, <2>3
  <2>5. Good(t, g) /\ (t \in Worker \/ ~fails)
    BY <2>4 DEF Good, fails
  <2>6. n.pc \notin AtPath /\ n.pc \notin Pasting /\ n.pc \notin AtFile /\ n.pc \notin InCopy
        /\ n.pc \notin Removing
    BY <2>4 DEF AtPath, Pasting, AtFile, InCopy, Removing
  <2>7. Track(t, n)
    BY <1>4, <2>4, <2>5, <2>6, NothingOpen DEF Track
  <2>8. ToPaste(t, n) = ToPaste(t, g)
    BY <1>2, <2>4, <2>6 DEF ToPaste, Waiting
  <2>9. ASSUME g.job.kind = "move", NEW x, Around(t, g, x)
        PROVE  Around(t, n, x)
    <3>1. ~Covers(t, g, x)
      BY <1>6, <2>5, <2>9, FileOpsAssumption DEF Covers, fails, FileOpsAssumption
    <3> QED
      BY <1>4, <2>4, <2>5, <2>9, <3>1 DEF Around, Waiting
  <2> HIDE DEF n, g
  <2> QED
    BY <1>1, <2>4, <2>5, <2>6, <2>7, <2>8, <2>9, SettledItems DEF n, g
<1> QED
  BY <1>5, <1>6

LEMMA PasteFinish ==
  ASSUME Inv, NEW t \in Threads, Pastes(t), Good(t, thread'[t]), Finish(t)
  PROVE  Pastes(t)'
<1> DEFINE g == thread[t]
           n == thread'[t]
           plain == g.plain /\ g.items = {}
           r == [pc |-> "idle", item |-> NoItem, from |-> <<>>, to |-> <<>>, block |-> 0,
                 plain |-> plain]
<1>1. /\ g.pc = "items" /\ fs' = fs /\ Set(t, r)
      /\ g.items = {} \/ (Kind(t) # "remove" /\ t \in Worker)
  BY DEF Finish, At, Stopped
<1>2. Fields = {"pc", "job", "items", "item", "stack", "from", "to", "data", "block", "ret",
                "removing", "failed", "was", "alone", "plain"}
  BY DEF Fields
<1> HIDE DEF plain
<1>3. DOMAIN r = {"pc", "item", "from", "to", "block", "plain"} /\ r["pc"] = "idle"
      /\ r["plain"] = plain
  OBVIOUS
<1>4. Set(t, r)
  BY <1>1
<1> HIDE DEF r
<1>5. \A f \in Fields : n[f] = IF f \in DOMAIN r THEN r[f] ELSE g[f]
  BY <1>2, <1>3, <1>4, OwnFields
<1>6. /\ n.pc = "idle" /\ n.plain = plain /\ n.stack = g.stack /\ n.items = g.items
      /\ n.job = g.job /\ n.was = g.was /\ n.alone = g.alone /\ n.failed = g.failed
  BY <1>2, <1>3, <1>5
<1>7. Good(t, g) /\ g.items = {}
  BY <1>1, <1>6 DEF Good, plain
<1>8. Track(t, g)
  BY <1>7, AtWork
<1>9. /\ g.pc \notin AtPath /\ g.pc \notin Pasting
      /\ n.pc \notin AtPath /\ n.pc \notin Pasting /\ n.pc \notin AtFile /\ n.pc \notin InCopy
      /\ n.pc \notin Removing
  BY <1>1, <1>6 DEF AtPath, Pasting, AtFile, InCopy, Removing
<1>10. g.stack = <<>>
  BY <1>1, <1>8 DEF Track
<1>11. Track(t, n)
  BY <1>6, <1>7, <1>9, <1>10, NothingOpen DEF Track
<1>12. ToPaste(t, n) = ToPaste(t, g)
  BY <1>6, <1>9 DEF ToPaste, Waiting
<1>13. \A x : ~Around(t, g, x)
  BY <1>1, <1>7, <1>9, <1>10, NothingOpen DEF Around, Waiting, Beneath, Covers
<1>14. n.plain => g.plain
  BY <1>6 DEF plain
<1> HIDE DEF n, g
<1> QED
  BY <1>1, <1>6, <1>7, <1>9, <1>11, <1>12, <1>13, <1>14, SettledItems DEF n, g

LEMMA ItemIs ==
  ASSUME Inv, NEW t \in Threads, thread[t].job.kind \in {"move", "copy"},
         NEW p \in thread[t].job.items
  PROVE  /\ Item(t, p).path = p
         /\ t \in Worker => /\ p \in DOMAIN thread[t].was
                            /\ Item(t, p).isDir <=> thread[t].was[p] = Dir
         /\ t \notin Worker => (Item(t, p).isDir <=> ~FileExists(p))
         /\ Skipped(t, Item(t, p)) <=> p \notin Chosen(t, thread[t].job, thread[t].was)
<1> DEFINE g == thread[t]
<1>1. ThreadOK(t, g)
  BY Here DEF Inv
<1>2. Item(t, p).path = p
  BY DEF Item
<1>3. t \in Worker \/ t \in Http
  BY DEF Threads
<1>4. t \in Worker => t \notin Http
  BY FileOpsAssumption DEF FileOpsAssumption
<1>5. t \in Worker => p \in DOMAIN g.was /\ (Item(t, p).isDir <=> g.was[p] = Dir)
  <2> SUFFICES ASSUME t \in Worker
               PROVE  p \in DOMAIN g.was /\ (Item(t, p).isDir <=> g.was[p] = Dir)
    OBVIOUS
  <2>1. p \in DOMAIN g.was /\ Tree(g.was)
    BY <1>1 DEF ThreadOK, Errand
  <2>2. g.was[p].of = "dir" <=> g.was[p] = Dir
    BY <2>1, FileIs DEF Tree
  <2>3. Item(t, p).isDir = (g.was[p].of = "dir")
    BY <1>4 DEF Item
  <2> HIDE DEF g
  <2> QED
    BY <2>1, <2>2, <2>3
<1>6. t \notin Worker => (Item(t, p).isDir <=> ~FileExists(p))
  BY <1>3 DEF Item
<1>7. Skipped(t, Item(t, p)) <=> p \notin Chosen(t, g.job, g.was)
  <2>1. Kind(t) # "remove"
    BY DEF Kind
  <2> HIDE DEF Item
  <2> QED
    BY <1>2, <1>5, <2>1 DEF Skipped, Chosen
<1> QED
  BY <1>2, <1>5, <1>6, <1>7

(* An item that has its turn is there as it was, or not at all. *)
LEMMA ItemThere ==
  ASSUME Inv, NEW t \in Threads, Pastes(t), Good(t, thread[t]),
         NEW p \in thread[t].items, p \in Chosen(t, thread[t].job, thread[t].was)
  PROVE  /\ Item(t, p).isDir =>
              (p \in DOMAIN thread[t].was => thread[t].was[p] = Dir)
         /\ ~Item(t, p).isDir => p \in DOMAIN thread[t].was /\ thread[t].was[p] # Dir
<1> DEFINE g == thread[t]
           job == g.job
           was == g.was
<1>1. /\ Placed(t, job, was, fs, ToPaste(t, g)) /\ Tree(fs) /\ Suits(t, job, was)
      /\ job.kind \in {"move", "copy"}
  BY AtWork DEF Good
<1>2. p \in job.items /\ job.items \subseteq Path
  BY <1>1 DEF Chosen, Suits
<1>3. p \in Seq(Name)
  BY <1>2 DEF Path
<1>4. Within(t, job, was, p) /\ Waiting(g, p)
  BY <1>3, PrefixSelf DEF Within, Waiting
<1>5. CASE t \in Worker
  <2>1. p \in DOMAIN was /\ (Item(t, p).isDir <=> was[p] = Dir)
    BY <1>1, <1>2, <1>5, ItemIs
  <2> HIDE DEF g, was
  <2> QED
    BY <2>1 DEF was, g
<1>6. CASE t \notin Worker
  <2>1. Item(t, p).isDir <=> ~FileExists(p)
    BY <1>1, <1>2, <1>6, ItemIs
  <2>2. p \in DOMAIN was => p \in DOMAIN fs
    <3>1. p \in DOMAIN was => p \in ToPaste(t, g) /\ p \in Marked(t, job, was)
      BY <1>4 DEF ToPaste, Marked
    <3> QED
      BY <1>1, <3>1 DEF Placed
  <2>3. p \in DOMAIN fs => p \in DOMAIN was /\ fs[p] = was[p]
    BY <1>1, <1>4 DEF Placed
  <2>4. p \in DOMAIN fs => (fs[p].of = "dir" <=> fs[p] = Dir)
    BY <1>1, FileIs DEF Tree
  <2>5. FileExists(p) <=> p \in DOMAIN fs /\ fs[p].of # "dir"
    BY DEF FileExists, Exists
  <2> HIDE DEF was, g
  <2>6. Item(t, p).isDir => (p \in DOMAIN was => was[p] = Dir)
    BY <2>1, <2>2, <2>3, <2>4, <2>5
  <2>7. ~Item(t, p).isDir => p \in DOMAIN was /\ was[p] # Dir
    BY <2>1, <2>3, <2>4, <2>5
  <2> QED
    BY <2>6, <2>7 DEF was, g
<1> QED
  BY <1>5, <1>6

LEMMA PasteNextItem ==
  ASSUME Inv, NEW t \in Threads, Pastes(t), Good(t, thread'[t]), NextItem(t)
  PROVE  Pastes(t)'
<1> DEFINE g == thread[t]
           n == thread'[t]
           job == g.job
           was == g.was
           item(p) == Item(t, p)
           to(p) == Into(job.dest, p)
           pc(p) == IF Kind(t) = "remove" THEN "rm"
                    ELSE IF Skipped(t, item(p)) THEN "items"
                    ELSE IF item(p).isDir THEN "enter"
                    ELSE IF t \in Worker THEN "file" ELSE Kind(t)
           r(p) == [pc |-> pc(p), items |-> g.items \ {p}, item |-> item(p),
                    from |-> p, to |-> to(p), removing |-> FALSE]
<1>1. g.pc = "items" /\ fs' = fs
  BY DEF NextItem, At
<1>2. PICK p \in g.items : Set(t, r(p))
  BY DEF NextItem
<1> DEFINE q == r(p)
           c == pc(p)
<1>3. Set(t, q)
  BY <1>2
<1>4. /\ Kind(t) = "remove" \/ Skipped(t, item(p)) => c \in {"rm", "items"}
      /\ Kind(t) # "remove" /\ Skipped(t, item(p)) => c = "items"
      /\ Kind(t) # "remove" /\ ~Skipped(t, item(p)) /\ item(p).isDir => c = "enter"
      /\ Kind(t) # "remove" /\ ~Skipped(t, item(p)) /\ ~item(p).isDir =>
           c \in {"file", Kind(t)}
  <2> HIDE DEF item
  <2> QED
    OBVIOUS
<1> HIDE DEF pc, to, item
<1>5. /\ DOMAIN q = {"pc", "items", "item", "from", "to", "removing"} /\ q["pc"] = pc(p)
      /\ q["items"] = g.items \ {p} /\ q["item"] = item(p) /\ q["from"] = p
      /\ q["to"] = to(p) /\ q["removing"] = FALSE
  OBVIOUS
<1> HIDE DEF q
<1>6. Fields = {"pc", "job", "items", "item", "stack", "from", "to", "data", "block", "ret",
                "removing", "failed", "was", "alone", "plain"}
  BY DEF Fields
<1>7. \A f \in Fields : n[f] = IF f \in DOMAIN q THEN q[f] ELSE g[f]
  BY <1>3, <1>5, <1>6, OwnFields
<1>8. /\ n.pc = pc(p) /\ n.items = g.items \ {p} /\ n.item = item(p) /\ n.from = p
      /\ n.to = to(p) /\ n.removing = FALSE /\ n.stack = g.stack
      /\ n.job = job /\ n.was = was /\ n.alone = g.alone /\ n.plain = g.plain
      /\ n.failed = g.failed
  BY <1>5, <1>6, <1>7
<1>9. Good(t, g)
  BY <1>1, <1>8 DEF Good
<1>10. /\ ThreadOK(t, g) /\ Track(t, g) /\ Suits(t, job, was) /\ job.kind \in {"move", "copy"}
       /\ Tree(fs)
  BY <1>9, AtWork DEF Good
<1>11. g.stack = <<>> /\ g.items \subseteq job.items /\ job.items \subseteq Path
  BY <1>1, <1>10 DEF Track, ThreadOK, Errand
<1>12. p \in job.items /\ p \in Path /\ p \in Seq(Name) /\ job.dest \in Seq(Name)
       /\ Front(p) = Home(job)
  BY <1>10, <1>11 DEF Path, Suits
<1>13. /\ item(p).path = p /\ Kind(t) = job.kind
       /\ Skipped(t, item(p)) <=> p \notin Chosen(t, job, was)
  BY <1>10, <1>12, ItemIs DEF item, Kind
<1>14. /\ g.pc \notin AtPath /\ g.pc \notin Pasting /\ \A x : Around(t, g, x) <=> Waiting(g, x)
  BY <1>1, <1>11, NothingOpen DEF AtPath, Pasting, Around, Beneath, Covers
<1>15. CASE p \notin Chosen(t, job, was)
  <2>1. n.pc = "items"
    BY <1>4, <1>8, <1>10, <1>13, <1>15
  <2>2. n.pc \notin AtPath /\ n.pc \notin Pasting /\ n.pc \notin AtFile /\ n.pc \notin InCopy
        /\ n.pc \notin Removing
    BY <2>1 DEF AtPath, Pasting, AtFile, InCopy, Removing
  <2>3. Track(t, n)
    BY <1>8, <1>11, <2>1, <2>2, NothingOpen DEF Track
  <2>4. ASSUME NEW x \in Seq(Name), Within(t, job, was, x), Waiting(g, x)
        PROVE  Waiting(n, x)
    <3>1. PICK i \in g.items : IsPrefix(i, x)
      BY <2>4 DEF Waiting
    <3>2. PICK j \in Chosen(t, job, was) : IsPrefix(j, x)
      BY <2>4 DEF Within
    <3>3. i \in job.items /\ j \in job.items
      BY <1>11 DEF Chosen
    <3>4. i = j
      <4> HIDE DEF job, was
      <4> QED
        BY <1>10, <2>4, <3>1, <3>2, <3>3, ItemsOne
    <3>5. i # p
      BY <1>15, <3>4
    <3> QED
      BY <1>8, <3>1, <3>5 DEF Waiting
  <2>5. \A x : Waiting(n, x) => Waiting(g, x)
    BY <1>8 DEF Waiting
  <2>6. ToPaste(t, n) = ToPaste(t, g)
    <3>1. \A x \in Marked(t, job, was) : x \in Seq(Name) /\ Within(t, job, was, x)
      BY <1>10, MarkedIs
    <3>2. \A x \in Marked(t, job, was) : Waiting(n, x) <=> Waiting(g, x)
      BY <2>4, <2>5, <3>1
    <3> QED
      BY <1>8, <1>14, <2>2, <3>2 DEF ToPaste
  <2>7. \A x \in DOMAIN fs : Within(t, job, was, x) /\ Around(t, g, x) => Around(t, n, x)
    <3>1. \A x \in DOMAIN fs : x \in Seq(Name)
      BY <1>10 DEF Tree, Path
    <3> QED
      BY <1>14, <2>4, <3>1 DEF Around
  <2> HIDE DEF n, g
  <2> QED
    BY <1>1, <1>8, <1>9, <2>2, <2>3, <2>6, <2>7, SettledItems DEF n, g
<1>16. CASE p \in Chosen(t, job, was)
  <2>1. /\ n.pc \in {"enter", "file", "move", "copy"}
        /\ n.pc = "enter" => item(p).isDir
        /\ n.pc # "enter" => ~item(p).isDir
    BY <1>4, <1>8, <1>10, <1>13, <1>16
  <2>2. /\ n.pc \in AtPath /\ n.pc \in Pasting /\ n.pc \notin InCopy /\ n.pc \notin Removing
        /\ n.pc \notin {"idle", "items", "done"} /\ n.pc # "entries"
        /\ n.pc \in AtFile => n.pc # "enter"
    BY <2>1 DEF AtPath, Pasting, AtFile, InCopy, Removing
  <2>3. n.to = Image(job, p)
    BY <1>8, <1>12, ImageTop DEF to, Image
  <2>4. /\ item(p).isDir => (p \in DOMAIN was => was[p] = Dir)
        /\ ~item(p).isDir => p \in DOMAIN was /\ was[p] # Dir
    <3> HIDE DEF g
    <3> QED
      BY <1>9, <1>16, ItemThere DEF item, g
  <2>5. n.item.path = p /\ IsPrefix(n.item.path, n.from)
    BY <1>8, <1>12, <1>13, PrefixSelf
  <2>6. n.stack = <<>> /\ n.item.isDir = item(p).isDir
    BY <1>8, <1>11
  <2>7. n.job = job /\ n.was = was /\ n.from = p /\ n.items = g.items \ {p} /\ n.removing = FALSE
    BY <1>8
  <2>8. Track(t, n)
    <3>1. \A f : Clear(n.stack, f)
      BY <2>6, NothingOpen
    <3>2. Nested(n.stack) /\ DOMAIN n.stack = {}
      BY <2>6, NothingOpen
    <3>3. n.item.path \in Chosen(t, n.job, n.was) \ n.items
      BY <1>16, <2>5, <2>7
    <3>4. n.pc = "enter" => /\ n.from \in Marked(t, n.job, n.was) \cup Chosen(t, n.job, n.was)
                            /\ n.from \in DOMAIN n.was => n.was[n.from] = Dir
      BY <1>16, <2>1, <2>4, <2>7
    <3>5. n.pc \in AtFile => n.from \in DOMAIN n.was /\ n.was[n.from] # Dir
      BY <2>1, <2>2, <2>4, <2>7
    <3>6. n.to = Image(n.job, n.from)
      BY <2>3, <2>7
    <3>7. n.pc = "enter" => n.item.isDir
      BY <2>1, <2>6
    <3> HIDE DEF n
    <3> QED
      BY <2>2, <2>5, <2>6, <2>7, <3>1, <3>2, <3>3, <3>4, <3>5, <3>6, <3>7 DEF Track
  <2>9. \A x : Waiting(g, x) <=> Waiting(n, x) \/ IsPrefix(n.from, x)
    BY <2>7 DEF Waiting
  <2>10. \A x : Waiting(n, x) \/ Beneath(n, x) <=> Waiting(g, x)
    BY <2>2, <2>6, <2>9, NothingOpen DEF Beneath
  <2>11. ToPaste(t, n) = ToPaste(t, g)
    BY <1>14, <2>2, <2>7, <2>10 DEF ToPaste
  <2>12. \A x : Around(t, g, x) => Around(t, n, x)
    BY <1>14, <2>10 DEF Around
  <2> HIDE DEF n, g
  <2> QED
    BY <1>1, <1>8, <1>9, <2>2, <2>8, <2>11, <2>12, SettledItems DEF n, g
<1> QED
  BY <1>15, <1>16

(* At the start all is as it was, and all waits. *)
LEMMA PasteBegin ==
  ASSUME Inv, NEW t \in Threads, Begin(t)
  PROVE  Pastes(t)'
<1> DEFINE g == thread[t]
           n == thread'[t]
           r(j) == [Idle EXCEPT !.pc = "items", !.job = j, !.was = fs, !.items = j.items]
<1> SUFFICES ASSUME Good(t, n)
             PROVE  PasteOK(t, n, fs', bytes_transfered', bytes_to_download')
  BY DEF Pastes
<1>1. fs' = fs /\ Tree(fs)
  BY DEF Begin, Inv
<1>2. PICK job \in jobs[t] : Set(t, r(job))
  BY DEF Begin
<1> DEFINE q == r(job)
<1>3. Set(t, q)
  BY <1>2
<1>4. /\ DOMAIN q = Fields /\ q["pc"] = "items" /\ q["job"] = job /\ q["was"] = fs
      /\ q["items"] = job.items /\ q["stack"] = <<>>
  BY DEF Idle, Fields
<1> HIDE DEF q
<1>5. \A f \in Fields : n[f] = q[f]
  BY <1>3, <1>4, OwnFields
<1>6. n.pc = "items" /\ n.job = job /\ n.was = fs /\ n.items = job.items /\ n.stack = <<>>
  BY <1>4, <1>5 DEF Fields
<1>7. Suits(t, job, fs)
  BY <1>6 DEF Good
<1>8. n.pc \notin AtPath /\ n.pc \notin Pasting /\ n.pc \notin AtFile /\ n.pc \notin InCopy
      /\ n.pc \notin Removing
  BY <1>6 DEF AtPath, Pasting, AtFile, InCopy, Removing
<1>9. Track(t, n)
  BY <1>6, <1>8, NothingOpen DEF Track
<1>10. \A x : Within(t, job, fs, x) => Waiting(n, x)
  BY <1>6 DEF Within, Waiting, Chosen
<1>11. ToPaste(t, n) = Marked(t, job, fs)
  BY <1>6, <1>8, <1>10 DEF ToPaste, Marked
<1>12. Placed(t, n.job, n.was, fs', ToPaste(t, n))
  <2>1. job.dest \in DOMAIN fs /\ fs[job.dest] = Dir
    BY <1>7 DEF Suits
  <2>2. \A x \in Marked(t, job, fs) : x \in DOMAIN fs
    BY DEF Marked
  <2>3. ASSUME NEW x \in Marked(t, job, fs), Image(job, x) \in DOMAIN fs
        PROVE  fs[Image(job, x)] = Dir <=> fs[x] = Dir
    BY <1>7, <2>2, <2>3 DEF Suits
  <2>4. Placed(t, job, fs, fs, Marked(t, job, fs))
    BY <2>1, <2>2, <2>3 DEF Placed
  <2> HIDE DEF n
  <2> QED
    BY <1>1, <1>6, <1>11, <2>4
<1>13. Gone(t, n, fs')
  BY <1>6, <1>10 DEF Gone, Around
<1>14. CopyIs(n, fs', bytes_transfered', bytes_to_download')
  BY <1>6, <1>8 DEF CopyIs
<1> HIDE DEF n
<1> QED
  BY <1>9, <1>12, <1>13, <1>14 DEF PasteOK

LEMMA PasteStep ==
  ASSUME Inv, NEW t \in Threads, Pastes(t), Step(t),
         t \in Http => Faults[t] \cap {"rename", "list", "mkdir", "flush"} = {}
  PROVE  Pastes(t)'
<1>1. CASE ~Good(t, thread'[t])
  BY <1>1 DEF Pastes
<1>2. CASE Good(t, thread'[t])
  <2>1. CASE NextItem(t) \/ ItemDone(t) \/ Finish(t)
    BY <1>2, <2>1, PasteNextItem, PasteItemDone, PasteFinish
  <2>2. CASE EnterStopped(t) \/ EnterRefused(t) \/ EntriesStopped(t)
    BY <1>2, <2>2, PasteGivesUp
  <2>3. CASE EnterListed(t)
    BY <1>2, <2>3, PasteEnterListed
  <2>4. CASE NextEntry(t) \/ EntriesDone(t)
    BY <1>2, <2>4, PasteNextEntry, PasteEntriesDone
  <2>5. CASE File(t) \/ Answer(t) \/ MoveCopies(t)
    BY <1>2, <2>5, PasteFile
  <2>6. CASE MoveRenamed(t)
    BY <1>2, <2>6, PasteMoveRenamed
  <2>7. CASE MoveRefused(t)
    BY <1>2, <2>7, PasteMoveRefused
  <2>8. CASE CopyBegin(t) \/ CopyNothing(t)
    BY <1>2, <2>8, PasteCopyBegin
  <2>9. CASE CopyBlock(t)
    BY <1>2, <2>9, PasteCopyBlock
  <2>10. CASE CopyTest(t)
    BY <1>2, <2>10, PasteCopyTest
  <2>11. CASE Unlink(t)
    BY <1>2, <2>11, PasteUnlink
  <2>12. CASE RmEnter(t)
    BY <1>2, <2>12, PasteRmEnter
  <2>13. CASE RmNext(t) \/ RmTest(t)
    BY <1>2, <2>13, PasteRmNext, PasteRmTest
  <2>14. CASE RmDone(t)
    BY <1>2, <2>14, PasteRmDone
  <2>15. CASE EnterUnmade(t) \/ CopyUnmade(t)
    BY <1>2, <2>15, PasteUnmade
  <2>16. CASE ReadFails(t)
    BY <1>2, <2>16, PasteReadFails
  <2> QED
    BY <2>1, <2>2, <2>3, <2>4, <2>5, <2>6, <2>7, <2>8, <2>9, <2>10, <2>11, <2>12, <2>13, <2>14,
       <2>15, <2>16 DEF Step
<1> QED
  BY <1>1, <1>2

-----------------------------------------------------------------------------
(* The server's threads do not look at what rename, opendir, mkdir and fclose *)
(* return.                                                                     *)
HttpTrusts == \A t \in Http : Faults[t] \cap {"rename", "list", "mkdir", "flush"} = {}
PasteInv == \A t \in Threads : Pastes(t)

LEMMA PasteNext ==
  ASSUME HttpTrusts
  PROVE  Inv /\ PasteInv /\ [Next]_vars => PasteInv'
<1> SUFFICES ASSUME Inv, PasteInv, [Next]_vars, NEW t \in Threads
             PROVE  Pastes(t)'
  BY DEF PasteInv
<1>1. Pastes(t)
  BY DEF PasteInv
<1>2. CASE fs' = fs /\ thread' = thread /\ UNCHANGED counters
  BY <1>1, <1>2 DEF Pastes, counters
<1>3. ASSUME NEW u \in Threads, u # t, Step(u) \/ Begin(u)
      PROVE  Pastes(t)'
  <2>1. thread'[t] = [thread[t] EXCEPT !.alone = FALSE]
    BY <1>3, OthersNote
  <2>2. thread[t] = [f \in Fields |-> thread[t][f]]
    BY Here DEF Inv, Shape
  <2>3. thread'[t].alone = FALSE
    BY <2>1, <2>2 DEF Fields
  <2> QED
    BY <2>3 DEF Pastes, Good
<1>4. CASE Begin(t)
  BY <1>4, PasteBegin
<1>5. CASE Step(t)
  BY <1>1, <1>5, PasteStep DEF HttpTrusts
<1>6. CASE UNCHANGED vars \/ Cancel
  BY <1>2, <1>6 DEF vars, counters, Cancel
<1> QED
  BY <1>3, <1>4, <1>5, <1>6 DEF Next

LEMMA PasteInit == Init => PasteInv
<1> SUFFICES ASSUME Init, NEW t \in Threads
             PROVE  Pastes(t)
  BY DEF PasteInv
<1>1. thread[t] = Idle
  BY DEF Init
<1>2. Idle.job.kind = "none"
  BY DEF Idle, NoJob
<1> QED
  BY <1>1, <1>2 DEF Pastes, Good

(* Where the property says something belongs. *)
LEMMA PastedIs ==
  ASSUME NEW t, thread[t].job.dest \in Seq(Name), NEW p \in Path,
         Front(p) = Home(thread[t].job), NEW q \in Seq(Name), IsPrefix(p, q)
  PROVE  Pasted(t, p, q) = Image(thread[t].job, q)
<1> DEFINE dest == thread[t].job.dest
           home == Home(thread[t].job)
<1>1. p \in Seq(Name) /\ p # <<>> /\ home = Front(p) /\ dest \in Seq(Name)
  BY DEF Path
<1>2. home \in Seq(Name) /\ IsPrefix(home, p)
  BY <1>1, FrontIs
<1> HIDE DEF dest, home
<1>3. Into(dest, p) = dest \o Rest(home, p)
  BY <1>1, ImageTop
<1>4. (dest \o Rest(home, p)) \o Rest(p, q) = dest \o Rest(home, q)
  <2>1. /\ home \in Seq(Name) /\ dest \in Seq(Name) /\ p \in Seq(Name) /\ q \in Seq(Name)
        /\ IsPrefix(home, p) /\ IsPrefix(p, q)
    BY <1>1, <1>2
  <2> HIDE DEF Rest
  <2> QED
    BY <2>1, ImageStep
<1>5. Into(dest, p) \o Rest(p, q) = dest \o Rest(home, q)
  BY <1>3, <1>4
<1> QED
  BY <1>5 DEF Pasted, Image, Rest, dest, home

(* A promised paste that fits is a good one. *)
LEMMA PromisedGood ==
  ASSUME Inv, NEW t \in Threads, At(t, "idle"), Kind(t) \in {"move", "copy"}, Fits(t), Promised(t)
  PROVE  /\ Good(t, thread[t])
         /\ {i \in thread[t].job.items : ~Skipped(t, Item(t, i))} =
              Chosen(t, thread[t].job, thread[t].was)
<1> DEFINE g == thread[t]
           job == g.job
           was == g.was
           pasted == {i \in job.items : ~Skipped(t, Item(t, i))}
<1>1. ThreadOK(t, g) /\ job.kind \in {"move", "copy"} /\ g.pc = "idle"
  BY Here DEF Inv, Kind, At
<1>2. /\ job.items \subseteq Path /\ job.dest \in Seq(Name) /\ Tree(was)
  BY <1>1 DEF ThreadOK, Errand
<1>3. pasted = Chosen(t, job, was)
  <2>1. \A i \in job.items : ~Skipped(t, Item(t, i)) <=> i \in Chosen(t, job, was)
    BY <1>1, ItemIs
  <2>2. Chosen(t, job, was) \subseteq job.items
    BY DEF Chosen
  <2> QED
    BY <2>1, <2>2
<1>4. /\ \A p, q \in job.items : Front(p) = Front(q)
      /\ job.dest \in DOMAIN was /\ was[job.dest] = Dir
      /\ \A p \in pasted : \A q \in {p} \cup {x \in DOMAIN was : IsPrefix(p, x)} :
           /\ \A i \in pasted : ~IsPrefix(i, Pasted(t, p, q))
           /\ {q, Pasted(t, p, q)} \subseteq DOMAIN was =>
                (was[q] = Dir <=> was[Pasted(t, p, q)] = Dir)
  BY DEF Fits
<1>5. \A p \in job.items : Front(p) = Home(job)
  BY <1>4 DEF Home
<1> HIDE DEF pasted
<1>6. ASSUME NEW q \in Marked(t, job, was) \cup Chosen(t, job, was)
      PROVE  /\ ~Within(t, job, was, Image(job, q))
             /\ q \in DOMAIN was /\ Image(job, q) \in DOMAIN was =>
                  (was[q] = Dir <=> was[Image(job, q)] = Dir)
  <2>1. q \in Seq(Name)
    BY <1>2 DEF Marked, Chosen, Tree, Path
  <2>2. PICK p \in Chosen(t, job, was) :
          IsPrefix(p, q) /\ q \in {p} \cup {x \in DOMAIN was : IsPrefix(p, x)}
    <3>1. CASE q \in Marked(t, job, was)
      BY <3>1 DEF Marked, Within
    <3>2. CASE q \in Chosen(t, job, was)
      BY <2>1, <3>2, PrefixSelf
    <3> QED
      BY <3>1, <3>2
  <2>3. p \in job.items /\ p \in Path /\ p \in pasted
    BY <1>2, <1>3, <2>2 DEF Chosen
  <2>4. Pasted(t, p, q) = Image(job, q)
    BY <1>2, <1>5, <2>1, <2>2, <2>3, PastedIs
  <2> HIDE DEF g, job, was
  <2> QED
    BY <1>3, <1>4, <2>2, <2>3, <2>4 DEF Within
<1>7. Suits(t, job, was)
  <2> HIDE DEF g, job, was
  <2> QED
    BY <1>2, <1>4, <1>5, <1>6 DEF Suits
<1>8. g.alone /\ IF t \in Worker THEN g.plain ELSE ~g.failed
  BY DEF Promised
<1>9. Good(t, g)
  BY <1>1, <1>7, <1>8 DEF Good
<1> QED
  BY <1>3, <1>9 DEF pasted

(* A cut or copy that ended well, with no other thread about, has put            *)
(* everything of the items where it belongs, also where directories were merged  *)
(* and files copied across devices, and a cut that nothing disturbed has left    *)
(* nothing of them behind: for any number of threads, any trees and any jobs, if *)
(* the file system refuses the server's threads no rename, mkdir, listing or     *)
(* flush: those they would answer with success.                                   *)
THEOREM PasteCompleteAlways ==
  ASSUME HttpTrusts
  PROVE  Spec => []PasteComplete
<1>1. Spec => []Inv
  BY InitInv, NextInv, PTL DEF Spec
<1>2. Inv /\ PasteInv /\ [Next]_vars => PasteInv'
  BY PasteNext
<1>3. Spec => []PasteInv
  BY <1>1, <1>2, PasteInit, PTL DEF Spec
<1>4. Inv /\ PasteInv => PasteComplete
  <2> SUFFICES ASSUME Inv, PasteInv, NEW t \in Threads, At(t, "idle"),
                      Kind(t) \in {"move", "copy"}, Fits(t), Promised(t),
                      NEW p \in {i \in thread[t].job.items : ~Skipped(t, Item(t, i))},
                      NEW q \in {x \in DOMAIN thread[t].was : IsPrefix(p, x)}
               PROVE  /\ Exists(Pasted(t, p, q)) /\ fs[Pasted(t, p, q)] = thread[t].was[q]
                      /\ Kind(t) = "move" /\ thread[t].plain => ~Exists(q)
    BY DEF PasteComplete
  <2> DEFINE g == thread[t]
             job == g.job
             was == g.was
  <2>1. Good(t, g) /\ p \in Chosen(t, job, was) /\ g.pc = "idle" /\ Pastes(t)
    BY PromisedGood DEF At, PasteInv
  <2>2. /\ Track(t, g) /\ Placed(t, job, was, fs, ToPaste(t, g)) /\ Gone(t, g, fs)
        /\ Suits(t, job, was)
    BY <2>1, AtWork DEF Good
  <2>3. /\ p \in job.items /\ p \in Path /\ Front(p) = Home(job) /\ job.dest \in Seq(Name)
        /\ q \in DOMAIN was /\ q \in Seq(Name) /\ IsPrefix(p, q)
    BY <2>1, <2>2 DEF Suits, Chosen, Tree, Path
  <2>4. Pasted(t, p, q) = Image(job, q)
    BY <2>3, PastedIs
  <2>5. q \in Marked(t, job, was) /\ Within(t, job, was, q)
    BY <2>1, <2>3 DEF Marked, Within
  <2>6. g.items = {} /\ g.stack = <<>> /\ g.pc \notin AtPath /\ g.pc \notin Pasting
    BY <2>1, <2>2 DEF Track, AtPath, Pasting
  <2>7. q \notin ToPaste(t, g) /\ ~Around(t, g, q)
    BY <2>1, <2>6, NothingOpen DEF ToPaste, Waiting, Around, Beneath, Covers
  <2>8. Image(job, q) \in DOMAIN fs /\ fs[Image(job, q)] = was[q]
    BY <2>2, <2>5, <2>7 DEF Placed
  <2>9. Kind(t) = "move" /\ g.plain => q \notin DOMAIN fs
    BY <2>2, <2>5, <2>7 DEF Gone, Kind
  <2> QED
    BY <2>4, <2>8, <2>9 DEF Exists
<1> QED
  BY <1>1, <1>3, <1>4, PTL
=============================================================================
