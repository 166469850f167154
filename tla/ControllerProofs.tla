-------------------------- MODULE ControllerProofs --------------------------
(***************************************************************************)
(* The slices of Controller, for every set of symbols and every number of  *)
(* subscriptions per stream.                                               *)
(***************************************************************************)
EXTENDS Controller, FiniteSetTheorems, SequenceTheorems, TLAPS

(* The larger and the smaller of two numbers, as get_slice takes them. *)
LEMMA MaxMinOfTwo ==
    ASSUME NEW a \in Int, NEW b \in Int
    PROVE  /\ Max({a, b}) = IF a >= b THEN a ELSE b
           /\ Min({a, b}) = IF a <= b THEN a ELSE b
<1>1. Max({a, b}) = CHOOSE x \in {a, b} : \A y \in {a, b} : x >= y
  BY DEF Max
<1>2. Min({a, b}) = CHOOSE x \in {a, b} : \A y \in {a, b} : x <= y
  BY DEF Min
<1>3. CASE a >= b
  BY <1>1, <1>2, <1>3
<1>4. CASE a < b
  BY <1>1, <1>2, <1>4
<1>5. QED
  BY <1>3, <1>4

(* The i-th slice has the symbols numbered from Begin(i) + 1 to End(i). *)
Begin(i) == (i - 1) * MaxSubscriptions
End(i)   == i * MaxSubscriptions

LEMMA BeginAndEnd ==
    ASSUME NEW i \in Nat \ {0}
    PROVE  /\ Begin(i) \in Nat /\ End(i) \in Nat
           /\ End(i) = Begin(i) + MaxSubscriptions
           /\ Begin(i) < End(i)
<1>1. PICK M \in Nat \ {0} : M = MaxSubscriptions
  BY ControllerAssumption
<1>2. (i - 1) * M \in Nat /\ i * M = (i - 1) * M + M
  OBVIOUS
<1>3. QED
  BY <1>1, <1>2 DEF Begin, End

(* A number belongs to one slice. *)
LEMMA SliceOfIsInterval ==
    ASSUME NEW i \in Nat \ {0}, NEW n \in Nat \ {0}
    PROVE  SliceOf(n) = i <=> Begin(i) < n /\ n <= End(i)
<1>1. PICK M \in Nat \ {0} : M = MaxSubscriptions
  BY ControllerAssumption
<1>2. PICK m \in Nat : m = n - 1
  OBVIOUS
<1>3. PICK q \in Nat : q = m \div M
  OBVIOUS
<1>4. q * M <= m /\ m < (q + 1) * M
  BY <1>3
<1>5. PICK j \in Nat : j = i - 1
  OBVIOUS
<1>6. ASSUME j * M <= m, m < (j + 1) * M
      PROVE  j = q
  <2>1. CASE j < q
    <3>1. q * M = (j + 1) * M + (q - j - 1) * M
      OBVIOUS
    <3>2. (q - j - 1) * M >= 0
      BY <2>1
    <3>3. QED
      BY <1>4, <1>6, <3>1, <3>2
  <2>2. CASE j > q
    <3>1. j * M = (q + 1) * M + (j - q - 1) * M
      OBVIOUS
    <3>2. (j - q - 1) * M >= 0
      BY <2>2
    <3>3. QED
      BY <1>4, <1>6, <3>1, <3>2
  <2>3. QED
    BY <2>1, <2>2
<1>7. SliceOf(n) = q + 1 /\ Begin(i) = j * M
  BY <1>1, <1>2, <1>3, <1>5 DEF SliceOf, Begin
<1>8. (j + 1) * M = j * M + M /\ (q + 1) * M = q * M + M
  OBVIOUS
<1>9. j * M \in Nat /\ q * M \in Nat
  OBVIOUS
<1>10. ASSUME SliceOf(n) = i
       PROVE  Begin(i) < n /\ n <= Begin(i) + M
  <2>1. j = q
    BY <1>5, <1>7, <1>10
  <2>2. QED
    BY <1>2, <1>4, <1>7, <1>8, <1>9, <2>1
<1>11. ASSUME Begin(i) < n, n <= Begin(i) + M
       PROVE  SliceOf(n) = i
  <2>1. j = q
    BY <1>2, <1>6, <1>7, <1>8, <1>9, <1>11
  <2>2. QED
    BY <1>5, <1>7, <2>1
<1>12. QED
  BY <1>1, <1>10, <1>11, BeginAndEnd

-----------------------------------------------------------------------------
(* Parts of sequences *)

LEMMA PartOfSeq ==
    ASSUME NEW T, NEW w \in Seq(T), NEW lo \in Nat, NEW hi \in Nat, hi <= Len(w)
    PROVE  /\ SubSeq(w, lo + 1, hi) \in Seq(T)
           /\ lo <= hi => Len(SubSeq(w, lo + 1, hi)) = hi - lo
           /\ lo > hi => SubSeq(w, lo + 1, hi) = <<>>
           /\ \A x \in 1..(hi - lo) : SubSeq(w, lo + 1, hi)[x] = w[lo + x]
<1>1. SubSeq(w, lo + 1, hi) \in Seq(T)
  BY SubSeqProperties
<1>2. lo <= hi => Len(SubSeq(w, lo + 1, hi)) = hi - lo
  OBVIOUS
<1>3. lo > hi => SubSeq(w, lo + 1, hi) = <<>>
  BY SubSeqEmpty
<1>4. \A x \in 1..(hi - lo) : SubSeq(w, lo + 1, hi)[x] = w[lo + x]
  OBVIOUS
<1>5. QED
  BY <1>1, <1>2, <1>3, <1>4

(* Two parts that meet are one part. *)
LEMMA PartsMeet ==
    ASSUME NEW T, NEW w \in Seq(T), NEW lo \in Nat, NEW mid \in Nat,
           NEW hi \in Nat, lo <= mid, mid <= hi, hi <= Len(w)
    PROVE  SubSeq(w, lo + 1, mid) \o SubSeq(w, mid + 1, hi) = SubSeq(w, lo + 1, hi)
<1>1. PICK s, t, u : /\ s = SubSeq(w, lo + 1, mid)
                     /\ t = SubSeq(w, mid + 1, hi)
                     /\ u = SubSeq(w, lo + 1, hi)
  OBVIOUS
<1>2. s \in Seq(T) /\ t \in Seq(T) /\ u \in Seq(T)
  BY <1>1, PartOfSeq
<1>3. Len(s) = mid - lo /\ Len(t) = hi - mid /\ Len(u) = hi - lo
  BY <1>1, PartOfSeq
<1>4. /\ \A x \in 1..(mid - lo) : s[x] = w[lo + x]
      /\ \A x \in 1..(hi - mid) : t[x] = w[mid + x]
      /\ \A x \in 1..(hi - lo) : u[x] = w[lo + x]
  BY <1>1, PartOfSeq
<1>5. PICK v \in Seq(T) : v = s \o t
  BY <1>2, ConcatProperties
<1>6. Len(v) = hi - lo
  BY <1>2, <1>3, <1>5, ConcatProperties
<1>7. ASSUME NEW x \in 1..(hi - lo)
      PROVE  v[x] = u[x]
  <2>1. CASE x \in 1..(mid - lo)
    <3>1. v[x] = s[x]
      BY <1>2, <1>3, <1>5, <2>1, ConcatProperties
    <3>2. QED
      BY <1>4, <2>1, <3>1
  <2>2. CASE x \in (mid - lo + 1)..(hi - lo)
    <3>1. /\ x - (mid - lo) \in 1..(hi - mid)
          /\ mid + (x - (mid - lo)) = lo + x
      BY <2>2
    <3>2. v[x] = t[x - (mid - lo)]
      BY <1>2, <1>3, <1>5, <2>2, <3>1, ConcatProperties
    <3>3. QED
      BY <1>4, <3>1, <3>2
  <2>3. QED
    BY <2>1, <2>2
<1>8. v = u
  BY <1>2, <1>3, <1>5, <1>6, <1>7, SeqEqual
<1>9. QED
  BY <1>1, <1>5, <1>8

(* A part of a prefix is a part of the whole. *)
LEMMA PartOfPrefix ==
    ASSUME NEW T, NEW old \in Seq(T), NEW all \in Seq(T),
           NEW lo \in Nat, NEW hi \in Nat, lo <= hi,
           hi <= Len(old), Len(old) <= Len(all),
           \A x \in 1..Len(old) : all[x] = old[x]
    PROVE  SubSeq(old, lo + 1, hi) = SubSeq(all, lo + 1, hi)
<1>1. PICK s, t : s = SubSeq(old, lo + 1, hi) /\ t = SubSeq(all, lo + 1, hi)
  OBVIOUS
<1>2. s \in Seq(T) /\ t \in Seq(T) /\ Len(s) = hi - lo /\ Len(t) = hi - lo
  BY <1>1, PartOfSeq
<1>3. /\ \A x \in 1..(hi - lo) : s[x] = old[lo + x]
      /\ \A x \in 1..(hi - lo) : t[x] = all[lo + x]
  BY <1>1, PartOfSeq
<1>4. \A x \in 1..(hi - lo) : lo + x \in 1..Len(old)
  OBVIOUS
<1>5. s = t
  BY <1>2, <1>3, <1>4, SeqEqual
<1>6. QED
  BY <1>1, <1>5

-----------------------------------------------------------------------------
(* What get_slice returns: the part between the first symbol asked for and *)
(* the end of the slice, or of the symbols.                                *)
LEMMA GetSlice ==
    ASSUME NEW syms, Len(syms) \in Nat, NEW i \in Nat \ {0}, NEW from \in Nat
    PROVE  get_slice(syms, i, from) =
              SubSeq(syms, (IF from >= Begin(i) THEN from ELSE Begin(i)) + 1,
                     IF Len(syms) <= End(i) THEN Len(syms) ELSE End(i))
<1>1. Begin(i) \in Int /\ End(i) \in Int /\ Len(syms) \in Int /\ from \in Int
  BY BeginAndEnd
<1>2. /\ Max({from, Begin(i)}) = IF from >= Begin(i) THEN from ELSE Begin(i)
      /\ Min({Len(syms), End(i)}) =
            IF Len(syms) <= End(i) THEN Len(syms) ELSE End(i)
  BY <1>1, MaxMinOfTwo, Zenon
<1>3. get_slice(syms, i, from) =
          SubSeq(syms, Max({from, Begin(i)}) + 1, Min({Len(syms), End(i)}))
  BY DEF get_slice, Begin, End
<1>4. QED
  BY <1>2, <1>3, Zenon

(* The part of the slice from before an update and the part that the       *)
(* update adds are the slice after it.                                     *)
LEMMA SliceGrows ==
    ASSUME NEW T, NEW old \in Seq(T), NEW new \in Seq(T), NEW i \in Nat \ {0}
    PROVE  get_slice(old, i, 0) \o get_slice(old \o new, i, Len(old)) =
              get_slice(old \o new, i, 0)
<1>1. PICK all : all = old \o new
  OBVIOUS
<1>2. /\ all \in Seq(T)
      /\ Len(all) >= Len(old)
      /\ \A x \in 1..Len(old) : all[x] = old[x]
  BY <1>1, ConcatProperties
<1>3. PICK m \in Nat, n \in Nat : m = Len(old) /\ n = Len(all)
  BY <1>2
<1>4. m <= n
  BY <1>2, <1>3
<1>5. PICK f \in Nat, e \in Nat : f = Begin(i) /\ e = End(i)
  BY BeginAndEnd
<1>6. f < e
  BY <1>5, BeginAndEnd
<1>7. PICK hi \in Nat : hi = IF n <= e THEN n ELSE e
  OBVIOUS
<1>8. get_slice(all, i, 0) = SubSeq(all, f + 1, hi)
  <2>1. get_slice(all, i, 0) =
            SubSeq(all, (IF 0 >= f THEN 0 ELSE f) + 1, IF n <= e THEN n ELSE e)
    BY <1>3, <1>5, GetSlice
  <2>2. (IF 0 >= f THEN 0 ELSE f) = f
    OBVIOUS
  <2>3. QED
    BY <1>7, <2>1, <2>2
<1>9. get_slice(all, i, m) = SubSeq(all, (IF m >= f THEN m ELSE f) + 1, hi)
  BY <1>3, <1>5, <1>7, GetSlice
<1>10. get_slice(old, i, 0) = SubSeq(old, f + 1, IF m <= e THEN m ELSE e)
  <2>1. get_slice(old, i, 0) =
            SubSeq(old, (IF 0 >= f THEN 0 ELSE f) + 1, IF m <= e THEN m ELSE e)
    BY <1>3, <1>5, GetSlice
  <2>2. (IF 0 >= f THEN 0 ELSE f) = f
    OBVIOUS
  <2>3. QED
    BY <2>1, <2>2
<1>11. hi <= n /\ SubSeq(all, f + 1, hi) \in Seq(T)
  BY <1>2, <1>3, <1>7, PartOfSeq
<1>12. CASE m <= f
  <2>1. get_slice(old, i, 0) = SubSeq(old, f + 1, m)
    BY <1>6, <1>10, <1>12
  <2>2. SubSeq(old, f + 1, m) = <<>>
    BY <1>12, SubSeqEmpty
  <2>3. get_slice(all, i, m) = SubSeq(all, f + 1, hi)
    <3>1. (IF m >= f THEN m ELSE f) = f
      BY <1>12
    <3>2. QED
      BY <1>9, <3>1
  <2>4. QED
    BY <1>1, <1>3, <1>8, <1>11, <2>1, <2>2, <2>3, ConcatEmptySeq
<1>13. CASE f < m /\ m <= e
  <2>1. get_slice(old, i, 0) = SubSeq(old, f + 1, m)
    BY <1>10, <1>13
  <2>2. SubSeq(old, f + 1, m) = SubSeq(all, f + 1, m)
    BY <1>2, <1>3, <1>4, <1>13, PartOfPrefix
  <2>3. get_slice(all, i, m) = SubSeq(all, m + 1, hi) /\ m <= hi
    BY <1>4, <1>7, <1>9, <1>13
  <2>4. SubSeq(all, f + 1, m) \o SubSeq(all, m + 1, hi) = SubSeq(all, f + 1, hi)
    <3>1. f <= m /\ m <= hi /\ hi <= Len(all)
      BY <1>3, <1>11, <1>13, <2>3
    <3>2. all \in Seq(T) /\ f \in Nat /\ m \in Nat /\ hi \in Nat
      BY <1>2, <1>3, <1>5, <1>7
    <3>3. QED
      BY <3>1, <3>2, PartsMeet, SMTT(30)
  <2>5. QED
    BY <1>1, <1>3, <1>8, <2>1, <2>2, <2>3, <2>4
<1>14. CASE m > e
  <2>1. hi = e
    BY <1>4, <1>7, <1>14
  <2>2. get_slice(old, i, 0) = SubSeq(old, f + 1, e)
    BY <1>10, <1>14
  <2>3. SubSeq(old, f + 1, e) = SubSeq(all, f + 1, e)
    BY <1>2, <1>3, <1>4, <1>6, <1>14, PartOfPrefix
  <2>4. get_slice(all, i, m) = SubSeq(all, m + 1, e)
    BY <1>6, <1>9, <1>14, <2>1
  <2>5. SubSeq(all, m + 1, e) = <<>>
    BY <1>14, SubSeqEmpty
  <2>6. QED
    BY <1>1, <1>3, <1>8, <1>11, <2>1, <2>2, <2>3, <2>4, <2>5, ConcatEmptySeq
<1>15. QED
  BY <1>12, <1>13, <1>14

(* A part of the symbols is the slice, whose numbers SliceOf tells. *)
LEMMA SliceHas ==
    ASSUME NEW T, NEW syms \in Seq(T), NEW i \in Nat \ {0}
    PROVE  /\ get_slice(syms, i, 0) \in Seq(T)
           /\ \A x \in DOMAIN get_slice(syms, i, 0) :
                 /\ Begin(i) + x \in 1..Len(syms)
                 /\ SliceOf(Begin(i) + x) = i
                 /\ get_slice(syms, i, 0)[x] = syms[Begin(i) + x]
           /\ \A n \in 1..Len(syms) : SliceOf(n) = i =>
                 /\ n - Begin(i) \in DOMAIN get_slice(syms, i, 0)
                 /\ get_slice(syms, i, 0)[n - Begin(i)] = syms[n]
<1>1. PICK f \in Nat, e \in Nat, m \in Nat :
          f = Begin(i) /\ e = End(i) /\ m = Len(syms)
  <2>1. Begin(i) \in Nat /\ End(i) \in Nat /\ Len(syms) \in Nat
    BY BeginAndEnd
  <2>2. QED
    BY <2>1
<1>2. PICK hi \in Nat : hi = IF m <= e THEN m ELSE e
  OBVIOUS
<1>3. PICK g : g = get_slice(syms, i, 0)
  OBVIOUS
<1>4. g = SubSeq(syms, f + 1, hi)
  <2>1. g = SubSeq(syms, (IF 0 >= f THEN 0 ELSE f) + 1, IF m <= e THEN m ELSE e)
    BY <1>1, <1>3, GetSlice
  <2>2. (IF 0 >= f THEN 0 ELSE f) = f
    OBVIOUS
  <2>3. QED
    BY <1>2, <2>1, <2>2
<1>5. hi <= m /\ hi <= e
  BY <1>2
<1>6. /\ g \in Seq(T)
      /\ f <= hi => Len(g) = hi - f
      /\ f > hi => g = <<>>
      /\ \A x \in 1..(hi - f) : g[x] = syms[f + x]
  <2>1. hi <= Len(syms) /\ hi \in Nat /\ f \in Nat
    BY <1>1, <1>2, <1>5
  <2>2. /\ SubSeq(syms, f + 1, hi) \in Seq(T)
        /\ f <= hi => Len(SubSeq(syms, f + 1, hi)) = hi - f
        /\ f > hi => SubSeq(syms, f + 1, hi) = <<>>
        /\ \A x \in 1..(hi - f) : SubSeq(syms, f + 1, hi)[x] = syms[f + x]
    BY <2>1, PartOfSeq, SMTT(30)
  <2>3. QED
    BY <1>4, <2>2, Zenon
<1>7. DOMAIN g = 1..(hi - f)
  <2>1. CASE f <= hi
    BY <1>6, <2>1
  <2>2. CASE f > hi
    BY <1>6, <2>2
  <2>3. QED
    BY <2>1, <2>2
<1>8. \A n \in Nat \ {0} : SliceOf(n) = i <=> f < n /\ n <= e
  BY <1>1, SliceOfIsInterval
<1>9. ASSUME NEW x \in 1..(hi - f)
      PROVE  f + x \in 1..m /\ SliceOf(f + x) = i /\ g[x] = syms[f + x]
  <2>1. f + x \in 1..m /\ f < f + x /\ f + x <= e
    BY <1>5
  <2>2. QED
    BY <1>6, <1>8, <2>1
<1>10. ASSUME NEW n \in 1..m, SliceOf(n) = i
       PROVE  n - f \in 1..(hi - f) /\ g[n - f] = syms[n]
  <2>1. f < n /\ n <= e
    BY <1>8, <1>10
  <2>2. n - f \in 1..(hi - f) /\ f + (n - f) = n
    BY <1>2, <2>1
  <2>3. QED
    BY <1>6, <2>2
<1>11. QED
  BY <1>1, <1>3, <1>6, <1>7, <1>9, <1>10, Zenon

-----------------------------------------------------------------------------
(* The inductive invariant: no symbol was taken twice, and what a stream   *)
(* asked for, as a list and in this order, is its slice so far.            *)

Distinct(w) == \A m, n \in 1..Len(w) : w[m] = w[n] => m = n

Asked(k, i) == IF streams[k][i] THEN get_slice(symbols, i, 0) ELSE <<>>

SliceInv ==
    /\ symbols \in Seq(Symbol)
    /\ Distinct(symbols)
    /\ DOMAIN streams = Kind /\ DOMAIN subscribed = Kind
    /\ \A k \in Kind :
          /\ Len(streams[k]) \in Nat
          /\ DOMAIN streams[k] = 1..Len(streams[k])
          /\ DOMAIN subscribed[k] = 1..Len(streams[k])
          /\ \A i \in 1..Len(streams[k]) : subscribed[k][i] = Asked(k, i)

(* New symbols keep the list without repetition. *)
LEMMA StillDistinct ==
    ASSUME SliceInv, NEW S \in SUBSET Symbol, NEW new \in SetToSeqs(NotSeen(S))
    PROVE  /\ new \in Seq(Symbol)
           /\ symbols \o new \in Seq(Symbol)
           /\ Distinct(symbols \o new)
<1>1. PICK c \in Nat : c = Cardinality(NotSeen(S))
  <2>1. IsFiniteSet(NotSeen(S))
    BY FS_Subset, ControllerAssumption DEF NotSeen
  <2>2. QED
    BY <2>1, FS_CardinalityType
<1>2. /\ new \in [1..c -> NotSeen(S)]
      /\ \A i, j \in 1..c : i # j => new[i] # new[j]
  BY <1>1 DEF SetToSeqs
<1>3. NotSeen(S) \subseteq Symbol
  BY DEF NotSeen
<1>4. new \in Seq(Symbol) /\ Len(new) = c
  BY <1>2, <1>3
<1>5. PICK m \in Nat : m = Len(symbols) /\ symbols \in [1..m -> Symbol]
  BY DEF SliceInv
<1>6. \A x \in 1..m, y \in 1..c : symbols[x] # new[y]
  BY <1>2, <1>5 DEF NotSeen, Seen, Range
<1>7. PICK all : all = symbols \o new
  OBVIOUS
<1>8. /\ all \in Seq(Symbol) /\ Len(all) = m + c
      /\ \A x \in 1..m : all[x] = symbols[x]
      /\ \A x \in (m + 1)..(m + c) : x - m \in 1..c /\ all[x] = new[x - m]
  <2>1. /\ symbols \o new \in Seq(Symbol)
        /\ Len(symbols \o new) = Len(symbols) + Len(new)
        /\ \A x \in 1..(Len(symbols) + Len(new)) : (symbols \o new)[x] =
              IF x <= Len(symbols) THEN symbols[x] ELSE new[x - Len(symbols)]
    BY <1>4, ConcatProperties DEF SliceInv
  <2>2. /\ all \in Seq(Symbol) /\ Len(all) = m + c
        /\ \A x \in 1..(m + c) : all[x] = IF x <= m THEN symbols[x] ELSE new[x - m]
    BY <1>4, <1>5, <1>7, <2>1
  <2>3. QED
    BY <2>2
<1>9. ASSUME NEW x \in 1..(m + c), NEW y \in 1..(m + c), all[x] = all[y]
      PROVE  x = y
  <2>1. CASE x \in 1..m /\ y \in 1..m
    BY <1>5, <1>8, <1>9, <2>1 DEF SliceInv, Distinct
  <2>2. CASE x \in (m + 1)..(m + c) /\ y \in (m + 1)..(m + c)
    BY <1>2, <1>8, <1>9, <2>2
  <2>3. CASE x \in 1..m /\ y \in (m + 1)..(m + c)
    BY <1>6, <1>8, <1>9, <2>3
  <2>4. CASE x \in (m + 1)..(m + c) /\ y \in 1..m
    BY <1>6, <1>8, <1>9, <2>4
  <2>5. QED
    BY <2>1, <2>2, <2>3, <2>4
<1>10. QED
  BY <1>4, <1>7, <1>8, <1>9 DEF Distinct

(* SymbolsUpdate, one stream: it keeps what it asked for and, if it is     *)
(* ready, asks for what the update adds to its slice.                      *)
LEMMA UpdateOfStream ==
    ASSUME SliceInv, NEW new \in Seq(Symbol), SymbolsUpdate(new), NEW k \in Kind
    PROVE  \E size \in Nat :
              /\ size >= Len(streams[k])
              /\ DOMAIN streams'[k] = 1..size /\ Len(streams'[k]) = size
              /\ DOMAIN subscribed'[k] = 1..size
              /\ \A i \in 1..size :
                    /\ streams'[k][i] <=> i <= Len(streams[k]) /\ streams[k][i]
                    /\ i <= Len(streams[k]) /\ streams[k][i] =>
                          subscribed'[k][i] = subscribed[k][i]
                              \o get_slice(symbols \o new, i, Len(symbols))
                    /\ i <= Len(streams[k]) /\ ~streams[k][i] =>
                          subscribed'[k][i] = subscribed[k][i] \o <<>>
                    /\ i > Len(streams[k]) => subscribed'[k][i] = <<>> \o <<>>
<1>1. PICK old \in Nat : old = Len(streams[k])
  BY DEF SliceInv
<1>2. Slices(symbols \o new) \in Int
  <2>1. PICK m \in Nat, M \in Nat \ {0} :
            m = Len(symbols \o new) + M - 1 /\ M = MaxSubscriptions
    <3>1. symbols \o new \in Seq(Symbol)
      BY ConcatProperties DEF SliceInv
    <3>2. Len(symbols \o new) \in Nat
      BY <3>1
    <3>3. QED
      BY <3>2, ControllerAssumption, SMTT(20)
  <2>2. m \div M \in Int
    OBVIOUS
  <2>3. QED
    BY <2>1, <2>2 DEF Slices
<1>3. PICK size : size = SlicesWithStream(k, Slices(symbols \o new))
  OBVIOUS
<1>4. size \in Nat /\ size >= old
  <2>1. PICK b \in Int : b = Slices(symbols \o new)
    BY <1>2
  <2>2. size = Max({old, b})
    BY <1>1, <1>3, <2>1 DEF SlicesWithStream
  <2>3. Max({old, b}) = IF old >= b THEN old ELSE b
    BY <1>1, MaxMinOfTwo
  <2>4. QED
    BY <1>1, <2>2, <2>3
<1>5. streams'[k] = [i \in 1..size |-> i <= Len(streams[k]) /\ streams[k][i]]
  BY <1>3 DEF SymbolsUpdate
<1>6. subscribed'[k] = [i \in 1..size |->
          (IF i <= Len(streams[k]) THEN subscribed[k][i] ELSE <<>>) \o
          (IF i <= Len(streams[k]) /\ streams[k][i]
           THEN get_slice(symbols \o new, i, Len(symbols)) ELSE <<>>)]
  BY <1>3 DEF SymbolsUpdate, StartFrom
<1>7. DOMAIN streams'[k] = 1..size /\ DOMAIN subscribed'[k] = 1..size
  BY <1>5, <1>6
<1>8. Len(streams'[k]) = size
  BY <1>4, <1>7
<1>9. ASSUME NEW i \in 1..size
      PROVE  /\ streams'[k][i] <=> i <= Len(streams[k]) /\ streams[k][i]
             /\ i <= Len(streams[k]) /\ streams[k][i] =>
                   subscribed'[k][i] = subscribed[k][i]
                       \o get_slice(symbols \o new, i, Len(symbols))
             /\ i <= Len(streams[k]) /\ ~streams[k][i] =>
                   subscribed'[k][i] = subscribed[k][i] \o <<>>
             /\ i > Len(streams[k]) => subscribed'[k][i] = <<>> \o <<>>
  <2>1. streams'[k][i] <=> i <= Len(streams[k]) /\ streams[k][i]
    BY <1>5
  <2>2. CASE i <= Len(streams[k])
    <3>1. CASE streams[k][i]
      <4>1. subscribed'[k][i] =
                subscribed[k][i] \o get_slice(symbols \o new, i, Len(symbols))
        BY <1>6, <2>2, <3>1
      <4>2. QED
        BY <1>1, <2>1, <2>2, <3>1, <4>1
    <3>2. CASE ~streams[k][i]
      <4>1. subscribed'[k][i] = subscribed[k][i] \o <<>>
        BY <1>6, <2>2, <3>2
      <4>2. QED
        BY <1>1, <2>1, <2>2, <3>2, <4>1
    <3>3. QED
      BY <3>1, <3>2
  <2>3. CASE ~(i <= Len(streams[k]))
    BY <1>1, <1>4, <1>6, <2>1, <2>3
  <2>4. QED
    BY <1>1, <2>1, <2>2, <2>3
<1>10. QED
  BY <1>1, <1>4, <1>7, <1>8, <1>9

LEMMA SliceInvUpdate ==
    ASSUME SliceInv, NEW S \in SUBSET Symbol, NEW new \in SetToSeqs(NotSeen(S)),
           SymbolsUpdate(new)
    PROVE  SliceInv'
<1>1. /\ new \in Seq(Symbol)
      /\ symbols \o new \in Seq(Symbol)
      /\ Distinct(symbols \o new)
  BY StillDistinct
<1>2. symbols' = symbols \o new
  BY DEF SymbolsUpdate
<1>3. DOMAIN streams' = Kind /\ DOMAIN subscribed' = Kind
  BY DEF SymbolsUpdate
<1>4. ASSUME NEW k \in Kind
      PROVE  /\ Len(streams'[k]) \in Nat
             /\ DOMAIN streams'[k] = 1..Len(streams'[k])
             /\ DOMAIN subscribed'[k] = 1..Len(streams'[k])
             /\ \A i \in 1..Len(streams'[k]) : subscribed'[k][i] = Asked(k, i)'
  <2>1. PICK size \in Nat :
              /\ size >= Len(streams[k])
              /\ DOMAIN streams'[k] = 1..size /\ Len(streams'[k]) = size
              /\ DOMAIN subscribed'[k] = 1..size
              /\ \A i \in 1..size :
                    /\ streams'[k][i] <=> i <= Len(streams[k]) /\ streams[k][i]
                    /\ i <= Len(streams[k]) /\ streams[k][i] =>
                          subscribed'[k][i] = subscribed[k][i]
                              \o get_slice(symbols \o new, i, Len(symbols))
                    /\ i <= Len(streams[k]) /\ ~streams[k][i] =>
                          subscribed'[k][i] = subscribed[k][i] \o <<>>
                    /\ i > Len(streams[k]) => subscribed'[k][i] = <<>> \o <<>>
    BY <1>1, UpdateOfStream
  <2>2. PICK old \in Nat : old = Len(streams[k])
    BY DEF SliceInv
  <2>3. ASSUME NEW i \in 1..size
        PROVE  subscribed'[k][i] = Asked(k, i)'
    <3>1. Asked(k, i)' = IF streams'[k][i] THEN get_slice(symbols \o new, i, 0)
                                           ELSE <<>>
      BY <1>2 DEF Asked, get_slice
    <3>2. CASE i <= old /\ streams[k][i]
      <4>1. subscribed[k][i] = get_slice(symbols, i, 0)
        BY <2>2, <3>2 DEF SliceInv, Asked
      <4>2. get_slice(symbols, i, 0) \o get_slice(symbols \o new, i, Len(symbols)) =
                get_slice(symbols \o new, i, 0)
        BY <1>1, SliceGrows DEF SliceInv
      <4>3. QED
        BY <2>1, <2>2, <3>1, <3>2, <4>1, <4>2
    <3>3. CASE i <= old /\ ~streams[k][i]
      <4>1. subscribed[k][i] = <<>>
        BY <2>2, <3>3 DEF SliceInv, Asked
      <4>2. QED
        BY <2>1, <2>2, <3>1, <3>3, <4>1
    <3>4. CASE i > old
      BY <2>1, <2>2, <3>1, <3>4
    <3>5. QED
      BY <2>2, <3>2, <3>3, <3>4
  <2>4. QED
    BY <2>1, <2>3
<1>5. QED
  BY <1>1, <1>2, <1>3, <1>4 DEF SliceInv, Distinct

LEMMA SliceInvStep == SliceInv /\ [ControllerNext]_controllerVars => SliceInv'
<1> SUFFICES ASSUME SliceInv, [ControllerNext]_controllerVars
             PROVE  SliceInv'
  OBVIOUS
<1>1. CASE UNCHANGED <<symbols, streams, subscribed>>
  BY <1>1 DEF SliceInv, Distinct, Asked, get_slice
<1>2. ASSUME NEW list \in SUBSET Symbol,
             SecurityList(list) \/ GetInstrumentsAck(list) \/ Subscribe(list)
      PROVE  SliceInv'
  <2>1. NotDiscarded(list) \in SUBSET Symbol
    BY DEF NotDiscarded
  <2>2. CASE SecurityList(list) \/ GetInstrumentsAck(list)
    BY <2>1, <2>2, SliceInvUpdate DEF SecurityList, GetInstrumentsAck
  <2>3. CASE Subscribe(list)
    BY <2>3, SliceInvUpdate DEF Subscribe
  <2>4. QED
    BY <1>2, <2>2, <2>3
<1>3. ASSUME NEW k \in Kind, NEW i \in 1..Len(streams[k]), NEW up \in BOOLEAN,
             symbols' = symbols,
             streams' = [streams EXCEPT ![k][i] = up],
             subscribed' = [subscribed EXCEPT ![k][i] =
                               IF up THEN get_slice(symbols, i, 0) ELSE <<>>]
      PROVE  SliceInv'
  <2>1. /\ DOMAIN streams' = Kind /\ DOMAIN subscribed' = Kind
        /\ \A l \in Kind \ {k} :
              streams'[l] = streams[l] /\ subscribed'[l] = subscribed[l]
        /\ streams'[k] = [streams[k] EXCEPT ![i] = up]
        /\ subscribed'[k] = [subscribed[k] EXCEPT ![i] =
                                IF up THEN get_slice(symbols, i, 0) ELSE <<>>]
    BY <1>3 DEF SliceInv
  <2>2. ASSUME NEW l \in Kind
        PROVE  /\ Len(streams'[l]) = Len(streams[l])
               /\ DOMAIN streams'[l] = 1..Len(streams[l])
               /\ DOMAIN subscribed'[l] = 1..Len(streams[l])
    <3>1. CASE l # k
      BY <2>1, <3>1 DEF SliceInv
    <3>2. CASE l = k
      <4>1. DOMAIN streams'[k] = 1..Len(streams[k])
        BY <2>1 DEF SliceInv
      <4>2. DOMAIN subscribed'[k] = 1..Len(streams[k])
        BY <2>1 DEF SliceInv
      <4>3. PICK n \in Nat : n = Len(streams[k])
        BY DEF SliceInv
      <4>4. Len(streams'[k]) = n
        BY <4>1, <4>3
      <4>5. QED
        BY <3>2, <4>1, <4>2, <4>3, <4>4
    <3>3. QED
      BY <3>1, <3>2
  <2>3. ASSUME NEW l \in Kind, NEW j \in 1..Len(streams[l])
        PROVE  subscribed'[l][j] = Asked(l, j)'
    <3>1. Asked(l, j)' = IF streams'[l][j] THEN get_slice(symbols, j, 0) ELSE <<>>
      BY <1>3 DEF Asked, get_slice
    <3>2. CASE l = k /\ j = i
      <4>1. subscribed'[k][i] = IF up THEN get_slice(symbols, i, 0) ELSE <<>>
        BY <2>1 DEF SliceInv
      <4>2. streams'[k][i] = up
        BY <2>1 DEF SliceInv
      <4>3. QED
        BY <3>1, <3>2, <4>1, <4>2
    <3>3. CASE l # k \/ j # i
      <4>1. streams'[l][j] = streams[l][j] /\ subscribed'[l][j] = subscribed[l][j]
        BY <2>1, <3>3 DEF SliceInv
      <4>2. subscribed[l][j] = Asked(l, j)
        BY DEF SliceInv
      <4>3. QED
        BY <3>1, <4>1, <4>2 DEF Asked
    <3>4. QED
      BY <3>2, <3>3
  <2>4. symbols' \in Seq(Symbol) /\ Distinct(symbols')
    BY <1>3 DEF SliceInv
  <2>5. \A l \in Kind : Len(streams[l]) \in Nat
    BY DEF SliceInv
  <2>6. QED
    BY <2>1, <2>2, <2>3, <2>4, <2>5 DEF SliceInv, Distinct
<1>4. ASSUME NEW k \in Kind, NEW i \in 1..Len(streams[k]),
             StreamReady(k, i) \/ StreamDisconnected(k, i)
      PROVE  SliceInv'
  <2>1. CASE StreamReady(k, i)
    BY <1>3, <2>1 DEF StreamReady
  <2>2. CASE StreamDisconnected(k, i)
    BY <1>3, <2>2 DEF StreamDisconnected
  <2>3. QED
    BY <1>4, <2>1, <2>2
<1>5. ASSUME NEW i \in 1..Len(top_of_book), NEW s \in Symbol, Quote(i, s)
      PROVE  SliceInv'
  BY <1>1, <1>5 DEF Quote
<1>6. QED
  BY <1>1, <1>2, <1>4, <1>5 DEF ControllerNext, controllerVars

LEMMA SliceInvInit == ControllerInit => SliceInv
<1> SUFFICES ASSUME ControllerInit
             PROVE  SliceInv
  OBVIOUS
<1>1. /\ symbols = <<>>
      /\ streams = [k \in Kind |-> <<FALSE>>]
      /\ subscribed = [k \in Kind |-> << <<>> >>]
  BY DEF ControllerInit
<1>2. symbols \in Seq(Symbol) /\ Distinct(symbols)
  BY <1>1 DEF Distinct
<1>3. ASSUME NEW k \in Kind
      PROVE  /\ Len(streams[k]) \in Nat
             /\ DOMAIN streams[k] = 1..Len(streams[k])
             /\ DOMAIN subscribed[k] = 1..Len(streams[k])
             /\ \A i \in 1..Len(streams[k]) : subscribed[k][i] = Asked(k, i)
  <2>1. streams[k] = <<FALSE>> /\ subscribed[k] = << <<>> >>
    BY <1>1
  <2>2. Len(streams[k]) = 1 /\ streams[k][1] = FALSE /\ subscribed[k][1] = <<>>
    BY <2>1
  <2>3. DOMAIN streams[k] = 1..1 /\ DOMAIN subscribed[k] = 1..1
    BY <2>1
  <2>4. QED
    BY <2>2, <2>3 DEF Asked
<1>4. QED
  BY <1>1, <1>2, <1>3 DEF SliceInv

LEMMA SliceInvAlways == ControllerSpec => []SliceInv
  BY SliceInvInit, SliceInvStep, PTL DEF ControllerSpec

(* What a ready stream asked for is its slice. *)
LEMMA AskedIsSlice ==
    ASSUME SliceInv, NEW k \in Kind, NEW i \in 1..Len(streams[k]), streams[k][i]
    PROVE  \E b \in Nat :
              /\ subscribed[k][i] \in Seq(Symbol)
              /\ \A x \in DOMAIN subscribed[k][i] :
                    /\ b + x \in 1..Len(symbols)
                    /\ SliceOf(b + x) = i
                    /\ subscribed[k][i][x] = symbols[b + x]
              /\ \A n \in 1..Len(symbols) : SliceOf(n) = i =>
                    /\ n - b \in DOMAIN subscribed[k][i]
                    /\ subscribed[k][i][n - b] = symbols[n]
<1>1. i \in Nat \ {0} /\ symbols \in Seq(Symbol)
  BY DEF SliceInv
<1>2. subscribed[k][i] = get_slice(symbols, i, 0)
  BY DEF SliceInv, Asked
<1>3. Begin(i) \in Nat
  BY <1>1, BeginAndEnd
<1>4. /\ get_slice(symbols, i, 0) \in Seq(Symbol)
      /\ \A x \in DOMAIN get_slice(symbols, i, 0) :
            /\ Begin(i) + x \in 1..Len(symbols)
            /\ SliceOf(Begin(i) + x) = i
            /\ get_slice(symbols, i, 0)[x] = symbols[Begin(i) + x]
      /\ \A n \in 1..Len(symbols) : SliceOf(n) = i =>
            /\ n - Begin(i) \in DOMAIN get_slice(symbols, i, 0)
            /\ get_slice(symbols, i, 0)[n - Begin(i)] = symbols[n]
  BY <1>1, SliceHas, Zenon
<1>5. WITNESS Begin(i) \in Nat
<1>6. QED
  BY <1>2, <1>4

LEMMA SlicesAreDisjoint ==
    ASSUME SliceInv, NEW k \in Kind,
           NEW i \in 1..Len(streams[k]), NEW j \in 1..Len(streams[k]), i # j
    PROVE  Range(subscribed[k][j]) \cap Range(subscribed[k][i]) = {}
<1>1. SUFFICES ASSUME NEW x \in DOMAIN subscribed[k][i],
                      NEW y \in DOMAIN subscribed[k][j],
                      subscribed[k][i][x] = subscribed[k][j][y]
               PROVE  FALSE
  BY DEF Range
<1>2. streams[k][i] /\ streams[k][j]
  BY <1>1 DEF SliceInv, Asked
<1>3. PICK m \in 1..Len(symbols), n \in 1..Len(symbols) :
         /\ SliceOf(m) = i /\ subscribed[k][i][x] = symbols[m]
         /\ SliceOf(n) = j /\ subscribed[k][j][y] = symbols[n]
  <2>1. PICK b \in Nat : \A z \in DOMAIN subscribed[k][i] :
            /\ b + z \in 1..Len(symbols)
            /\ SliceOf(b + z) = i
            /\ subscribed[k][i][z] = symbols[b + z]
    BY <1>2, AskedIsSlice
  <2>2. PICK c \in Nat : \A z \in DOMAIN subscribed[k][j] :
            /\ c + z \in 1..Len(symbols)
            /\ SliceOf(c + z) = j
            /\ subscribed[k][j][z] = symbols[c + z]
    BY <1>2, AskedIsSlice
  <2>3. QED
    BY <1>1, <2>1, <2>2
<1>4. QED
  BY <1>1, <1>2, <1>3 DEF SliceInv, Distinct

(* Whatever lists FIX, REST and clients bring, and whenever streams come   *)
(* and go: a stream that is ready has asked for each symbol of its slice   *)
(* once and for none of another stream; one that is not has asked for none.*)
THEOREM EachSymbolIsAskedOnce == ControllerSpec => []EachSymbolOnce
<1>1. SliceInv => EachSymbolOnce
  <2> SUFFICES ASSUME SliceInv, NEW k \in Kind, NEW i \in 1..Len(streams[k])
               PROVE  /\ Range(subscribed[k][i]) =
                            {symbols[n] : n \in {m \in 1..Len(symbols) :
                                             streams[k][i] /\ SliceOf(m) = i}}
                      /\ IsInjective(subscribed[k][i])
    BY SlicesAreDisjoint DEF EachSymbolOnce
  <2>1. i \in Nat \ {0}
    BY DEF SliceInv
  <2>2. CASE ~streams[k][i]
    <3>1. subscribed[k][i] = <<>>
      BY <2>2 DEF SliceInv, Asked
    <3>2. QED
      BY <2>2, <3>1 DEF Range, IsInjective
  <2>3. CASE streams[k][i]
    <3>1. PICK g : g = subscribed[k][i]
      OBVIOUS
    <3>2. PICK b \in Nat :
          /\ g \in Seq(Symbol)
          /\ \A x \in DOMAIN g : /\ b + x \in 1..Len(symbols)
                                 /\ SliceOf(b + x) = i
                                 /\ g[x] = symbols[b + x]
          /\ \A n \in 1..Len(symbols) : SliceOf(n) = i =>
                n - b \in DOMAIN g /\ g[n - b] = symbols[n]
      BY <2>3, <3>1, AskedIsSlice
    <3>3. Range(g) = {symbols[n] : n \in {m \in 1..Len(symbols) : SliceOf(m) = i}}
      <4>1. \A x \in DOMAIN g : \E n \in 1..Len(symbols) :
                SliceOf(n) = i /\ g[x] = symbols[n]
        BY <3>2
      <4>2. \A n \in 1..Len(symbols) : SliceOf(n) = i =>
                \E x \in DOMAIN g : g[x] = symbols[n]
        BY <3>2
      <4>3. QED
        BY <4>1, <4>2 DEF Range
    <3>4. DOMAIN g \subseteq Nat
      BY <3>2
    <3>5. ASSUME NEW x \in DOMAIN g, NEW y \in DOMAIN g, g[x] = g[y]
          PROVE  x = y
      <4>1. /\ b + x \in 1..Len(symbols) /\ b + y \in 1..Len(symbols)
            /\ symbols[b + x] = symbols[b + y]
        BY <3>2, <3>5
      <4>2. Distinct(symbols)
        BY DEF SliceInv
      <4>3. b + x = b + y
        BY <4>1, <4>2, Zenon DEF Distinct
      <4>4. QED
        BY <3>2, <3>4, <4>3
    <3>6. QED
      BY <2>3, <3>1, <3>3, <3>5 DEF IsInjective
  <2>4. QED
    BY <2>2, <2>3
<1>2. QED
  BY <1>1, SliceInvAlways, PTL

-----------------------------------------------------------------------------
(* Multipliers.  A listed symbol has one, so that a quote of it is kept.   *)
MultiplierInv ==
    /\ DOMAIN top_of_book = 1..Len(top_of_book)
    /\ listed \subseteq multiplier
    /\ TopOfBookWorks

(* Whichever of FIX, REST and clients brought a symbol first, once it is   *)
(* listed no quote of it is dropped for want of a multiplier.              *)
THEOREM QuotesOfListedArePublished == ControllerSpec => []TopOfBookWorks
<1>1. ControllerInit => MultiplierInv
  BY DEF ControllerInit, MultiplierInv, TopOfBookWorks
<1>2. SliceInv /\ MultiplierInv /\ [ControllerNext]_controllerVars => MultiplierInv'
  <2> SUFFICES ASSUME SliceInv, MultiplierInv, [ControllerNext]_controllerVars
               PROVE  MultiplierInv'
    OBVIOUS
  <2> USE DEF MultiplierInv, TopOfBookWorks
  <2>1. CASE UNCHANGED <<top_of_book, listed, multiplier, unpriced>>
    BY <2>1
  <2>2. ASSUME NEW list \in SUBSET Symbol,
               SecurityList(list) \/ GetInstrumentsAck(list) \/ Subscribe(list)
        PROVE  MultiplierInv'
    <3>1. PICK S \in SUBSET Symbol : \E new \in SetToSeqs(NotSeen(S)) : SymbolsUpdate(new)
      <4>1. NotDiscarded(list) \in SUBSET Symbol
        BY DEF NotDiscarded
      <4>2. QED
        BY <2>2, <4>1, Zenon DEF SecurityList, GetInstrumentsAck, Subscribe
    <3>2. PICK new \in SetToSeqs(NotSeen(S)) : SymbolsUpdate(new)
      BY <3>1
    <3>3. PICK size \in Nat :
              top_of_book' = [i \in 1..size |->
                  IF i <= Len(top_of_book) THEN top_of_book[i] ELSE {}]
      <4>1. new \in Seq(Symbol)
        BY <3>2, StillDistinct
      <4>2. "web_socket" \in Kind
        BY DEF Kind
      <4>3. PICK size \in Nat : DOMAIN streams'["web_socket"] = 1..size
        BY <3>2, <4>1, <4>2, UpdateOfStream
      <4>4. DOMAIN streams'["web_socket"] =
                1..SlicesWithStream("web_socket", Slices(symbols \o new))
        BY <3>2, <4>2 DEF SymbolsUpdate
      <4>5. QED
        BY <3>2, <4>3, <4>4 DEF SymbolsUpdate
    <3>4. DOMAIN top_of_book' = 1..Len(top_of_book')
      BY <3>3
    <3>5. listed' \subseteq multiplier' /\ unpriced' = unpriced
      BY <2>2 DEF SecurityList, GetInstrumentsAck, Subscribe, MultipliersOf
    <3>6. QED
      BY <3>4, <3>5
  <2>3. ASSUME NEW i \in 1..Len(top_of_book), NEW s \in Symbol, Quote(i, s)
        PROVE  MultiplierInv'
    <3>1. /\ top_of_book' = [top_of_book EXCEPT ![i] = get_top_of_book(@, s)]
          /\ unpriced' = unpriced \cup (({s} \cap listed) \ top_of_book'[i])
          /\ UNCHANGED <<listed, multiplier>>
      BY <2>3 DEF Quote
    <3>2. {s} \cap multiplier \subseteq top_of_book'[i]
      BY <3>1 DEF get_top_of_book
    <3>3. DOMAIN top_of_book' = 1..Len(top_of_book')
      BY <3>1
    <3>4. QED
      BY <3>1, <3>2, <3>3
  <2>4. ASSUME NEW k \in Kind, NEW i \in 1..Len(streams[k]),
               StreamReady(k, i) \/ StreamDisconnected(k, i)
        PROVE  MultiplierInv'
    BY <2>1, <2>4 DEF StreamReady, StreamDisconnected
  <2>5. QED
    BY <2>1, <2>2, <2>3, <2>4 DEF ControllerNext, controllerVars
<1>3. MultiplierInv => TopOfBookWorks
  BY DEF MultiplierInv
<1>4. QED
  BY <1>1, <1>2, <1>3, SliceInvAlways, PTL DEF ControllerSpec
=============================================================================
