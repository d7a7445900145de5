-------------------------- MODULE OpenAIClientProofs --------------------------
(***************************************************************************)
(* Proofs about OpenAIClient for runs of any length with any number of     *)
(* calls in a response: every request can be formed, puts the whole        *)
(* conversation before the model, and answers the native calls it holds.   *)
(***************************************************************************)
EXTENDS OpenAIClient, TLAPS, SequenceTheorems, FiniteSetTheorems, WellFoundedInduction

-----------------------------------------------------------------------------
(* Counting, and the folds of the library.                                  *)

\* Every set of numbers that is not empty has a least one.
LEMMA LeastOf ==
    ASSUME NEW S, S \subseteq Nat, S # {}
    PROVE  \E least \in S : \A i \in S : least <= i
<1>1. PICK least \in S : \A i \in S : ~(<<i, least>> \in OpToRel(<, Nat))
    BY NatLessThanWellFounded, WFMin
<1>2. \A i \in S : ~(i < least)
    BY <1>1 DEF OpToRel
<1> QED
    BY <1>2

\* A set that holds 0, and with each number the next one, holds all of them.
LEMMA CountUp ==
    ASSUME NEW n \in Nat, NEW good, 0 \in good,
           \A k \in 1 .. n : k - 1 \in good => k \in good
    PROVE  \A k \in 0 .. n : k \in good
<1> DEFINE bad == {k \in 0 .. n : k \notin good}
<1>1. bad \subseteq Nat
    OBVIOUS
<1>2. ASSUME bad # {} PROVE FALSE
    <2>1. PICK k \in bad : \A i \in bad : k <= i
        <3> HIDE DEF bad
        <3> QED
            BY <1>1, <1>2, LeastOf
    <2>2. k # 0
        OBVIOUS
    <2>3. k \in 1 .. n /\ k - 1 \in 0 .. n /\ ~(k <= k - 1)
        BY <2>2
    <2>4. k - 1 \in good
        BY <2>1, <2>3
    <2> QED
        BY <2>3, <2>4
<1> QED
    BY <1>2

\* The last of a set of places.
LEMMA LastOf ==
    ASSUME NEW s, NEW last \in s, s \subseteq Nat, \A i \in s : i <= last
    PROVE  Max(s) = last
<1>1. \A y \in s : last >= y
    OBVIOUS
<1>2. \A x \in s : (\A y \in s : x >= y) => x = last
    OBVIOUS
<1> QED
    BY <1>1, <1>2 DEF Max

\* A function that joins the first sequences of a sequence.
Joins(f, seqs) ==
    f = [i \in 1 .. Len(seqs) |-> IF i = 1 THEN seqs[i] ELSE f[i - 1] \o seqs[i]]

\* There is such a function.
LEMMA JoinExists ==
    ASSUME NEW S, NEW seqs \in Seq(Seq(S))
    PROVE  \E f : Joins(f, seqs) /\ f \in [1 .. Len(seqs) -> Seq(S)]
<1> DEFINE Upto(n, f) ==
              /\ f \in [1 .. n -> Seq(S)]
              /\ \A i \in 1 .. n : f[i] = IF i = 1 THEN seqs[i] ELSE f[i - 1] \o seqs[i]
           good == {n \in 0 .. Len(seqs) : \E f : Upto(n, f)}
<1>1. Len(seqs) \in Nat /\ \A i \in 1 .. Len(seqs) : seqs[i] \in Seq(S)
    OBVIOUS
<1>2. 0 \in good
    <2>1. \E f : Upto(0, f)
        <3> DEFINE none == [i \in 1 .. 0 |-> <<>>]
        <3>1. Upto(0, none)
            OBVIOUS
        <3> HIDE DEF none, Upto
        <3> QED
            BY <3>1
    <2>2. 0 \in 0 .. Len(seqs)
        BY <1>1
    <2> HIDE DEF Upto
    <2> QED
        BY <2>1, <2>2
<1>3. ASSUME NEW n \in 1 .. Len(seqs), n - 1 \in good
      PROVE  n \in good
    <2>1. PICK f : Upto(n - 1, f)
        BY <1>3
    <2>2. n \in Nat \ {0} /\ n \in 0 .. Len(seqs)
        BY <1>1
    <2> DEFINE last == IF n = 1 THEN seqs[n] ELSE f[n - 1] \o seqs[n]
               longer == [i \in 1 .. n |-> IF i = n THEN last ELSE f[i]]
    <2>3. last \in Seq(S)
        <3>1. n # 1 => n - 1 \in 1 .. (n - 1)
            BY <2>2
        <3>2. n # 1 => f[n - 1] \in Seq(S)
            BY <2>1, <3>1
        <3>3. n # 1 => f[n - 1] \o seqs[n] \in Seq(S)
            BY <1>1, <3>2, ConcatProperties
        <3> QED
            BY <1>1, <3>3
    <2>4. \A i \in 1 .. n : i # n => i \in 1 .. (n - 1)
        BY <2>2
    <2>5. longer \in [1 .. n -> Seq(S)]
        <3>1. \A i \in 1 .. n : i # n => f[i] \in Seq(S)
            BY <2>1, <2>4
        <3> HIDE DEF last
        <3> QED
            BY <2>3, <3>1
    <2>6. ASSUME NEW i \in 1 .. n
          PROVE  longer[i] = IF i = 1 THEN seqs[i] ELSE longer[i - 1] \o seqs[i]
        <3>1. i # 1 => i - 1 \in 1 .. n /\ i - 1 # n
            BY <2>2
        <3>2. i # 1 => longer[i - 1] = f[i - 1]
            BY <3>1
        <3>3. CASE i = n
            BY <3>2, <3>3
        <3>4. CASE i # n
            <4>1. f[i] = IF i = 1 THEN seqs[i] ELSE f[i - 1] \o seqs[i]
                BY <2>1, <2>4, <3>4
            <4>2. longer[i] = f[i]
                BY <3>4
            <4> HIDE DEF longer
            <4> QED
                BY <3>2, <4>1, <4>2
        <3> QED
            BY <3>3, <3>4
    <2>7. Upto(n, longer)
        <3> HIDE DEF longer
        <3> QED
            BY <2>5, <2>6
    <2> QED
        BY <2>2, <2>7
<1>4. Len(seqs) \in good
    <2>1. Len(seqs) \in 0 .. Len(seqs)
        BY <1>1
    <2> HIDE DEF good
    <2> QED
        BY <1>1, <1>2, <1>3, <2>1, CountUp
<1>5. PICK f : Upto(Len(seqs), f)
    BY <1>4
<1>6. f = [i \in 1 .. Len(seqs) |-> IF i = 1 THEN seqs[i] ELSE f[i - 1] \o seqs[i]]
    BY <1>5
<1> QED
    BY <1>5, <1>6 DEF Joins

\* FlattenSeq is what such a function comes to.
LEMMA FlattenJoins ==
    ASSUME NEW S, NEW seqs \in Seq(Seq(S))
    PROVE  /\ Len(seqs) = 0 => FlattenSeq(seqs) = <<>>
           /\ Len(seqs) # 0 => \E f : /\ Joins(f, seqs)
                                      /\ f \in [1 .. Len(seqs) -> Seq(S)]
                                      /\ FlattenSeq(seqs) = f[Len(seqs)]
<1>1. ASSUME Len(seqs) = 0 PROVE FlattenSeq(seqs) = <<>>
    <2>1. seqs = <<>>
        BY <1>1, EmptySeq
    <2> QED
        BY <1>1, <2>1 DEF FlattenSeq
<1>2. ASSUME Len(seqs) # 0
      PROVE  \E f : /\ Joins(f, seqs)
                    /\ f \in [1 .. Len(seqs) -> Seq(S)]
                    /\ FlattenSeq(seqs) = f[Len(seqs)]
    <2> DEFINE flatten[i \in 1 .. Len(seqs)] ==
            IF i = 1 THEN seqs[i] ELSE flatten[i - 1] \o seqs[i]
    <2>1. FlattenSeq(seqs) = flatten[Len(seqs)]
        BY <1>2 DEF FlattenSeq
    <2>2. PICK g : g = (CHOOSE h : Joins(h, seqs))
        OBVIOUS
    <2>3. flatten = g
        BY <2>2 DEF Joins
    <2> HIDE DEF flatten
    <2>4. Joins(g, seqs)
        BY <2>2, JoinExists
    <2>5. PICK f : Joins(f, seqs) /\ f \in [1 .. Len(seqs) -> Seq(S)]
        BY JoinExists
    <2>6. Len(seqs) \in Nat \ {0}
        BY <1>2
    <2> DEFINE good == {n \in 0 .. Len(seqs) : n = 0 \/ g[n] = f[n]}
    <2>7. 0 \in good
        BY <2>6
    <2>8. ASSUME NEW n \in 1 .. Len(seqs), n - 1 \in good
          PROVE  n \in good
        <3>1. n \in Nat \ {0} /\ n \in 0 .. Len(seqs)
            BY <2>6
        <3>2. g[n] = IF n = 1 THEN seqs[n] ELSE g[n - 1] \o seqs[n]
            BY <2>4 DEF Joins
        <3>3. f[n] = IF n = 1 THEN seqs[n] ELSE f[n - 1] \o seqs[n]
            BY <2>5 DEF Joins
        <3>4. n = 1 \/ g[n - 1] = f[n - 1]
            BY <2>8, <3>1
        <3> QED
            BY <3>1, <3>2, <3>3, <3>4
    <2>9. Len(seqs) \in good
        <3>1. Len(seqs) \in 0 .. Len(seqs) /\ Len(seqs) \in Nat
            BY <2>6
        <3> HIDE DEF good
        <3> QED
            BY <2>7, <2>8, <3>1, CountUp
    <2>10. g[Len(seqs)] = f[Len(seqs)]
        BY <2>6, <2>9
    <2> QED
        BY <2>1, <2>3, <2>5, <2>10
<1> QED
    BY <1>1, <1>2

\* A sequence flattened is a sequence, and one sequence more is put behind it.
LEMMA FlattenMore ==
    ASSUME NEW S, NEW seqs \in Seq(Seq(S)), NEW more \in Seq(S)
    PROVE  /\ FlattenSeq(seqs) \in Seq(S)
           /\ FlattenSeq(Append(seqs, more)) = FlattenSeq(seqs) \o more
<1> DEFINE longer == Append(seqs, more)
           n == Len(seqs)
<1>1. /\ n \in Nat /\ longer \in Seq(Seq(S)) /\ Len(longer) = n + 1 /\ n + 1 # 0
      /\ longer[n + 1] = more /\ \A i \in 1 .. n : longer[i] = seqs[i]
    OBVIOUS
<1> HIDE DEF longer
<1>2. PICK g : /\ Joins(g, longer) /\ FlattenSeq(longer) = g[n + 1]
              /\ g \in [1 .. (n + 1) -> Seq(S)]
    BY <1>1, FlattenJoins
<1>3. g[n + 1] = IF n = 0 THEN more ELSE g[n] \o more
    <2>1. n + 1 \in 1 .. (n + 1) /\ (n + 1) - 1 = n /\ (n + 1 = 1 <=> n = 0)
        BY <1>1
    <2>2. g[n + 1] = IF n + 1 = 1 THEN longer[n + 1] ELSE g[(n + 1) - 1] \o longer[n + 1]
        BY <1>1, <1>2, <2>1 DEF Joins
    <2> QED
        BY <1>1, <2>1, <2>2
<1>4. CASE n = 0
    <2>1. FlattenSeq(seqs) = <<>>
        BY <1>4, FlattenJoins
    <2>2. <<>> \in Seq(S) /\ <<>> \o more = more
        BY ConcatEmptySeq, EmptySeq
    <2> QED
        BY <1>2, <1>3, <1>4, <2>1, <2>2 DEF longer
<1>5. CASE n # 0
    <2>1. PICK f : /\ Joins(f, seqs) /\ f \in [1 .. n -> Seq(S)] /\ FlattenSeq(seqs) = f[n]
        BY <1>5, FlattenJoins
    <2> DEFINE good == {k \in 0 .. n : k = 0 \/ g[k] = f[k]}
    <2>2. 0 \in good
        BY <1>1
    <2>3. ASSUME NEW k \in 1 .. n, k - 1 \in good
          PROVE  k \in good
        <3>1. k \in Nat \ {0} /\ k \in 0 .. n /\ k \in 1 .. (n + 1)
            BY <1>1
        <3>2. g[k] = IF k = 1 THEN longer[k] ELSE g[k - 1] \o longer[k]
            BY <1>1, <1>2, <3>1 DEF Joins
        <3>3. f[k] = IF k = 1 THEN seqs[k] ELSE f[k - 1] \o seqs[k]
            BY <2>1 DEF Joins
        <3>4. k = 1 \/ g[k - 1] = f[k - 1]
            BY <2>3, <3>1
        <3>5. longer[k] = seqs[k]
            BY <1>1
        <3> QED
            BY <3>1, <3>2, <3>3, <3>4, <3>5
    <2>4. n \in good
        <3>1. n \in 0 .. n /\ n \in Nat
            BY <1>1
        <3> HIDE DEF good, n
        <3> QED
            BY <2>2, <2>3, <3>1, CountUp
    <2>5. g[n] = f[n] /\ n \in 1 .. n
        BY <1>1, <1>5, <2>4
    <2>6. f[n] \in Seq(S)
        BY <2>1, <2>5
    <2> QED
        BY <1>2, <1>3, <1>5, <2>1, <2>5, <2>6 DEF longer
<1> QED
    BY <1>4, <1>5

-----------------------------------------------------------------------------
(* Entries, the selection of one kind, and what a context says.             *)

\* An entry is one of the set if its parts are.
LEMMA EntryType ==
    ASSUME NEW kind \in Kinds, NEW turn \in 0 .. MaxTurns, NEW index \in 0 .. MaxCalls
    PROVE  Entry(kind, turn, index) \in EntrySet
BY DEF Entry, EntrySet

\* The entries of a kind in a turn, and one more of them.
LEMMA EntriesGrow ==
    ASSUME NEW kind \in Kinds, NEW turn \in 0 .. MaxTurns, NEW n \in 0 .. MaxCalls
    PROVE  /\ Entries(kind, turn, n) \in Seq(EntrySet)
           /\ Len(Entries(kind, turn, n)) = n
           /\ \A k \in 1 .. n : Entries(kind, turn, n)[k] = Entry(kind, turn, k)
           /\ Entries(kind, turn, 0) = <<>>
           /\ n # 0 => Entries(kind, turn, n)
                           = Append(Entries(kind, turn, n - 1), Entry(kind, turn, n))
<1> DEFINE all(m) == Entries(kind, turn, m)
<1>1. MaxCalls \in Nat /\ n \in Nat /\ n <= MaxCalls
    BY BoundsAssumption
<1>2. ASSUME NEW m \in 0 .. n
      PROVE  /\ all(m) \in Seq(EntrySet) /\ Len(all(m)) = m
             /\ \A k \in 1 .. m : all(m)[k] = Entry(kind, turn, k)
    <2>1. m \in Nat /\ 1 .. m \subseteq 0 .. MaxCalls
        BY <1>1
    <2>2. \A k \in 1 .. m : Entry(kind, turn, k) \in EntrySet
        BY <2>1, EntryType
    <2> HIDE DEF EntrySet
    <2> QED
        BY <2>1, <2>2 DEF Entries
<1>3. all(0) = <<>>
    <2>1. 0 \in 0 .. n
        BY <1>1
    <2>2. all(0) \in Seq(EntrySet) /\ Len(all(0)) = 0
        BY <1>2, <2>1
    <2> HIDE DEF all
    <2> QED
        BY <2>2, EmptySeq
<1>4. ASSUME n # 0
      PROVE  all(n) = Append(all(n - 1), Entry(kind, turn, n))
    <2>1. n - 1 \in 0 .. n /\ n \in 0 .. n /\ n \in 0 .. MaxCalls /\ (n - 1) + 1 = n
        BY <1>1, <1>4
    <2>2. Entry(kind, turn, n) \in EntrySet
        BY <2>1, EntryType
    <2> DEFINE a == all(n)
               b == all(n - 1)
               e == Entry(kind, turn, n)
    <2>3. /\ a \in Seq(EntrySet) /\ Len(a) = n
          /\ \A k \in 1 .. n : a[k] = Entry(kind, turn, k)
        BY <1>2, <2>1
    <2>4. /\ b \in Seq(EntrySet) /\ Len(b) = n - 1
          /\ \A k \in 1 .. (n - 1) : b[k] = Entry(kind, turn, k)
        BY <1>2, <2>1
    <2> HIDE DEF a, b
    <2>5. /\ Append(b, e) \in Seq(EntrySet) /\ Len(Append(b, e)) = n
          /\ \A k \in 1 .. n : Append(b, e)[k] = IF k = n THEN e ELSE b[k]
        <3> HIDE DEF e
        <3> QED
            BY <1>1, <2>1, <2>2, <2>4, AppendProperties DEF e
    <2>6. \A k \in 1 .. n : k # n => k \in 1 .. (n - 1)
        BY <1>1
    <2>7. \A k \in 1 .. n : Append(b, e)[k] = a[k]
        BY <2>3, <2>4, <2>5, <2>6
    <2>8. Append(b, e) = a
        <3> HIDE DEF e
        <3> QED
            BY <2>3, <2>5, <2>7, SeqEqual
    <2> QED
        BY <2>8 DEF a, b
<1>5. n \in 0 .. n
    BY <1>1
<1> QED
    BY <1>2, <1>3, <1>4, <1>5

\* What is chosen of a sequence of one entry more.
LEMMA OfKindMore ==
    ASSUME NEW kind, NEW entries \in Seq(EntrySet), NEW e \in EntrySet
    PROVE  /\ OfKind(kind, entries) \in Seq(EntrySet)
           /\ OfKind(kind, Append(entries, e)) =
                  IF e.kind = kind THEN Append(OfKind(kind, entries), e) ELSE OfKind(kind, entries)
<1> DEFINE Chosen(m) == IF m.kind = kind THEN <<m>> ELSE <<>>
           chosen(s) == [i \in DOMAIN s |-> Chosen(s[i])]
           longer == Append(entries, e)
<1>1. \A m \in EntrySet : Chosen(m) \in Seq(EntrySet)
    <2> HIDE DEF EntrySet
    <2> QED
        OBVIOUS
<1>2. /\ Len(entries) \in Nat /\ DOMAIN entries = 1 .. Len(entries)
      /\ longer \in Seq(EntrySet) /\ Len(longer) = Len(entries) + 1
      /\ DOMAIN longer = 1 .. (Len(entries) + 1)
      /\ longer[Len(entries) + 1] = e /\ \A i \in 1 .. Len(entries) : longer[i] = entries[i]
    <2> HIDE DEF EntrySet
    <2> QED
        OBVIOUS
<1>3. \A i \in 1 .. Len(entries) : entries[i] \in EntrySet
    OBVIOUS
<1> HIDE DEF longer, Chosen, EntrySet
<1>4. /\ chosen(entries) \in Seq(Seq(EntrySet)) /\ Len(chosen(entries)) = Len(entries)
      /\ \A i \in 1 .. Len(entries) : chosen(entries)[i] = Chosen(entries[i])
    BY <1>1, <1>2, <1>3
<1>5. chosen(longer) = Append(chosen(entries), Chosen(e))
    <2> DEFINE a == chosen(longer)
               b == Append(chosen(entries), Chosen(e))
    <2>1. /\ a \in Seq(Seq(EntrySet)) /\ Len(a) = Len(entries) + 1
          /\ \A i \in 1 .. (Len(entries) + 1) : a[i] = Chosen(longer[i])
        <3>1. \A i \in 1 .. (Len(entries) + 1) : longer[i] \in EntrySet
            BY <1>2
        <3> QED
            BY <1>1, <1>2, <3>1
    <2>2. Chosen(e) \in Seq(EntrySet)
        BY <1>1
    <2>3. /\ b \in Seq(Seq(EntrySet)) /\ Len(b) = Len(entries) + 1
          /\ \A i \in 1 .. (Len(entries) + 1) :
                b[i] = IF i = Len(entries) + 1 THEN Chosen(e) ELSE chosen(entries)[i]
        <3> HIDE DEF chosen
        <3> QED
            BY <1>4, <2>2, AppendProperties
    <2>4. \A i \in 1 .. (Len(entries) + 1) : i = Len(entries) + 1 \/ i \in 1 .. Len(entries)
        BY <1>2
    <2> HIDE DEF a, b
    <2>5. \A i \in 1 .. (Len(entries) + 1) : a[i] = b[i]
        BY <1>2, <1>4, <2>1, <2>3, <2>4
    <2>6. a = b
        BY <2>1, <2>3, <2>5, SeqEqual
    <2> QED
        BY <2>6 DEF a, b
<1>6. OfKind(kind, entries) = FlattenSeq(chosen(entries))
    BY DEF OfKind, Chosen
<1>7. OfKind(kind, longer) = FlattenSeq(chosen(longer))
    BY DEF OfKind, Chosen
<1> HIDE DEF chosen
<1>8. /\ OfKind(kind, entries) \in Seq(EntrySet)
      /\ OfKind(kind, longer) = OfKind(kind, entries) \o Chosen(e)
    <2>1. Chosen(e) \in Seq(EntrySet)
        BY <1>1
    <2> QED
        BY <1>4, <1>5, <1>6, <1>7, <2>1, FlattenMore
<1>9. OfKind(kind, entries) \o Chosen(e) =
          IF e.kind = kind THEN Append(OfKind(kind, entries), e) ELSE OfKind(kind, entries)
    BY <1>8, AppendIsConcat, ConcatEmptySeq DEF Chosen
<1> QED
    BY <1>8, <1>9 DEF longer

\* What the model is told by an entry is part of the conversation.
LEMMA ToldType == ASSUME NEW e \in EntrySet PROVE Told(e) \in Seq(EntrySet)
<1>1. e.kind \in Kinds /\ e.turn \in 0 .. MaxTurns /\ e.index \in 0 .. MaxCalls
    BY DEF EntrySet
<1>2. Entry("tool", e.turn, e.index) \in EntrySet
    BY <1>1, EntryType DEF Kinds
<1>3. Entries("tool", e.turn, e.index) \in Seq(EntrySet)
    BY <1>1, EntriesGrow DEF Kinds
<1> HIDE DEF EntrySet
<1>4. CASE e.kind = "call"
    BY <1>4 DEF Told
<1>5. CASE e.kind = "call_output"
    BY <1>2, <1>5 DEF Told
<1>6. CASE e.kind = "results"
    BY <1>3, <1>6 DEF Told
<1>7. CASE e.kind \notin {"call", "call_output", "results"}
    BY <1>7 DEF Told
<1> QED
    BY <1>4, <1>5, <1>6, <1>7

\* What a context of one entry more says.
LEMMA SaysMore ==
    ASSUME NEW context \in Seq(EntrySet), NEW e \in EntrySet
    PROVE  /\ Says(context) \in Seq(EntrySet)
           /\ Says(Append(context, e)) = Says(context) \o Told(e)
<1> DEFINE told(s) == [i \in DOMAIN s |-> Told(s[i])]
           longer == Append(context, e)
<1> HIDE DEF EntrySet
<1>1. \A m \in EntrySet : Told(m) \in Seq(EntrySet)
    BY ToldType
<1>2. /\ Len(context) \in Nat /\ DOMAIN context = 1 .. Len(context)
      /\ longer \in Seq(EntrySet) /\ Len(longer) = Len(context) + 1
      /\ DOMAIN longer = 1 .. (Len(context) + 1)
      /\ longer[Len(context) + 1] = e /\ \A i \in 1 .. Len(context) : longer[i] = context[i]
    OBVIOUS
<1>3. \A i \in 1 .. Len(context) : context[i] \in EntrySet
    OBVIOUS
<1> HIDE DEF longer
<1>4. /\ told(context) \in Seq(Seq(EntrySet)) /\ Len(told(context)) = Len(context)
      /\ \A i \in 1 .. Len(context) : told(context)[i] = Told(context[i])
    BY <1>1, <1>2, <1>3
<1>5. told(longer) = Append(told(context), Told(e))
    <2> DEFINE a == told(longer)
               b == Append(told(context), Told(e))
    <2>1. /\ a \in Seq(Seq(EntrySet)) /\ Len(a) = Len(context) + 1
          /\ \A i \in 1 .. (Len(context) + 1) : a[i] = Told(longer[i])
        <3>1. \A i \in 1 .. (Len(context) + 1) : longer[i] \in EntrySet
            BY <1>2
        <3> QED
            BY <1>1, <1>2, <3>1
    <2>2. Told(e) \in Seq(EntrySet)
        BY <1>1
    <2>3. /\ b \in Seq(Seq(EntrySet)) /\ Len(b) = Len(context) + 1
          /\ \A i \in 1 .. (Len(context) + 1) :
                b[i] = IF i = Len(context) + 1 THEN Told(e) ELSE told(context)[i]
        <3> HIDE DEF told
        <3> QED
            BY <1>4, <2>2, AppendProperties
    <2>4. \A i \in 1 .. (Len(context) + 1) : i = Len(context) + 1 \/ i \in 1 .. Len(context)
        BY <1>2
    <2> HIDE DEF a, b
    <2>5. \A i \in 1 .. (Len(context) + 1) : a[i] = b[i]
        BY <1>2, <1>4, <2>1, <2>3, <2>4
    <2>6. a = b
        BY <2>1, <2>3, <2>5, SeqEqual
    <2> QED
        BY <2>6 DEF a, b
<1>6. Says(context) = FlattenSeq(told(context)) /\ Says(longer) = FlattenSeq(told(longer))
    BY DEF Says
<1> HIDE DEF told
<1>7. Told(e) \in Seq(EntrySet)
    BY <1>1
<1> QED
    BY <1>4, <1>5, <1>6, <1>7, FlattenMore DEF longer

\* Nothing is chosen of an empty sequence, and it says nothing.
LEMMA NoneOfKind == (\A kind : OfKind(kind, <<>>) = <<>>) /\ Says(<<>>) = <<>>
<1>1. \A f : f = [i \in DOMAIN <<>> |-> f[i]] => f = <<>>
    OBVIOUS
<1>2. FlattenSeq(<<>>) = <<>>
    BY DEF FlattenSeq
<1>3. DOMAIN <<>> = {}
    OBVIOUS
<1>4. Says(<<>>) = <<>>
    <2>1. PICK none : none = [i \in DOMAIN <<>> |-> Told(<<>>[i])]
        OBVIOUS
    <2>2. none = <<>>
        BY <1>3, <2>1
    <2> QED
        BY <1>2, <2>1, <2>2 DEF Says
<1>5. ASSUME NEW kind PROVE OfKind(kind, <<>>) = <<>>
    <2>1. PICK none : none = [i \in DOMAIN <<>> |->
                                IF <<>>[i].kind = kind THEN <<<<>>[i]>> ELSE <<>>]
        OBVIOUS
    <2>2. none = <<>>
        BY <1>3, <2>1
    <2> QED
        BY <1>2, <2>1, <2>2 DEF OfKind
<1> QED
    BY <1>4, <1>5

\* A part of a sequence.
LEMMA PartOf ==
    ASSUME NEW S, NEW s \in Seq(S), NEW m \in Nat, NEW k \in Nat,
           m > 0, k <= Len(s), m <= k + 1
    PROVE  /\ SubSeq(s, m, k) \in Seq(S)
           /\ Len(SubSeq(s, m, k)) = k - m + 1
           /\ \A i \in 1 .. k - m + 1 : SubSeq(s, m, k)[i] = s[m + i - 1]
OBVIOUS

\* A sequence of one more behind another.
LEMMA ConcatAppend ==
    ASSUME NEW S, NEW s \in Seq(S), NEW t \in Seq(S), NEW e \in S
    PROVE  s \o Append(t, e) = Append(s \o t, e)
<1>1. <<e>> \in Seq(S) /\ s \o t \in Seq(S)
    BY ConcatProperties
<1>2. Append(t, e) = t \o <<e>> /\ Append(s \o t, e) = (s \o t) \o <<e>>
    BY <1>1, AppendIsConcat
<1>3. (s \o t) \o <<e>> = s \o (t \o <<e>>)
    BY <1>1, ConcatAssociative
<1> QED
    BY <1>2, <1>3

\* Results sent as items, one for each call, say what the runtime's tool messages say;
\* so does the one message of prompt mode, and calls of the model's own say nothing.
LEMMA SaysEntries ==
    ASSUME NEW context \in Seq(EntrySet), NEW turn \in 0 .. MaxTurns, NEW n \in 0 .. MaxCalls
    PROVE  /\ Says(context \o Entries("call_output", turn, n))
                  = Says(context) \o Entries("tool", turn, n)
           /\ Says(context \o <<Entry("results", turn, n)>>)
                  = Says(context) \o Entries("tool", turn, n)
           /\ Says(context \o <<Entry("assistant", turn, 0)>>)
                  = Says(context) \o <<Entry("assistant", turn, 0)>>
           /\ Says(context \o Entries("call", turn, n)) = Says(context)
<1> USE DEF Kinds
<1>1. /\ MaxCalls \in Nat /\ n \in Nat /\ n \in 0 .. n /\ 0 \in 0 .. MaxCalls
      /\ \A k \in 0 .. n : k \in 0 .. MaxCalls
    BY BoundsAssumption
<1>2. Says(context) \in Seq(EntrySet) /\ context \o <<>> = context
      /\ Says(context) \o <<>> = Says(context)
    <2>1. \A e \in EntrySet : Says(context) \in Seq(EntrySet)
        BY SaysMore
    <2>2. Entry("user", turn, 0) \in EntrySet
        BY <1>1, EntryType
    <2>3. Says(context) \in Seq(EntrySet)
        BY <2>1, <2>2
    <2> QED
        BY <2>3, ConcatEmptySeq
<1> HIDE DEF EntrySet
<1>3. ASSUME NEW e \in EntrySet
      PROVE  Says(context \o <<e>>) = Says(context) \o Told(e)
    <2>1. context \o <<e>> = Append(context, e)
        BY AppendIsConcat
    <2> QED
        BY <2>1, SaysMore
<1>4. Says(context \o <<Entry("results", turn, n)>>) = Says(context) \o Entries("tool", turn, n)
    <2>1. Entry("results", turn, n) \in EntrySet
        BY EntryType
    <2>2. Told(Entry("results", turn, n)) = Entries("tool", turn, n)
        BY DEF Told, Entry
    <2> QED
        BY <1>3, <2>1, <2>2
<1>5. Says(context \o <<Entry("assistant", turn, 0)>>)
          = Says(context) \o <<Entry("assistant", turn, 0)>>
    <2>1. Entry("assistant", turn, 0) \in EntrySet
        BY <1>1, EntryType
    <2>2. Told(Entry("assistant", turn, 0)) = <<Entry("assistant", turn, 0)>>
        BY DEF Told, Entry
    <2> QED
        BY <1>3, <2>1, <2>2
<1>6. Says(context \o Entries("call_output", turn, n)) = Says(context) \o Entries("tool", turn, n)
    <2> DEFINE good == {k \in 0 .. n : Says(context \o Entries("call_output", turn, k))
                                           = Says(context) \o Entries("tool", turn, k)}
    <2>1. 0 \in good
        <3>1. Entries("call_output", turn, 0) = <<>> /\ Entries("tool", turn, 0) = <<>>
            BY EntriesGrow
        <3>2. Says(context \o Entries("call_output", turn, 0))
                  = Says(context) \o Entries("tool", turn, 0)
            BY <1>2, <3>1
        <3>3. 0 \in 0 .. n
            BY <1>1
        <3> QED
            BY <3>2, <3>3
    <2>2. ASSUME NEW k \in 1 .. n, k - 1 \in good PROVE k \in good
        <3>1. k \in 0 .. n /\ k \in 0 .. MaxCalls /\ k # 0 /\ k - 1 \in 0 .. MaxCalls
            BY <1>1
        <3> DEFINE outputs == Entries("call_output", turn, k - 1)
                   tools == Entries("tool", turn, k - 1)
                   e == Entry("call_output", turn, k)
                   t == Entry("tool", turn, k)
        <3>2. /\ outputs \in Seq(EntrySet) /\ Entries("call_output", turn, k) = Append(outputs, e)
              /\ tools \in Seq(EntrySet) /\ Entries("tool", turn, k) = Append(tools, t)
            BY <3>1, EntriesGrow
        <3>3. e \in EntrySet /\ t \in EntrySet /\ Told(e) = <<t>>
            <4>1. e \in EntrySet /\ t \in EntrySet
                BY <3>1, EntryType
            <4> QED
                BY <4>1 DEF Told, Entry
        <3>4. Says(context \o outputs) = Says(context) \o tools
            BY <2>2
        <3> HIDE DEF outputs, tools, e, t
        <3>5. context \o Append(outputs, e) = Append(context \o outputs, e)
            BY <3>2, <3>3, ConcatAppend
        <3>6. Says(context) \o Append(tools, t) = Append(Says(context) \o tools, t)
            BY <1>2, <3>2, <3>3, ConcatAppend
        <3>7. Says(Append(context \o outputs, e)) = Says(context \o outputs) \o <<t>>
            BY <3>2, <3>3, ConcatProperties, SaysMore
        <3>8. (Says(context) \o tools) \o <<t>> = Append(Says(context) \o tools, t)
            BY <1>2, <3>2, <3>3, ConcatProperties, AppendIsConcat
        <3>9. Says(context \o Entries("call_output", turn, k))
                  = Says(context) \o Entries("tool", turn, k)
            BY <3>2, <3>4, <3>5, <3>6, <3>7, <3>8
        <3> QED
            BY <3>1, <3>9
    <2>3. n \in good
        <3> HIDE DEF good
        <3> QED
            BY <1>1, <2>1, <2>2, CountUp
    <2> QED
        BY <2>3
<1>7. Says(context \o Entries("call", turn, n)) = Says(context)
    <2> DEFINE good == {k \in 0 .. n : Says(context \o Entries("call", turn, k)) = Says(context)}
    <2>1. 0 \in good
        <3>1. Entries("call", turn, 0) = <<>>
            BY EntriesGrow
        <3>2. Says(context \o Entries("call", turn, 0)) = Says(context)
            BY <1>2, <3>1
        <3>3. 0 \in 0 .. n
            BY <1>1
        <3> QED
            BY <3>2, <3>3
    <2>2. ASSUME NEW k \in 1 .. n, k - 1 \in good PROVE k \in good
        <3>1. k \in 0 .. n /\ k \in 0 .. MaxCalls /\ k # 0 /\ k - 1 \in 0 .. MaxCalls
            BY <1>1
        <3> DEFINE calls == Entries("call", turn, k - 1)
                   e == Entry("call", turn, k)
        <3>2. calls \in Seq(EntrySet) /\ Entries("call", turn, k) = Append(calls, e)
            BY <3>1, EntriesGrow
        <3>3. e \in EntrySet /\ Told(e) = <<>>
            <4>1. e \in EntrySet
                BY <3>1, EntryType
            <4> QED
                BY <4>1 DEF Told, Entry
        <3>4. Says(context \o calls) = Says(context)
            BY <2>2
        <3> HIDE DEF calls, e
        <3>5. context \o Append(calls, e) = Append(context \o calls, e)
            BY <3>2, <3>3, ConcatAppend
        <3>6. Says(Append(context \o calls, e)) = Says(context \o calls) \o <<>>
            BY <3>2, <3>3, ConcatProperties, SaysMore
        <3>7. Says(context \o Entries("call", turn, k)) = Says(context)
            BY <1>2, <3>2, <3>4, <3>5, <3>6
        <3> QED
            BY <3>1, <3>7
    <2>3. n \in good
        <3> HIDE DEF good
        <3> QED
            BY <1>1, <2>1, <2>2, CountUp
    <2> QED
        BY <2>3
<1> QED
    BY <1>4, <1>5, <1>6, <1>7

\* The tool messages among tool messages are all of them.
LEMMA ToolsAreTools ==
    ASSUME NEW turn \in 0 .. MaxTurns, NEW n \in 0 .. MaxCalls
    PROVE  OfKind("tool", Entries("tool", turn, n)) = Entries("tool", turn, n)
<1> USE DEF Kinds
<1>1. /\ MaxCalls \in Nat /\ n \in Nat /\ n \in 0 .. n /\ 0 \in 0 .. MaxCalls
      /\ \A k \in 0 .. n : k \in 0 .. MaxCalls
    BY BoundsAssumption
<1> DEFINE good == {k \in 0 .. n :
                      OfKind("tool", Entries("tool", turn, k)) = Entries("tool", turn, k)}
<1>2. 0 \in good
    <2>1. Entries("tool", turn, 0) = <<>>
        BY <1>1, EntriesGrow
    <2>2. OfKind("tool", <<>>) = <<>>
        BY NoneOfKind
    <2> QED
        BY <1>1, <2>1, <2>2
<1>3. ASSUME NEW k \in 1 .. n, k - 1 \in good PROVE k \in good
    <2>1. k \in 0 .. n /\ k \in 0 .. MaxCalls /\ k # 0 /\ k - 1 \in 0 .. MaxCalls
        BY <1>1
    <2> DEFINE tools == Entries("tool", turn, k - 1)
               t == Entry("tool", turn, k)
    <2>2. tools \in Seq(EntrySet) /\ Entries("tool", turn, k) = Append(tools, t)
        BY <2>1, EntriesGrow
    <2>3. t \in EntrySet /\ t.kind = "tool"
        <3>1. t \in EntrySet
            BY <2>1, EntryType
        <3> QED
            BY <3>1 DEF Entry
    <2>4. OfKind("tool", tools) = tools
        BY <1>3
    <2> HIDE DEF tools, t
    <2>5. OfKind("tool", Append(tools, t)) = Append(tools, t)
        BY <2>2, <2>3, <2>4, OfKindMore
    <2> QED
        BY <2>1, <2>2, <2>5
<1>4. n \in good
    <2> HIDE DEF good
    <2> QED
        BY <1>1, <1>2, <1>3, CountUp
<1> QED
    BY <1>4

TheUser == Entry("user", 0, 0)

\* Before the first response the conversation is the user's message, and so is the input.
LEMMA FirstInput ==
    ASSUME messages = <<TheUser>>
    PROVE  /\ SelectLastInSeq(messages, IsAssistant) = 0
           /\ InitialInput = <<TheUser>>
           /\ Says(messages) = messages
           /\ messages \in Seq(EntrySet) /\ TheUser \in EntrySet
<1>1. TheUser \in EntrySet /\ TheUser.kind = "user"
    <2>1. 0 \in 0 .. MaxTurns /\ 0 \in 0 .. MaxCalls
        BY BoundsAssumption
    <2> QED
        BY <2>1, EntryType DEF TheUser, Entry, Kinds
<1> HIDE DEF TheUser, EntrySet
<1>2. messages \in Seq(EntrySet) /\ Len(messages) = 1 /\ messages[1] = TheUser
    BY <1>1
<1>3. SelectLastInSeq(messages, IsAssistant) = 0
    BY <1>1, <1>2 DEF SelectLastInSeq, IsAssistant
<1>4. messages = Append(<<>>, TheUser) /\ <<>> \in Seq(EntrySet)
    OBVIOUS
<1>5. InitialInput = <<TheUser>>
    <2>1. OfKind("user", Append(<<>>, TheUser)) = Append(OfKind("user", <<>>), TheUser)
        BY <1>1, <1>4, OfKindMore
    <2>2. OfKind("user", <<>>) = <<>>
        BY NoneOfKind
    <2> QED
        BY <1>4, <2>1, <2>2 DEF InitialInput
<1>6. Says(messages) = messages
    <2>1. Says(Append(<<>>, TheUser)) = Says(<<>>) \o Told(TheUser)
        BY <1>1, <1>4, SaysMore
    <2>2. Told(TheUser) = <<TheUser>> /\ Says(<<>>) = <<>>
        BY <1>1, NoneOfKind DEF Told
    <2>3. <<>> \o <<TheUser>> = <<TheUser>>
        BY <1>2, ConcatEmptySeq
    <2> QED
        BY <1>4, <2>1, <2>2, <2>3
<1> QED
    BY <1>1, <1>2, <1>3, <1>5, <1>6

\* After a response the latest tool messages are those behind it.
LEMMA LatestTools ==
    ASSUME NEW before \in Seq(EntrySet), NEW turn \in 0 .. MaxTurns, NEW n \in 0 .. MaxCalls,
           messages = (before \o <<Entry("assistant", turn, 0)>>) \o Entries("tool", turn, n)
    PROVE  LatestToolMessages = Entries("tool", turn, n)
<1> DEFINE head == before \o <<Entry("assistant", turn, 0)>>
           tools == Entries("tool", turn, n)
           last == Len(before) + 1
<1>1. /\ n \in Nat /\ 0 \in 0 .. MaxCalls /\ \A k \in 1 .. n : k \in 0 .. MaxCalls
    BY BoundsAssumption
<1>2. /\ tools \in Seq(EntrySet) /\ Len(tools) = n
      /\ \A k \in 1 .. n : tools[k] = Entry("tool", turn, k)
    BY EntriesGrow DEF Kinds
<1>3. Entry("assistant", turn, 0) \in EntrySet
    BY <1>1, EntryType DEF Kinds
<1> HIDE DEF EntrySet, tools
<1>4. /\ head \in Seq(EntrySet) /\ Len(head) = last /\ last \in Nat
      /\ head[last] = Entry("assistant", turn, 0)
    <2>1. head = Append(before, Entry("assistant", turn, 0))
        BY <1>3, AppendIsConcat
    <2>2. Len(before) \in Nat
        OBVIOUS
    <2> HIDE DEF head
    <2> QED
        BY <1>3, <2>1, <2>2, AppendProperties
<1> HIDE DEF head
<1>5. messages = head \o tools
    BY DEF head, tools
<1>6. /\ messages \in Seq(EntrySet) /\ Len(messages) = last + n
      /\ \A i \in 1 .. (last + n) : messages[i] = IF i <= last THEN head[i] ELSE tools[i - last]
    <2> HIDE DEF last
    <2>1. /\ head \o tools \in Seq(EntrySet)
          /\ Len(head \o tools) = Len(head) + Len(tools)
          /\ \A i \in 1 .. (Len(head) + Len(tools)) :
                (head \o tools)[i] = IF i <= Len(head) THEN head[i] ELSE tools[i - Len(head)]
        BY <1>2, <1>4, ConcatProperties
    <2>2. Len(head) = last /\ Len(tools) = n
        BY <1>2, <1>4
    <2> QED
        BY <1>5, <2>1, <2>2, Zenon
<1> HIDE DEF last
<1>7. SelectLastInSeq(messages, IsAssistant) = last
    <2> DEFINE I == {i \in 1 .. Len(messages) : IsAssistant(messages[i])}
    <2>1. last \in I
        <3>1. last \in 1 .. (last + n)
            <4>1. last # 0
                BY DEF last
            <4> QED
                BY <1>1, <1>4, <4>1
        <3>2. messages[last] = Entry("assistant", turn, 0)
            BY <1>4, <1>6, <3>1
        <3> QED
            BY <1>6, <3>1, <3>2 DEF IsAssistant, Entry
    <2>2. ASSUME NEW i \in I PROVE i <= last
        <3>1. i \in 1 .. (last + n) /\ messages[i].kind = "assistant"
            BY <1>6 DEF IsAssistant
        <3>2. ASSUME ~(i <= last) PROVE FALSE
            <4>1. i - last \in 1 .. n
                BY <1>1, <1>4, <3>1, <3>2
            <4>2. messages[i] = tools[i - last]
                BY <1>6, <3>1, <3>2
            <4>3. tools[i - last].kind = "tool"
                BY <1>2, <4>1 DEF Entry
            <4> QED
                BY <3>1, <4>2, <4>3
        <3> QED
            BY <3>2
    <2>3. I \subseteq Nat /\ I # {}
        BY <2>1
    <2>4. SelectLastInSeq(messages, IsAssistant) = IF I # {} THEN Max(I) ELSE 0
        BY DEF SelectLastInSeq
    <2> HIDE DEF I
    <2>5. Max(I) = last
        BY <2>1, <2>2, <2>3, LastOf
    <2> QED
        BY <2>3, <2>4, <2>5
<1>8. SubSeq(messages, last + 1, Len(messages)) = tools
    <2> DEFINE rest == SubSeq(messages, last + 1, Len(messages))
    <2>1. PICK m \in Nat : m = last + 1 /\ m > 0
        BY <1>4
    <2>2. PICK k \in Nat : k = last + n /\ k = Len(messages) /\ m <= k + 1 /\ k <= Len(messages)
        BY <1>1, <1>4, <1>6, <2>1
    <2>3. /\ rest \in Seq(EntrySet) /\ Len(rest) = k - m + 1
          /\ \A i \in 1 .. k - m + 1 : rest[i] = messages[m + i - 1]
        <3>1. PICK all \in Seq(EntrySet) : all = messages
            BY <1>6
        <3>2. k <= Len(all) /\ m > 0 /\ m <= k + 1
            BY <2>1, <2>2, <3>1
        <3>3. /\ SubSeq(all, m, k) \in Seq(EntrySet)
              /\ Len(SubSeq(all, m, k)) = k - m + 1
              /\ \A i \in 1 .. k - m + 1 : SubSeq(all, m, k)[i] = all[m + i - 1]
            BY <3>2, PartOf
        <3>4. rest = SubSeq(all, m, k)
            BY <2>1, <2>2, <3>1
        <3> QED
            BY <3>1, <3>3, <3>4
    <2> HIDE DEF rest
    <2>4. k - m + 1 = n
        BY <1>1, <1>4, <2>1, <2>2
    <2>5. Len(rest) = n
        BY <2>3, <2>4
    <2>6. ASSUME NEW i \in 1 .. n PROVE rest[i] = tools[i]
        <3>1. m + i - 1 = last + i /\ last + i \in 1 .. (last + n) /\ ~(last + i <= last)
              /\ (last + i) - last = i
            BY <1>1, <1>4, <2>1
        <3>2. rest[i] = messages[last + i]
            BY <2>3, <2>4, <3>1
        <3> QED
            BY <1>6, <3>1, <3>2
    <2>7. rest = tools
        BY <1>2, <2>3, <2>5, <2>6, SeqEqual
    <2> QED
        BY <2>7 DEF rest
<1>9. LatestToolMessages = OfKind("tool", tools)
    BY <1>7, <1>8 DEF LatestToolMessages
<1> QED
    BY <1>9, ToolsAreTools DEF tools

-----------------------------------------------------------------------------
(* The invariant.                                                           *)

Modes == {"function", "prompt"}

Turns == Len(stored)

Response(turn) == Entry("assistant", turn, 0)

\* What answers the n calls of a turn.
Outputs(mode, turn, n) ==
    IF mode = "function" THEN Entries("call_output", turn, n) ELSE <<Entry("results", turn, n)>>

\* The client has fallen back, or may have, in the middle of a conversation it keeps.
Excused == client_profile = "codex" /\ tool_mode = "auto" /\ active_tool_mode = "prompt"

\* The one of the two that keeps the conversation has all of it.
Kept ==
    IF Turns = 0 THEN previous_response_id = 0 /\ stateless_input = <<>>
    ELSE /\ stored[Turns] # <<>>
         /\ IF client_profile = "codex" THEN stateless_input = stored[Turns]
                                        ELSE previous_response_id = Turns

\* The request under way continues what is kept.
Asked(input) ==
    Awaiting => /\ pc = active_tool_mode
                /\ request = [previous |-> previous_response_id,
                              input |-> stateless_input \o input]

\* The conversation is what the last context says, which ends with the response, and
\* the results of its n calls; any native call but these is answered in the context.
LastTurn(n) ==
    /\ messages = Says(stored[Turns]) \o Entries("tool", Turns, n)
    /\ \E before \in Seq(EntrySet) : Says(stored[Turns]) = before \o <<Response(Turns)>>
    /\ Excused \/ \A item \in Range(stored[Turns]) : item.kind = "call" =>
          /\ active_tool_mode = "function"
          /\ \/ Entry("call_output", item.turn, item.index) \in Range(stored[Turns])
             \/ item.turn = Turns /\ item.index \in 1 .. n
    /\ Asked(Outputs(active_tool_mode, Turns, n))

ClientInv ==
    /\ Turns <= MaxTurns
    /\ pc \in Modes \cup {"runtime"} =>
          /\ Kept
          /\ IF Turns = 0 THEN messages = <<TheUser>> /\ Asked(messages)
                         ELSE \E n \in 1 .. MaxCalls : LastTurn(n)

\* The numbers of the turns and of the calls.
LEMMA Numbers ==
    ASSUME TypeOK, ClientInv
    PROVE  /\ MaxTurns \in Nat /\ MaxCalls \in Nat /\ Turns \in Nat /\ Turns \in 0 .. MaxTurns
           /\ 0 \in 0 .. MaxTurns /\ 0 \in 0 .. MaxCalls
           /\ \A n \in 1 .. MaxCalls : n \in 0 .. MaxCalls
           /\ stored \in Seq(Seq(EntrySet)) /\ DOMAIN stored = 1 .. Turns
           /\ \A t \in 1 .. Turns : stored[t] \in Seq(EntrySet)
<1> HIDE DEF EntrySet
<1>1. /\ MaxTurns \in Nat /\ MaxCalls \in Nat /\ 0 \in 0 .. MaxTurns /\ 0 \in 0 .. MaxCalls
      /\ \A n \in 1 .. MaxCalls : n \in 0 .. MaxCalls
    BY BoundsAssumption
<1>2. stored \in Seq(Seq(EntrySet))
    BY DEF TypeOK
<1>3. /\ Turns \in Nat /\ DOMAIN stored = 1 .. Turns
      /\ \A t \in 1 .. Turns : stored[t] \in Seq(EntrySet)
    BY <1>2 DEF Turns
<1>4. Turns \in 0 .. MaxTurns
    BY <1>1, <1>3 DEF ClientInv
<1> QED
    BY <1>1, <1>2, <1>3, <1>4

\* The outputs are entries of their own kinds, and say what the tool messages say.
LEMMA OutputsType ==
    ASSUME NEW mode, NEW turn \in 0 .. MaxTurns, NEW n \in 0 .. MaxCalls
    PROVE  /\ Outputs(mode, turn, n) \in Seq(EntrySet)
           /\ \A item \in Range(Outputs(mode, turn, n)) : item.kind # "call"
           /\ \A context \in Seq(EntrySet) :
                 Says(context \o Outputs(mode, turn, n)) = Says(context) \o Entries("tool", turn, n)
           /\ mode = "function" => \A k \in 1 .. n :
                 Entry("call_output", turn, k) \in Range(Outputs(mode, turn, n))
<1> USE DEF Kinds
<1>1. /\ Entries("call_output", turn, n) \in Seq(EntrySet)
      /\ Len(Entries("call_output", turn, n)) = n
      /\ \A k \in 1 .. n : Entries("call_output", turn, n)[k] = Entry("call_output", turn, k)
    BY EntriesGrow
<1>2. Entry("results", turn, n) \in EntrySet
    BY EntryType
<1> HIDE DEF EntrySet
<1>3. Outputs(mode, turn, n) \in Seq(EntrySet)
    BY <1>1, <1>2 DEF Outputs
<1>4. Range(Entries("call_output", turn, n)) = {Entry("call_output", turn, k) : k \in 1 .. n}
    <2>1. Range(Entries("call_output", turn, n)) =
              {Entries("call_output", turn, n)[k] : k \in 1 .. n}
        BY <1>1, RangeEquality
    <2> QED
        BY <1>1, <2>1
<1>5. Range(<<Entry("results", turn, n)>>) = {Entry("results", turn, n)}
    BY DEF Range
<1>6. \A item \in Range(Outputs(mode, turn, n)) : item.kind # "call"
    BY <1>4, <1>5 DEF Outputs, Entry
<1>7. mode = "function" => \A k \in 1 .. n :
          Entry("call_output", turn, k) \in Range(Outputs(mode, turn, n))
    BY <1>4 DEF Outputs
<1>8. ASSUME NEW context \in Seq(EntrySet)
      PROVE  Says(context \o Outputs(mode, turn, n)) = Says(context) \o Entries("tool", turn, n)
    BY SaysEntries DEF Outputs
<1> QED
    BY <1>3, <1>6, <1>7, <1>8

\* What answers the calls of the last response is formed from their tool messages.
LEMMA ToolOutputsAre ==
    ASSUME NEW mode \in Modes, NEW turn \in 0 .. MaxTurns, NEW n \in 1 .. MaxCalls,
           LatestToolMessages = Entries("tool", turn, n)
    PROVE  LatestToolMessages # <<>> /\ ToolOutputs(mode) = Outputs(mode, turn, n)
<1> DEFINE tools == Entries("tool", turn, n)
<1>1. MaxCalls \in Nat /\ n \in 0 .. MaxCalls /\ n \in Nat /\ 1 \in 1 .. n
    BY BoundsAssumption
<1>2. /\ tools \in Seq(EntrySet) /\ Len(tools) = n
      /\ \A k \in 1 .. n : tools[k] = Entry("tool", turn, k)
    BY <1>1, EntriesGrow DEF Kinds
<1> HIDE DEF tools, EntrySet
<1>3. tools # <<>> /\ DOMAIN tools = 1 .. n
    BY <1>1, <1>2
<1>4. \A k \in 1 .. n : tools[k].turn = turn /\ tools[k].index = k
    BY <1>2 DEF Entry
<1>5. CASE mode = "function"
    <2>1. ToolOutputs(mode) =
              [i \in DOMAIN tools |-> Entry("call_output", tools[i].turn, tools[i].index)]
        BY <1>5 DEF ToolOutputs, tools
    <2>2. [i \in DOMAIN tools |-> Entry("call_output", tools[i].turn, tools[i].index)]
              = [i \in 1 .. n |-> Entry("call_output", turn, i)]
        BY <1>3, <1>4
    <2> QED
        BY <1>3, <1>5, <2>1, <2>2 DEF Outputs, Entries, tools
<1>6. CASE mode = "prompt"
    <2>1. ToolOutputs(mode) = <<Entry("results", tools[1].turn, Len(tools))>>
        BY <1>6 DEF ToolOutputs, tools
    <2> QED
        BY <1>1, <1>2, <1>3, <1>4, <1>6, <2>1 DEF Outputs, tools
<1> QED
    BY <1>5, <1>6 DEF Modes

\* In a run that goes on, a request can be formed in either mode, from what is kept and
\* what is new.
LEMMA Inputs ==
    ASSUME TypeOK, ClientInv, pc \in Modes \cup {"runtime"}, NEW mode \in Modes
    PROVE  /\ ~InputRaises
           /\ Turns = 0 => RequestInput(mode) = stateless_input \o messages
           /\ \A n \in 1 .. MaxCalls : Turns # 0 /\ LastTurn(n) =>
                 RequestInput(mode) = stateless_input \o Outputs(mode, Turns, n)
<1>1. CASE Turns = 0
    <2>1. Kept /\ messages = <<TheUser>>
        BY <1>1 DEF ClientInv
    <2>2. FirstRequest /\ stateless_input = <<>>
        BY <1>1, <2>1 DEF Kept, FirstRequest
    <2>3. /\ SelectLastInSeq(messages, IsAssistant) = 0
          /\ InitialInput = messages /\ messages \in Seq(EntrySet)
        BY <2>1, FirstInput
    <2>4. <<>> \o messages = messages
        BY <2>3, ConcatEmptySeq
    <2>5. ~InputRaises
        BY <2>2, <2>3 DEF InputRaises
    <2>6. RequestInput(mode) = stateless_input \o messages
        BY <2>2, <2>3, <2>4 DEF RequestInput
    <2> QED
        BY <1>1, <2>5, <2>6
<1>2. CASE Turns # 0
    <2>1. Kept /\ \E n \in 1 .. MaxCalls : LastTurn(n)
        BY <1>2 DEF ClientInv
    <2>2. ~FirstRequest
        BY <1>2, <2>1 DEF Kept, FirstRequest
    <2>3. ASSUME NEW n \in 1 .. MaxCalls, LastTurn(n)
          PROVE  /\ LatestToolMessages # <<>>
                 /\ ToolOutputs(mode) = Outputs(mode, Turns, n)
        <3>1. PICK before \in Seq(EntrySet) : Says(stored[Turns]) = before \o <<Response(Turns)>>
            BY <2>3 DEF LastTurn
        <3>2. messages = (before \o <<Response(Turns)>>) \o Entries("tool", Turns, n)
            BY <2>3, <3>1 DEF LastTurn
        <3>3. Turns \in 0 .. MaxTurns /\ n \in 0 .. MaxCalls
            BY Numbers
        <3>4. LatestToolMessages = Entries("tool", Turns, n)
            BY <3>2, <3>3, LatestTools DEF Response
        <3> QED
            BY <3>3, <3>4, ToolOutputsAre
    <2>4. ~InputRaises
        BY <2>1, <2>2, <2>3 DEF InputRaises
    <2>5. ASSUME NEW n \in 1 .. MaxCalls, LastTurn(n)
          PROVE  RequestInput(mode) = stateless_input \o Outputs(mode, Turns, n)
        BY <2>2, <2>3, <2>5 DEF RequestInput
    <2> QED
        BY <1>2, <2>4, <2>5
<1> QED
    BY <1>1, <1>2

\* What the provider answers from is what the last response was given and what is new.
LEMMA Contexts ==
    ASSUME TypeOK, ClientInv, Awaiting
    PROVE  /\ Context \in Seq(EntrySet)
           /\ client_profile = "codex" => request.input = Context
           /\ Turns = 0 => Context = messages /\ messages = <<TheUser>>
           /\ Turns # 0 => \E n \in 1 .. MaxCalls :
                 LastTurn(n) /\ Context = stored[Turns] \o Outputs(pc, Turns, n)
<1>1. pc \in Modes \cup {"runtime"}
    BY DEF Awaiting, Modes
<1>2. Kept
    BY <1>1 DEF ClientInv
<1>3. client_profile \in {"standard", "codex"}
    BY DEF TypeOK
<1>4. CASE Turns = 0
    <2>1. messages = <<TheUser>> /\ Asked(messages)
        BY <1>1, <1>4 DEF ClientInv
    <2>2. messages \in Seq(EntrySet) /\ <<>> \o messages = messages
        BY <2>1, FirstInput, ConcatEmptySeq
    <2>3. request = [previous |-> 0, input |-> messages]
        BY <1>2, <1>4, <2>1, <2>2 DEF Asked, Kept
    <2>4. Context = messages
        BY <2>2, <2>3 DEF Context
    <2> QED
        BY <1>4, <2>1, <2>2, <2>3, <2>4
<1>5. CASE Turns # 0
    <2>1. PICK n \in 1 .. MaxCalls : LastTurn(n)
        BY <1>1, <1>5 DEF ClientInv
    <2>2. Turns \in 1 .. Turns /\ Turns \in 0 .. MaxTurns /\ n \in 0 .. MaxCalls
        BY <1>5, Numbers
    <2>3. stored[Turns] \in Seq(EntrySet)
        BY <2>2, Numbers
    <2>4. Outputs(pc, Turns, n) \in Seq(EntrySet)
        BY <2>2, OutputsType
    <2>5. /\ <<>> \o Outputs(pc, Turns, n) = Outputs(pc, Turns, n)
          /\ stored[Turns] \o Outputs(pc, Turns, n) \in Seq(EntrySet)
        BY <2>3, <2>4, ConcatEmptySeq, ConcatProperties
    <2>6. <<>> \o (stored[Turns] \o Outputs(pc, Turns, n)) = stored[Turns] \o Outputs(pc, Turns, n)
        BY <2>5, ConcatEmptySeq
    <2>7. request = [previous |-> previous_response_id,
                     input |-> stateless_input \o Outputs(pc, Turns, n)]
        BY <2>1 DEF LastTurn, Asked
    <2>8. /\ Context = stored[Turns] \o Outputs(pc, Turns, n)
          /\ client_profile = "codex" => request.input = Context
        <3>1. CASE client_profile = "codex"
            <4>1. previous_response_id = 0 /\ stateless_input = stored[Turns]
                BY <1>2, <1>5, <3>1 DEF Kept, TypeOK
            <4> QED
                BY <2>6, <2>7, <4>1 DEF Context
        <3>2. CASE client_profile = "standard"
            <4>1. previous_response_id = Turns /\ stateless_input = <<>>
                BY <1>2, <1>5, <3>2 DEF Kept, TypeOK
            <4> QED
                BY <1>5, <2>5, <2>7, <3>2, <4>1 DEF Context
        <3> QED
            BY <1>3, <3>1, <3>2
    <2> QED
        BY <1>5, <2>1, <2>5, <2>8
<1> QED
    BY <1>4, <1>5

\* It says the conversation.
LEMMA ContextSays == ASSUME TypeOK, ClientInv, Awaiting PROVE Says(Context) = messages
<1>1. CASE Turns = 0
    BY <1>1, Contexts, FirstInput
<1>2. CASE Turns # 0
    <2>1. PICK n \in 1 .. MaxCalls :
            LastTurn(n) /\ Context = stored[Turns] \o Outputs(pc, Turns, n)
        BY <1>2, Contexts
    <2>2. Turns \in 1 .. Turns /\ Turns \in 0 .. MaxTurns /\ n \in 0 .. MaxCalls
        BY <1>2, Numbers
    <2>3. stored[Turns] \in Seq(EntrySet)
        BY <2>2, Numbers
    <2>4. Says(Context) = Says(stored[Turns]) \o Entries("tool", Turns, n)
        BY <2>1, <2>2, <2>3, OutputsType
    <2> QED
        BY <2>1, <2>4 DEF LastTurn
<1> QED
    BY <1>1, <1>2

\* Its native calls are answered in it, and there are none in prompt mode.
LEMMA ContextCalls ==
    ASSUME TypeOK, ClientInv, Awaiting, ~Excused, NEW item \in Range(Context),
           item.kind = "call"
    PROVE  /\ active_tool_mode = "function" /\ pc = "function"
           /\ Entry("call_output", item.turn, item.index) \in Range(Context)
<1>1. CASE Turns = 0
    <2>1. Context = <<TheUser>>
        BY <1>1, Contexts
    <2>2. Range(Context) = {TheUser}
        BY <2>1 DEF Range
    <2> QED
        BY <2>2 DEF TheUser, Entry
<1>2. CASE Turns # 0
    <2>1. PICK n \in 1 .. MaxCalls :
            LastTurn(n) /\ Context = stored[Turns] \o Outputs(pc, Turns, n)
        BY <1>2, Contexts
    <2>2. Turns \in 1 .. Turns /\ Turns \in 0 .. MaxTurns /\ n \in 0 .. MaxCalls
        BY <1>2, Numbers
    <2>3. stored[Turns] \in Seq(EntrySet)
        BY <2>2, Numbers
    <2>4. /\ Outputs(pc, Turns, n) \in Seq(EntrySet)
          /\ \A other \in Range(Outputs(pc, Turns, n)) : other.kind # "call"
          /\ pc = "function" => \A k \in 1 .. n :
                Entry("call_output", Turns, k) \in Range(Outputs(pc, Turns, n))
        BY <2>2, OutputsType
    <2>5. Range(Context) = Range(stored[Turns]) \cup Range(Outputs(pc, Turns, n))
        BY <2>1, <2>3, <2>4, RangeConcatenation
    <2>6. item \in Range(stored[Turns])
        BY <2>4, <2>5
    <2>7. /\ active_tool_mode = "function"
          /\ \/ Entry("call_output", item.turn, item.index) \in Range(stored[Turns])
             \/ item.turn = Turns /\ item.index \in 1 .. n
        BY <2>1, <2>6 DEF LastTurn
    <2>8. pc = "function"
        BY <2>1, <2>7 DEF LastTurn, Asked
    <2> QED
        BY <2>4, <2>5, <2>7, <2>8
<1> QED
    BY <1>1, <1>2

\* A request is awaited in the mode that is active.
LEMMA AskedIn == ASSUME TypeOK, ClientInv, Awaiting PROVE pc = active_tool_mode
<1>1. pc \in Modes \cup {"runtime"}
    BY DEF Awaiting, Modes
<1>2. CASE Turns = 0
    BY <1>1, <1>2 DEF ClientInv, Asked
<1>3. CASE Turns # 0
    BY <1>1, <1>3 DEF ClientInv, LastTurn, Asked
<1> QED
    BY <1>2, <1>3

-----------------------------------------------------------------------------
(* The steps.                                                               *)

\* A request is formed of entries, and continues what is kept.
LEMMA SendStep ==
    ASSUME TypeOK, ClientInv, pc \in Modes \cup {"runtime"}, NEW mode \in Modes, Send(mode),
           \/ mode = active_tool_mode
           \/ mode = "prompt" /\ tool_mode = "auto" /\ previous_response_id = 0
    PROVE  TypeOK' /\ ClientInv'
<1>1. /\ ~InputRaises
      /\ Turns = 0 => RequestInput(mode) = stateless_input \o messages
      /\ \A n \in 1 .. MaxCalls : Turns # 0 /\ LastTurn(n) =>
            RequestInput(mode) = stateless_input \o Outputs(mode, Turns, n)
    BY Inputs
<1>2. /\ pc' = mode /\ active_tool_mode' = mode
      /\ tool_mode' = tool_mode /\ client_profile' = client_profile
      /\ previous_response_id' = previous_response_id /\ stateless_input' = stateless_input
      /\ messages' = messages /\ stored' = stored
      /\ request' = [previous |-> previous_response_id, input |-> RequestInput(mode)]
    BY <1>1 DEF Send, clientVars, TypeOK
<1>3. Kept /\ IF Turns = 0 THEN messages = <<TheUser>> ELSE \E n \in 1 .. MaxCalls : LastTurn(n)
    BY DEF ClientInv
<1>4. Kept' /\ Turns' = Turns
    BY <1>2, <1>3 DEF Kept, Turns
<1>5. RequestInput(mode) \in Seq(EntrySet)
    <2>1. stateless_input \in Seq(EntrySet) /\ messages \in Seq(EntrySet)
        BY DEF TypeOK
    <2>2. CASE Turns = 0
        BY <1>1, <2>1, <2>2, ConcatProperties
    <2>3. CASE Turns # 0
        <3>1. PICK n \in 1 .. MaxCalls : LastTurn(n)
            BY <1>3, <2>3
        <3>2. n \in 0 .. MaxCalls /\ Turns \in 0 .. MaxTurns
            BY Numbers
        <3>3. Outputs(mode, Turns, n) \in Seq(EntrySet)
            BY <3>2, OutputsType
        <3> QED
            BY <1>1, <2>1, <2>3, <3>1, <3>3, ConcatProperties
    <2> QED
        BY <2>2, <2>3
<1>6. TypeOK'
    <2>1. previous_response_id \in 0 .. MaxTurns
        <3>1. previous_response_id \in 0 .. Turns
            BY DEF TypeOK, Turns
        <3> QED
            BY <3>1, Numbers
    <2>2. request' \in [previous : 0 .. MaxTurns, input : Seq(EntrySet)]
        <3> HIDE DEF EntrySet
        <3> QED
            BY <1>2, <1>5, <2>1
    <2>3. pc' \in {"runtime", "function", "prompt", "finished", "raised"}
        BY <1>2 DEF Modes
    <2>4. active_tool_mode' \in {"function", "prompt"}
        BY <1>2 DEF Modes
    <2> HIDE DEF EntrySet
    <2> QED
        BY <1>2, <2>2, <2>3, <2>4 DEF TypeOK
<1>7. CASE Turns = 0
    <2>1. Asked(messages)'
        BY <1>1, <1>2, <1>7 DEF Asked
    <2> QED
        BY <1>2, <1>3, <1>4, <1>6, <1>7, <2>1 DEF ClientInv
<1>8. CASE Turns # 0
    <2>1. PICK n \in 1 .. MaxCalls : LastTurn(n)
        BY <1>3, <1>8
    <2>2. RequestInput(mode) = stateless_input \o Outputs(mode, Turns, n)
        BY <1>1, <1>8, <2>1
    <2>3. Asked(Outputs(active_tool_mode, Turns, n))'
        BY <1>2, <1>4, <2>2 DEF Asked
    <2>4. stored[Turns]' = stored[Turns]
        BY <1>2, <1>4
    <2>5. /\ messages' = Says(stored[Turns])' \o Entries("tool", Turns, n)'
          /\ \E before \in Seq(EntrySet) : Says(stored[Turns])' = before \o <<Response(Turns)>>'
        BY <1>2, <1>4, <2>1, <2>4 DEF LastTurn
    <2>6. Excused' \/ active_tool_mode' = active_tool_mode
        <3> SUFFICES ASSUME mode = "prompt", tool_mode = "auto", previous_response_id = 0
                     PROVE  Excused'
            BY <1>2
        <3>1. client_profile = "codex"
            BY <1>3, <1>8 DEF Kept
        <3> QED
            BY <1>2, <3>1 DEF Excused
    <2>7. Excused' \/ \A item \in Range(stored[Turns])' : item.kind = "call" =>
            /\ active_tool_mode' = "function"
            /\ \/ Entry("call_output", item.turn, item.index) \in Range(stored[Turns])'
               \/ item.turn = Turns' /\ item.index \in 1 .. n
        <3> SUFFICES ASSUME ~Excused', active_tool_mode' = active_tool_mode
                     PROVE  \A item \in Range(stored[Turns]) : item.kind = "call" =>
                              /\ active_tool_mode = "function"
                              /\ \/ Entry("call_output", item.turn, item.index)
                                        \in Range(stored[Turns])
                                 \/ item.turn = Turns /\ item.index \in 1 .. n
            BY <1>2, <1>4, <2>4, <2>6
        <3>1. ~Excused
            BY <1>2 DEF Excused
        <3> QED
            BY <2>1, <3>1 DEF LastTurn
    <2>8. LastTurn(n)'
        BY <2>3, <2>5, <2>7 DEF LastTurn
    <2>9. \E m \in 1 .. MaxCalls : LastTurn(m)'
        BY <2>8
    <2>10. Turns' # 0 /\ Turns' <= MaxTurns
        BY <1>4, <1>8 DEF ClientInv
    <2> QED
        BY <1>4, <1>6, <2>9, <2>10 DEF ClientInv
<1> QED
    BY <1>6, <1>7, <1>8

\* A response joins the context it answers.
LEMMA ContextGrows ==
    ASSUME TypeOK, ClientInv, Awaiting, Turn <= MaxTurns, NEW n \in 0 .. MaxCalls
    PROVE  /\ Turn \in 0 .. MaxTurns /\ Turn = Turns + 1
           /\ Output(n) \in Seq(EntrySet)
           /\ Context \o Output(n) \in Seq(EntrySet)
           /\ Context \o Output(n) # <<>>
           /\ Says(Context \o Output(n)) = messages \o <<Response(Turn)>>
           /\ Range(Context) \subseteq Range(Context \o Output(n))
           /\ \A item \in Range(Context \o Output(n)) : item.kind = "call" =>
                 \/ item \in Range(Context)
                 \/ pc = "function" /\ item.turn = Turn /\ item.index \in 1 .. n
<1> DEFINE calls == IF pc = "function" THEN Entries("call", Turn, n) ELSE <<>>
           answer == <<Response(Turn)>>
<1>1. Turn \in 0 .. MaxTurns /\ Turn = Turns + 1
    BY Numbers DEF Turn, Turns
<1>2. Response(Turn) \in EntrySet
    BY <1>1, Numbers, EntryType DEF Response, Kinds
<1>3. /\ Entries("call", Turn, n) \in Seq(EntrySet)
      /\ Len(Entries("call", Turn, n)) = n
      /\ \A k \in 1 .. n : Entries("call", Turn, n)[k] = Entry("call", Turn, k)
    BY <1>1, EntriesGrow DEF Kinds
<1>4. Context \in Seq(EntrySet)
    BY Contexts
<1> HIDE DEF EntrySet
<1>5. answer \in Seq(EntrySet) /\ calls \in Seq(EntrySet) /\ Len(answer) = 1
    BY <1>2, <1>3
<1>6. Output(n) = answer \o calls
    BY DEF Output, Response
<1> HIDE DEF calls, answer
<1>7. /\ Output(n) \in Seq(EntrySet) /\ Context \o answer \in Seq(EntrySet)
      /\ Context \o Output(n) = (Context \o answer) \o calls
    BY <1>4, <1>5, <1>6, ConcatProperties, ConcatAssociative
<1>8. Context \o Output(n) \in Seq(EntrySet) /\ Context \o Output(n) # <<>>
    <2>1. Len(Context \o answer) = Len(Context) + 1
        <3>1. Len(Context \o answer) = Len(Context) + Len(answer)
            BY <1>4, <1>5, ConcatProperties, Zenon
        <3> QED
            BY <1>5, <3>1
    <2>2. /\ (Context \o answer) \o calls \in Seq(EntrySet)
          /\ Len((Context \o answer) \o calls) = Len(Context \o answer) + Len(calls)
        BY <1>5, <1>7, ConcatProperties
    <2>3. Len(Context) \in Nat /\ Len(calls) \in Nat
        BY <1>4, <1>5, LenProperties
    <2>4. Len(Context \o Output(n)) # 0
        BY <1>7, <2>1, <2>2, <2>3
    <2>5. Len(<<>>) = 0
        OBVIOUS
    <2>6. Context \o Output(n) # <<>>
        BY <2>4, <2>5, Zenon
    <2> QED
        BY <1>7, <2>2, <2>6
<1>9. Says(Context \o Output(n)) = messages \o <<Response(Turn)>>
    <2>1. Says(Context \o answer) = Says(Context) \o <<Response(Turn)>>
        BY <1>1, <1>4, SaysEntries DEF answer, Response
    <2>2. Says((Context \o answer) \o calls) = Says(Context \o answer)
        <3>1. CASE pc = "function"
            BY <1>1, <1>7, <3>1, SaysEntries DEF calls
        <3>2. CASE pc # "function"
            BY <1>7, <3>2, ConcatEmptySeq DEF calls
        <3> QED
            BY <3>1, <3>2
    <2>3. Says(Context) = messages
        BY ContextSays
    <2> QED
        BY <1>7, <2>1, <2>2, <2>3
<1>10. Range(Context \o Output(n)) = Range(Context) \cup Range(answer) \cup Range(calls)
    <2>1. Range(Context \o answer) = Range(Context) \cup Range(answer)
        BY <1>4, <1>5, RangeConcatenation, Zenon
    <2>2. Range((Context \o answer) \o calls) = Range(Context \o answer) \cup Range(calls)
        <3>1. PICK part \in Seq(EntrySet) : part = Context \o answer
            BY <1>7
        <3>2. Range(part \o calls) = Range(part) \cup Range(calls)
            BY <1>5, RangeConcatenation, Zenon
        <3> QED
            BY <3>1, <3>2
    <2> QED
        BY <1>7, <2>1, <2>2, Zenon
<1>11. \A item \in Range(answer) : item.kind = "assistant"
    BY DEF Range, answer, Response, Entry
<1>12. \A item \in Range(calls) :
           pc = "function" /\ item.turn = Turn /\ item.index \in 1 .. n
    <2>1. CASE pc = "function"
        <3>1. Range(Entries("call", Turn, n)) = {Entries("call", Turn, n)[k] : k \in 1 .. n}
            BY <1>3, RangeEquality
        <3>2. \A item \in Range(calls) : \E k \in 1 .. n : item = Entry("call", Turn, k)
            BY <1>3, <2>1, <3>1 DEF calls
        <3> QED
            BY <2>1, <3>2 DEF Entry
    <2>2. CASE pc # "function"
        BY <2>2 DEF calls, Range
    <2> QED
        BY <2>1, <2>2
<1> QED
    BY <1>1, <1>7, <1>8, <1>9, <1>10, <1>11, <1>12

\* What the provider stores and the client keeps are entries.
LEMMA RespondedType ==
    ASSUME TypeOK, ClientInv, NEW n \in 0 .. MaxCalls, Responded(n),
           messages' \in Seq(EntrySet), pc' \in {"runtime", "finished", "raised"}
    PROVE  TypeOK'
<1>1. /\ Awaiting /\ Turn <= MaxTurns
      /\ stored' = Append(stored, Context \o Output(n))
      /\ AdvanceConversation(n)
      /\ tool_mode' = tool_mode /\ client_profile' = client_profile
      /\ active_tool_mode' = active_tool_mode /\ request' = request
    BY DEF Responded, Awaiting, clientVars
<1>2. /\ Turn = Turns + 1 /\ Context \o Output(n) \in Seq(EntrySet)
    BY <1>1, ContextGrows
<1> HIDE DEF EntrySet
<1>3. /\ stored' \in Seq(Seq(EntrySet)) /\ Len(stored') = Turns + 1 /\ Turns \in Nat
    BY <1>1, <1>2, Numbers, AppendProperties DEF Turns
<1>4. client_profile \in {"standard", "codex"}
    BY DEF TypeOK
<1>5. CASE client_profile = "codex"
    <2>1. stateless_input' = Context \o Output(n) /\ previous_response_id' = previous_response_id
        BY <1>1, <1>5, Contexts DEF AdvanceConversation
    <2>2. previous_response_id = 0
        BY <1>5 DEF TypeOK
    <2>3. previous_response_id' \in 0 .. Len(stored')
        BY <1>3, <2>1, <2>2
    <2> QED
        BY <1>1, <1>2, <1>3, <1>5, <2>1, <2>2, <2>3 DEF TypeOK
<1>6. CASE client_profile = "standard"
    <2>1. previous_response_id' = Turns + 1 /\ stateless_input' = stateless_input
        BY <1>1, <1>2, <1>6 DEF AdvanceConversation
    <2>2. previous_response_id' \in 0 .. Len(stored')
        BY <1>3, <2>1
    <2> QED
        BY <1>1, <1>2, <1>3, <1>6, <2>1, <2>2 DEF TypeOK
<1> QED
    BY <1>4, <1>5, <1>6

\* A response that leaves calls to answer makes the conversation what the stored context
\* says and their results.
LEMMA RespondStep ==
    ASSUME TypeOK, ClientInv, NEW n \in 0 .. MaxCalls, Responded(n), Answer(n),
           pc' = IF n = 0 THEN "finished" ELSE "runtime"
    PROVE  TypeOK' /\ ClientInv'
<1>1. /\ Awaiting /\ Turn <= MaxTurns
      /\ stored' = Append(stored, Context \o Output(n))
      /\ AdvanceConversation(n)
      /\ tool_mode' = tool_mode /\ client_profile' = client_profile
      /\ active_tool_mode' = active_tool_mode
    BY DEF Responded, Awaiting, clientVars
<1>2. /\ Turn \in 0 .. MaxTurns /\ Turn = Turns + 1
      /\ Context \o Output(n) \in Seq(EntrySet)
      /\ Context \o Output(n) # <<>>
      /\ Says(Context \o Output(n)) = messages \o <<Response(Turn)>>
      /\ Range(Context) \subseteq Range(Context \o Output(n))
      /\ \A item \in Range(Context \o Output(n)) : item.kind = "call" =>
            \/ item \in Range(Context)
            \/ pc = "function" /\ item.turn = Turn /\ item.index \in 1 .. n
    BY <1>1, ContextGrows
<1>3. messages' = (messages \o <<Response(Turn)>>) \o Entries("tool", Turn, n)
    BY DEF Answer, Response
<1> HIDE DEF EntrySet
<1>4. messages \in Seq(EntrySet)
    BY DEF TypeOK
<1>5. messages' \in Seq(EntrySet)
    <2>1. Response(Turn) \in EntrySet
        BY <1>2, Numbers, EntryType DEF Response, Kinds
    <2>2. messages \o <<Response(Turn)>> \in Seq(EntrySet)
        BY <1>4, <2>1, ConcatProperties
    <2>3. Entries("tool", Turn, n) \in Seq(EntrySet)
        BY <1>2, EntriesGrow DEF Kinds
    <2> QED
        BY <1>3, <2>2, <2>3, ConcatProperties
<1>6. TypeOK'
    BY <1>5, RespondedType
<1>7. Turns' = Turn /\ stored'[Turn] = Context \o Output(n) /\ Turn # 0
    <2>1. stored \in Seq(Seq(EntrySet)) /\ Len(stored) = Turns /\ Turns \in Nat
        BY Numbers DEF Turns
    <2>2. /\ Len(Append(stored, Context \o Output(n))) = Turns + 1
          /\ Append(stored, Context \o Output(n))[Turns + 1] = Context \o Output(n)
        BY <1>2, <2>1, AppendProperties
    <2> QED
        BY <1>1, <1>2, <2>1, <2>2 DEF Turns
<1>8. Turns' <= MaxTurns
    BY <1>1, <1>7
<1>9. CASE n = 0
    BY <1>6, <1>8, <1>9 DEF ClientInv, Modes
<1>10. CASE n # 0
    <2>1. n \in 1 .. MaxCalls
        BY <1>10, Numbers
    <2>2. pc' = "runtime" /\ ~Awaiting'
        BY <1>10 DEF Awaiting
    <2>3. Kept'
        <3>1. CASE client_profile = "codex"
            <4>1. stateless_input' = Context \o Output(n)
                BY <1>1, <3>1, Contexts DEF AdvanceConversation
            <4> QED
                BY <1>1, <1>2, <1>7, <3>1, <4>1 DEF Kept
        <3>2. CASE client_profile # "codex"
            <4>1. previous_response_id' = Turn
                BY <1>1, <3>2 DEF AdvanceConversation
            <4> QED
                BY <1>1, <1>2, <1>7, <3>2, <4>1 DEF Kept
        <3> QED
            BY <3>1, <3>2
    <2>4. Excused' \/ \A item \in Range(stored'[Turns']) : item.kind = "call" =>
            /\ active_tool_mode' = "function"
            /\ \/ Entry("call_output", item.turn, item.index) \in Range(stored'[Turns'])
               \/ item.turn = Turns' /\ item.index \in 1 .. n
        <3> SUFFICES ASSUME ~Excused, NEW item \in Range(Context \o Output(n)),
                            item.kind = "call"
                     PROVE  /\ active_tool_mode = "function"
                            /\ \/ Entry("call_output", item.turn, item.index)
                                      \in Range(Context \o Output(n))
                               \/ item.turn = Turn /\ item.index \in 1 .. n
            BY <1>1, <1>7 DEF Excused
        <3>1. CASE item \in Range(Context)
            BY <1>1, <1>2, <3>1, ContextCalls
        <3>2. CASE item \notin Range(Context)
            <4>1. pc = "function" /\ item.turn = Turn /\ item.index \in 1 .. n
                BY <1>2, <3>2
            <4>2. pc = active_tool_mode
                BY <1>1, AskedIn
            <4> QED
                BY <4>1, <4>2
        <3> QED
            BY <3>1, <3>2
    <2>5. LastTurn(n)'
        <3>1. Says(stored[Turns])' = messages \o <<Response(Turn)>>
            BY <1>2, <1>7
        <3>2. messages' = Says(stored[Turns])' \o Entries("tool", Turns', n)
            BY <1>3, <1>7, <3>1
        <3>3. \E before \in Seq(EntrySet) : Says(stored[Turns])' = before \o <<Response(Turns')>>
            BY <1>4, <1>7, <3>1
        <3>4. Asked(Outputs(active_tool_mode, Turns, n))'
            BY <2>2 DEF Asked
        <3> QED
            BY <2>4, <3>2, <3>3, <3>4 DEF LastTurn
    <2> QED
        BY <1>6, <1>7, <1>8, <2>1, <2>2, <2>3, <2>5 DEF ClientInv, Modes
<1> QED
    BY <1>9, <1>10

\* The first complete of a client finds the user's message alone.
LEMMA ClientInit == Init => TypeOK /\ ClientInv
<1> SUFFICES ASSUME Init PROVE TypeOK /\ ClientInv
    OBVIOUS
<1>1. /\ pc = "runtime" /\ messages = <<TheUser>> /\ stored = <<>> /\ stateless_input = <<>>
      /\ previous_response_id = 0 /\ request = [previous |-> 0, input |-> <<>>]
      /\ tool_mode \in {"auto", "function", "prompt"}
      /\ client_profile \in {"standard", "codex"}
      /\ active_tool_mode \in {"function", "prompt"}
    BY DEF Init, TheUser
<1>2. messages \in Seq(EntrySet) /\ Len(stored) = 0 /\ MaxTurns \in Nat
    BY <1>1, FirstInput, BoundsAssumption
<1> HIDE DEF EntrySet
<1>3. TypeOK
    BY <1>1, <1>2 DEF TypeOK
<1>4. ClientInv
    BY <1>1, <1>2 DEF ClientInv, Kept, Asked, Awaiting, Turns
<1> QED
    BY <1>3, <1>4

\* Every step keeps the types and the invariant.
LEMMA ClientStep == TypeOK /\ ClientInv /\ [Next]_vars => TypeOK' /\ ClientInv'
<1> SUFFICES ASSUME TypeOK, ClientInv, [Next]_vars PROVE TypeOK' /\ ClientInv'
    OBVIOUS
<1>1. CASE Complete
    <2>1. pc = "runtime" /\ Send(active_tool_mode) /\ active_tool_mode \in Modes
        BY <1>1 DEF Complete, TypeOK, Modes
    <2> QED
        BY <2>1, SendStep
<1>2. CASE FallBack
    <2>1. /\ pc = "function" /\ Send("prompt") /\ "prompt" \in Modes
          /\ tool_mode = "auto" /\ previous_response_id = 0
        BY <1>2 DEF FallBack, CanFallBack, Modes
    <2>2. pc \in Modes \cup {"runtime"}
        BY <2>1 DEF Modes
    <2> QED
        BY <2>1, <2>2, SendStep
<1>3. CASE Fail
    <2>1. TypeOK'
        <3> HIDE DEF EntrySet
        <3> QED
            BY <1>3 DEF Fail, clientVars, TypeOK
    <2>2. pc' = "raised" /\ stored' = stored
        BY <1>3 DEF Fail
    <2> QED
        BY <2>1, <2>2 DEF ClientInv, Modes, Turns
<1>4. CASE Respond
    BY <1>4, RespondStep DEF Respond
<1>5. CASE RespondUnparsable
    <2>1. PICK n \in 0 .. MaxCalls :
            Responded(n) /\ pc' = "raised" /\ messages' = messages
        BY <1>5 DEF RespondUnparsable
    <2>2. messages' \in Seq(EntrySet)
        BY <2>1 DEF TypeOK
    <2>3. TypeOK'
        BY <2>1, <2>2, RespondedType
    <2>4. Turns' <= MaxTurns
        <3>1. Awaiting /\ Turn <= MaxTurns /\ stored' = Append(stored, Context \o Output(n))
            BY <2>1 DEF Responded, Awaiting
        <3>2. stored \in Seq(Seq(EntrySet)) /\ Context \o Output(n) \in Seq(EntrySet)
            BY <3>1, Numbers, ContextGrows
        <3>3. Len(stored') = Turn
            BY <3>1, <3>2, AppendProperties DEF Turn
        <3> QED
            BY <3>1, <3>3 DEF Turns
    <2> QED
        BY <2>1, <2>3, <2>4 DEF ClientInv, Modes
<1>6. CASE UNCHANGED vars
    <2>1. TypeOK'
        <3> HIDE DEF EntrySet
        <3> QED
            BY <1>6 DEF vars, TypeOK
    <2>2. ClientInv'
        <3> HIDE DEF EntrySet
        <3> QED
            BY <1>6 DEF vars, ClientInv, Kept, LastTurn, Asked, Awaiting, Excused, Turns
    <2> QED
        BY <2>1, <2>2
<1> QED
    BY <1>1, <1>2, <1>3, <1>4, <1>5, <1>6 DEF Next

\* The types and the invariant hold throughout.
LEMMA ClientInvariant == Spec => [](TypeOK /\ ClientInv)
BY ClientInit, ClientStep, PTL DEF Spec

\* Every variable keeps its type, for runs of any length and any number of calls: an
\* answer names a turn and a call there was, and only one side keeps the conversation.
THEOREM ClientTypeCorrect == Spec => []TypeOK
BY ClientInvariant, PTL

\* A request can always be formed, whatever the profile and the mode, and after a
\* fallback too: none of the three ValueErrors ever ends a run.
THEOREM RequestsAreFormed == Spec => []RequestCanBeFormed
<1>1. TypeOK /\ ClientInv => RequestCanBeFormed
    <2> SUFFICES ASSUME TypeOK, ClientInv, pc \in {"runtime", "function"} PROVE ~InputRaises
        BY DEF RequestCanBeFormed
    <2>1. pc \in Modes \cup {"runtime"} /\ "function" \in Modes
        BY DEF Modes
    <2> QED
        BY <2>1, Inputs
<1> QED
    BY <1>1, ClientInvariant, PTL

\* Every request puts the whole conversation before the model, each message once and in
\* order, whichever mode and profile each turn was in.
THEOREM TheModelSeesAll == Spec => []ModelSeesTheConversation
<1>1. TypeOK /\ ClientInv => ModelSeesTheConversation
    BY ContextSays DEF ModelSeesTheConversation
<1> QED
    BY <1>1, ClientInvariant, PTL

\* A context with an unanswered native call is sent by a codex client only, after it has
\* fallen back to prompt mode.
THEOREM NativeCallsAreAnswered == Spec => []CallsAreAnswered
<1>1. TypeOK /\ ClientInv => CallsAreAnswered
    <2> SUFFICES ASSUME TypeOK, ClientInv, Awaiting, ~Excused PROVE Unanswered = {}
        BY DEF CallsAreAnswered, Excused
    <2> QED
        BY ContextCalls DEF Unanswered
<1> QED
    BY <1>1, ClientInvariant, PTL
=============================================================================
