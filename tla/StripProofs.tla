----------------------------- MODULE StripProofs -----------------------------
(***************************************************************************)
(* Proofs about the instruction store under loads of plain and stripped    *)
(* files: for all images, what is loaded stays as it was linked, symbols   *)
(* stay bound to their first definition, nothing can be linked to what a   *)
(* failed load has left behind, and new names change none of this.         *)
(***************************************************************************)
EXTENDS Strip, NaturalFacts, SequenceTheorems

\* A sequence that agrees with s where s is defined.
LEMMA PrefixOf ==
    ASSUME NEW s, NEW t, IsSequence(s), IsSequence(t), Len(s) <= Len(t),
           \A i \in 1 .. Len(s) : t[i] = s[i]
    PROVE  IsPrefix(s, t)
<1>1. Len(s) \in Nat /\ Len(t) \in Nat
  BY SequenceHas
<1>2. SubSeq(s, 1, Len(s)) = [i \in 1 .. Len(s) |-> s[i]]
  BY <1>1
<1>3. SubSeq(t, 1, Len(s)) = [i \in 1 .. Len(s) |-> t[i]]
  BY <1>1
<1> QED
  BY <1>2, <1>3 DEF IsPrefix

-----------------------------------------------------------------------------
(* Symbols *)

\* find_export finds the first symbol of the name, if there is one.
LEMMA FindExportFinds ==
    ASSUME NEW exports, IsSequence(exports), NEW name
    PROVE  \/ /\ FindExport(exports, name) = 0
              /\ \A i \in 1 .. Len(exports) : exports[i].name # name
           \/ /\ FindExport(exports, name) \in 1 .. Len(exports)
              /\ exports[FindExport(exports, name)].name = name
              /\ \A i \in 1 .. (FindExport(exports, name) - 1) : exports[i].name # name
<1> DEFINE I == {i \in 1 .. Len(exports) : exports[i].name = name}
<1>1. Len(exports) \in Nat
  BY SequenceHas
<1>2. FindExport(exports, name) = IF I # {} THEN Min(I) ELSE 0
  BY DEF FindExport, SelectInSeq
<1>3. CASE I = {}
  BY <1>2, <1>3
<1>4. CASE I # {}
  <2>1. I \in SUBSET Nat
    BY <1>1
  <2>2. \E m \in I : \A k \in I : m <= k
    <3> HIDE DEF I
    <3> QED
      BY <1>4, <2>1, LeastNatural
  <2>3. Min(I) \in I /\ \A k \in I : Min(I) <= k
    <3> HIDE DEF I
    <3> QED
      BY <2>2 DEF Min
  <2> DEFINE m == Min(I)
  <2>4. m \in 1 .. Len(exports) /\ exports[m].name = name
    BY <2>3
  <2>5. ASSUME NEW i \in 1 .. (m - 1) PROVE exports[i].name # name
    <3> HIDE DEF m
    <3>1. i \in 1 .. Len(exports) /\ ~(m <= i)
      BY <1>1, <2>4, <2>5
    <3> QED
      BY <2>3, <3>1 DEF m
  <2>6. FindExport(exports, name) = m
    BY <1>2, <1>4
  <2> HIDE DEF m
  <2> QED
    BY <2>4, <2>5, <2>6
<1> QED
  BY <1>3, <1>4

\* A symbol that is defined stays bound when more symbols follow.
LEMMA SymbolStays ==
    ASSUME NEW exports, IsSequence(exports), NEW more, IsSequence(more), NEW name,
           FindExport(exports, name) # 0
    PROVE  /\ FindExport(exports \o more, name) = FindExport(exports, name)
           /\ (exports \o more)[FindExport(exports, name)] = exports[FindExport(exports, name)]
<1> DEFINE all == exports \o more
           a == FindExport(exports, name)
           b == FindExport(all, name)
<1>1. /\ IsSequence(all) /\ Len(all) = Len(exports) + Len(more)
      /\ \A i \in 1 .. Len(exports) : all[i] = exports[i]
  BY SequenceJoined
<1>2. Len(exports) \in Nat /\ Len(more) \in Nat
  BY SequenceHas
<1>3. /\ a \in 1 .. Len(exports) /\ exports[a].name = name
      /\ \A i \in 1 .. (a - 1) : exports[i].name # name
  BY FindExportFinds
<1>4. \/ b = 0 /\ \A i \in 1 .. Len(all) : all[i].name # name
      \/ /\ b \in 1 .. Len(all) /\ all[b].name = name
         /\ \A i \in 1 .. (b - 1) : all[i].name # name
  <2> HIDE DEF all
  <2> QED
    BY <1>1, FindExportFinds
<1> HIDE DEF all, a, b
<1>5. a \in 1 .. Len(all) /\ all[a].name = name
  BY <1>1, <1>2, <1>3
<1>6. b \in 1 .. Len(all) /\ all[b].name = name /\ \A i \in 1 .. (b - 1) : all[i].name # name
  BY <1>4, <1>5
<1>7. ~(a < b)
  BY <1>2, <1>3, <1>5, <1>6
<1>8. ~(b < a)
  <2> SUFFICES ASSUME b < a PROVE FALSE
    OBVIOUS
  <2>1. b \in 1 .. (a - 1) /\ b \in 1 .. Len(exports)
    BY <1>2, <1>3, <1>6
  <2> QED
    BY <1>1, <1>3, <1>6, <2>1
<1>9. a = b
  BY <1>2, <1>3, <1>6, <1>7, <1>8
<1> QED
  BY <1>1, <1>3, <1>9 DEF a, b, all

\* The same of the longer list.
LEMMA SymbolStaysIn ==
    ASSUME NEW exports, IsSequence(exports), NEW more, IsSequence(more), NEW name,
           FindExport(exports, name) # 0, NEW all, all = exports \o more
    PROVE  all[FindExport(all, name)] = exports[FindExport(exports, name)]
<1>1. /\ FindExport(exports \o more, name) = FindExport(exports, name)
      /\ (exports \o more)[FindExport(exports, name)] = exports[FindExport(exports, name)]
  BY SymbolStays
<1> QED
  BY <1>1

-----------------------------------------------------------------------------
(* Linking *)

\* The recursion along the references has a solution.
LEMMA LinksDefined ==
    ASSUME NEW st, NEW image, NEW p, Len(image.externals) \in Nat
    PROVE  Links(st, image, p) =
           [i \in 0 .. Len(image.externals) |->
               IF i = 0
               THEN [code |-> AddedCode(st, image, p), error |-> FALSE]
               ELSE Resolve(Links(st, image, p)[i - 1], image.externals[i], Len(st.code),
                            Len(image.instructions), st.exports)]
<1> DEFINE Base == [code |-> AddedCode(st, image, p), error |-> FALSE]
           Then(r, i) == Resolve(r, image.externals[i], Len(st.code),
                                  Len(image.instructions), st.exports)
           S == {n \in Nat : \E g : g = [i \in 0 .. n |-> IF i = 0 THEN Base ELSE Then(g[i - 1], i)]}
<1>1. 0 \in S
  <2> DEFINE g == [i \in 0 .. 0 |-> Base]
  <2>1. g = [i \in 0 .. 0 |-> IF i = 0 THEN Base ELSE Then(g[i - 1], i)]
    OBVIOUS
  <2> QED
    BY <2>1
<1>2. ASSUME NEW n \in Nat, n \in S PROVE n + 1 \in S
  <2>1. PICK g : g = [i \in 0 .. n |-> IF i = 0 THEN Base ELSE Then(g[i - 1], i)]
    BY <1>2
  <2> DEFINE h == [i \in 0 .. (n + 1) |-> IF i = n + 1 THEN Then(g[n], n + 1) ELSE g[i]]
  <2> HIDE DEF Base, Then
  <2>2. ASSUME NEW i \in 0 .. (n + 1) PROVE h[i] = IF i = 0 THEN Base ELSE Then(h[i - 1], i)
    <3>1. CASE i = n + 1
      <4>1. h[i] = Then(g[n], n + 1) /\ i - 1 \in 0 .. (n + 1) /\ i - 1 = n /\ i # 0
        BY <3>1
      <4>2. h[n] = g[n]
        OBVIOUS
      <4> QED
        BY <3>1, <4>1, <4>2
    <3>2. CASE i # n + 1
      <4>1. i \in 0 .. n /\ h[i] = g[i]
        BY <3>2
      <4>2. g[i] = IF i = 0 THEN Base ELSE Then(g[i - 1], i)
        BY <2>1, <4>1
      <4>3. i # 0 => i - 1 \in 0 .. (n + 1) /\ i - 1 # n + 1
        BY <4>1
      <4>4. i # 0 => h[i - 1] = g[i - 1]
        BY <4>3
      <4> QED
        BY <4>1, <4>2, <4>4
    <3> QED
      BY <3>1, <3>2
  <2>3. h = [i \in 0 .. (n + 1) |-> IF i = 0 THEN Base ELSE Then(h[i - 1], i)]
    <3>1. h = [i \in 0 .. (n + 1) |-> h[i]]
      OBVIOUS
    <3> HIDE DEF h
    <3> QED
      BY <2>2, <3>1
  <2>4. \E f : f = [i \in 0 .. (n + 1) |-> IF i = 0 THEN Base ELSE Then(f[i - 1], i)]
    <3> HIDE DEF h
    <3> QED
      BY <2>3
  <2> QED
    BY <2>4
<1>3. Len(image.externals) \in S
  <2> HIDE DEF S
  <2> QED
    BY <1>1, <1>2, InductionOnSet
<1>4. \E g : g = [i \in 0 .. Len(image.externals) |-> IF i = 0 THEN Base ELSE Then(g[i - 1], i)]
  BY <1>3
<1> QED
  BY <1>4 DEF Links

LinkFields == {"destination_1", "destination_2"}

\* What load_file relies on in a file, whatever the names are.
Loadable(image) ==
    /\ IsSequence(image.instructions) /\ IsSequence(image.externals) /\ IsSequence(image.exports)
    /\ \A k \in 1 .. Len(image.instructions) :
          /\ LinkFields \subseteq DOMAIN image.instructions[k]
          /\ \A field \in LinkFields : image.instructions[k][field] \in Nat
    /\ \A i \in 1 .. Len(image.externals) : image.externals[i].number \in Nat

\* The references among the first n that fill a field of an instruction.
RefsTo(image, number, field, n) ==
    {i \in 1 .. n : image.externals[i].number = number /\ field \in image.externals[i].flags}

Bound(st, ref) == st.exports[FindExport(st.exports, ref.name)].destination

\* The shape of the code while references are resolved.
LinkShape(st, image, r) ==
    /\ r = [code |-> r.code, error |-> r.error] /\ r.error \in BOOLEAN
    /\ IsSequence(r.code) /\ Len(r.code) = Len(st.code) + Len(image.instructions)
    /\ \A k \in 1 .. Len(st.code) : r.code[k] = st.code[k]
    /\ \A k \in 1 .. Len(image.instructions) : LinkFields \subseteq DOMAIN r.code[Len(st.code) + k]

\* What the first n references have made of the fields: the last one wins.
LinkResult(st, image, p, r, n) ==
    ~r.error =>
        \A k \in 1 .. Len(image.instructions), field \in LinkFields :
            /\ RefsTo(image, k - 1, field, n) = {} =>
                  r.code[Len(st.code) + k][field] = Relocate(image, k - 1, Len(st.code), p)[field]
            /\ \A i \in RefsTo(image, k - 1, field, n) :
                  (\A q \in RefsTo(image, k - 1, field, n) : q <= i) =>
                      r.code[Len(st.code) + k][field] = Bound(st, image.externals[i])

\* What relocation makes of a destination.
Moved(image, number, start, field) ==
    LET d == image.instructions[number + 1][field]
    IN  IF IsInList(image.constants, number, field) \/ d = DEV_NULL_DESTINATION
        THEN d ELSE IncrementDestinationAddress(d, start)

\* The fields of a relocated instruction.
LEMMA RelocateFields ==
    ASSUME NEW image, NEW number \in Nat, NEW start, NEW p,
           LinkFields \subseteq DOMAIN image.instructions[number + 1]
    PROVE  /\ LinkFields \subseteq DOMAIN Relocate(image, number, start, p)
           /\ \A field \in LinkFields :
                 Relocate(image, number, start, p)[field] = Moved(image, number, start, field)
<1>1. /\ "destination_1" \in DOMAIN image.instructions[number + 1]
      /\ "destination_2" \in DOMAIN image.instructions[number + 1]
  BY DEF LinkFields
<1> QED
  BY <1>1 DEF LinkFields, Relocate, Moved

\* The fields of an instruction after a reference has been resolved.
LEMMA ResolveFields ==
    ASSUME NEW inst, NEW ref, NEW destination, LinkFields \subseteq DOMAIN inst
    PROVE  /\ LinkFields \subseteq DOMAIN ResolveField(inst, ref, destination)
           /\ \A field \in LinkFields :
                 ResolveField(inst, ref, destination)[field] =
                 IF field \in ref.flags THEN destination ELSE inst[field]
BY DEF LinkFields, ResolveField

LEMMA AddedCodeLinks ==
    ASSUME NEW st, IsSequence(st.code), NEW image, Loadable(image), NEW p \in BOOLEAN
    PROVE  LET r == [code |-> AddedCode(st, image, p), error |-> FALSE]
           IN  LinkShape(st, image, r) /\ LinkResult(st, image, p, r, 0)
<1> DEFINE r == [code |-> AddedCode(st, image, p), error |-> FALSE]
           start == Len(st.code)
           count == Len(image.instructions)
           added == [k \in 1 .. count |-> Relocate(image, k - 1, start, p)]
<1>1. count \in Nat /\ start \in Nat
  BY SequenceHas DEF Loadable
<1>2. IsSequence(added) /\ Len(added) = count
  <2>1. DOMAIN added = 1 .. count /\ added = [k \in 1 .. count |-> added[k]]
    OBVIOUS
  <2> HIDE DEF added, count
  <2> QED
    BY <1>1, <2>1, SequenceMade
<1>3. AddedCode(st, image, p) = st.code \o added
  BY DEF AddedCode
<1>4. ASSUME NEW k \in 1 .. count
      PROVE  added[k] = Relocate(image, k - 1, start, p) /\ LinkFields \subseteq DOMAIN added[k]
  <2>1. added[k] = Relocate(image, k - 1, start, p)
    OBVIOUS
  <2>2. k - 1 \in Nat /\ (k - 1) + 1 = k
    BY <1>1
  <2>3. LinkFields \subseteq DOMAIN image.instructions[(k - 1) + 1]
    BY <2>2 DEF Loadable
  <2>4. LinkFields \subseteq DOMAIN Relocate(image, k - 1, start, p)
    BY <2>2, <2>3, RelocateFields
  <2> QED
    BY <2>1, <2>4
<1> HIDE DEF added
<1>5. /\ IsSequence(r.code) /\ Len(r.code) = start + count
      /\ \A k \in 1 .. start : r.code[k] = st.code[k]
      /\ \A k \in 1 .. count : r.code[start + k] = added[k]
  <2>1. r.code = st.code \o added
    BY <1>3
  <2> DEFINE joined == st.code \o added
  <2>2. /\ IsSequence(joined) /\ Len(joined) = start + count
        /\ \A k \in 1 .. start : joined[k] = st.code[k]
        /\ \A k \in 1 .. count : joined[start + k] = added[k]
    <3> HIDE DEF count
    <3> QED
      BY <1>2, SequenceJoined
  <2> HIDE DEF joined, r, start, count
  <2> QED
    BY <2>1, <2>2 DEF joined
<1>6. LinkShape(st, image, r)
  <2>1. r = [code |-> r.code, error |-> r.error] /\ r.error \in BOOLEAN
    OBVIOUS
  <2> HIDE DEF r
  <2> QED
    BY <1>4, <1>5, <2>1 DEF LinkShape
<1>7. LinkResult(st, image, p, r, 0)
  <2>1. \A number, field : RefsTo(image, number, field, 0) = {}
    BY DEF RefsTo
  <2> QED
    BY <1>4, <1>5, <2>1 DEF LinkResult
<1> QED
  BY <1>6, <1>7

\* One more reference.
LEMMA ResolveLinks ==
    ASSUME NEW st, IsSequence(st.code), NEW image, Loadable(image), NEW p \in BOOLEAN, NEW r,
           NEW n \in 1 .. Len(image.externals),
           LinkShape(st, image, r), LinkResult(st, image, p, r, n - 1)
    PROVE  LET s == Resolve(r, image.externals[n], Len(st.code), Len(image.instructions), st.exports)
           IN  LinkShape(st, image, s) /\ LinkResult(st, image, p, s, n)
<1> DEFINE start == Len(st.code)
           count == Len(image.instructions)
           ref == image.externals[n]
           s == Resolve(r, ref, start, count, st.exports)
<1>1. /\ count \in Nat /\ start \in Nat /\ Len(image.externals) \in Nat /\ ref.number \in Nat
      /\ n \in Nat /\ n - 1 \in Nat
  BY SequenceHas DEF Loadable
<1>2. /\ r = [code |-> r.code, error |-> r.error] /\ r.error \in BOOLEAN
      /\ IsSequence(r.code) /\ Len(r.code) = start + count
      /\ \A k \in 1 .. start : r.code[k] = st.code[k]
      /\ \A k \in 1 .. count : LinkFields \subseteq DOMAIN r.code[start + k]
  BY DEF LinkShape
<1>3. \A number, field :
         RefsTo(image, number, field, n) =
         IF ref.number = number /\ field \in ref.flags
         THEN RefsTo(image, number, field, n - 1) \cup {n}
         ELSE RefsTo(image, number, field, n - 1)
  BY <1>1 DEF RefsTo
<1> SUFFICES LinkShape(st, image, s) /\ LinkResult(st, image, p, s, n)
  OBVIOUS
<1>4. CASE r.error \/ ref.number > count
  <2>1. s = [code |-> r.code, error |-> TRUE]
    <3> HIDE DEF ref, start, count
    <3> QED
      BY <1>2, <1>4 DEF Resolve
  <2>2. s = [code |-> s.code, error |-> s.error] /\ s.code = r.code /\ s.error = TRUE
    <3> HIDE DEF s
    <3> QED
      BY <2>1
  <2> HIDE DEF s
  <2> QED
    BY <1>2, <2>2 DEF LinkShape, LinkResult
<1>5. CASE ~r.error /\ ref.number = count
  <2>1. s = r
    <3> HIDE DEF ref, start, count
    <3> QED
      BY <1>1, <1>2, <1>5 DEF Resolve
  <2>2. \A k \in 1 .. count, field \in LinkFields :
           RefsTo(image, k - 1, field, n) = RefsTo(image, k - 1, field, n - 1)
    BY <1>1, <1>3, <1>5
  <2> HIDE DEF s
  <2> QED
    BY <2>1, <2>2 DEF LinkResult
<1>6. CASE ~r.error /\ ref.number < count
  <2> DEFINE at == start + ref.number + 1
             inst == ResolveField(r.code[at], ref, Bound(st, ref))
             code == [r.code EXCEPT ![at] = inst]
  <2>1. s = [code |-> code, error |-> FALSE]
    <3>1. s = [r EXCEPT !.code = code]
      <4> HIDE DEF start, count, ref
      <4>1. ~(r.error \/ ref.number > count) /\ ref.number # count
        BY <1>1, <1>6
      <4> QED
        BY <4>1 DEF Resolve, Bound
    <3> HIDE DEF s, code
    <3>2. DOMAIN r = {"code", "error"} /\ r.error = FALSE
      BY <1>2, <1>6
    <3> QED
      BY <1>2, <3>1, <3>2
  <2>2. at \in 1 .. (start + count) /\ at = start + (ref.number + 1) /\ ref.number + 1 \in 1 .. count
    <3> DEFINE number == ref.number
    <3>1. number \in Nat /\ number < count /\ at = start + number + 1
      BY <1>1, <1>6
    <3> HIDE DEF start, count, number, at
    <3>2. at \in 1 .. (start + count) /\ at = start + (number + 1) /\ number + 1 \in 1 .. count
      BY <1>1, <3>1
    <3> QED
      BY <3>2 DEF number
  <2>3. /\ IsSequence(code) /\ Len(code) = start + count
        /\ \A k \in 1 .. (start + count) : code[k] = IF k = at THEN inst ELSE r.code[k]
    <3> DEFINE base == r.code
    <3>1. IsSequence(base) /\ Len(base) = start + count
      BY <1>2
    <3> HIDE DEF base, at, inst, start, count
    <3>2. code = [base EXCEPT ![at] = inst]
      BY DEF base
    <3> HIDE DEF code
    <3>3. start + count \in Nat /\ DOMAIN base = 1 .. (start + count)
      BY <1>1, <3>1, SequenceHas
    <3>4. /\ DOMAIN code = 1 .. (start + count)
          /\ code = [k \in 1 .. (start + count) |-> code[k]]
          /\ \A k \in 1 .. (start + count) : code[k] = IF k = at THEN inst ELSE base[k]
      BY <3>2, <3>3
    <3>5. IsSequence(code) /\ Len(code) = start + count
      BY <3>3, <3>4, SequenceMade
    <3> QED
      BY <3>4, <3>5 DEF base
  <2>4. LinkFields \subseteq DOMAIN r.code[at]
    BY <1>2, <2>2
  <2>5. /\ LinkFields \subseteq DOMAIN inst
        /\ \A field \in LinkFields :
              inst[field] = IF field \in ref.flags THEN Bound(st, ref) ELSE r.code[at][field]
    BY <2>4, ResolveFields
  <2> HIDE DEF at, inst, code, s
  <2>6. \A k \in 1 .. start : code[k] = st.code[k]
    <3> DEFINE number == ref.number
    <3>0. number \in Nat /\ at = start + (number + 1)
      BY <1>1, <2>2
    <3> HIDE DEF start, count, number
    <3>1. ASSUME NEW k \in 1 .. start PROVE k \in 1 .. (start + count) /\ k # at
      BY <1>1, <3>0
    <3> QED
      BY <1>2, <2>3, <3>1
  <2>7. ASSUME NEW k \in 1 .. count
        PROVE  /\ start + k \in 1 .. (start + count)
               /\ start + k = at <=> ref.number = k - 1
               /\ LinkFields \subseteq DOMAIN code[start + k]
    <3>1. start + k \in 1 .. (start + count) /\ (start + k = at <=> ref.number = k - 1)
      <4> DEFINE number == ref.number
      <4>1. number \in Nat /\ at = start + (number + 1)
        BY <1>1, <2>2
      <4> HIDE DEF start, count, number
      <4>2. start + k \in 1 .. (start + count) /\ (start + k = at <=> number = k - 1)
        BY <1>1, <4>1
      <4> QED
        BY <4>2 DEF number
    <3> QED
      BY <1>2, <2>3, <2>5, <3>1
  <2>8. LinkShape(st, image, s)
    BY <1>2, <2>1, <2>3, <2>6, <2>7 DEF LinkShape
  <2>9. ASSUME NEW k \in 1 .. count, NEW field \in LinkFields,
               RefsTo(image, k - 1, field, n) = {}
        PROVE  code[start + k][field] = Relocate(image, k - 1, start, p)[field]
    <3>1. ~(ref.number = k - 1 /\ field \in ref.flags) /\ RefsTo(image, k - 1, field, n - 1) = {}
      BY <1>3, <2>9
    <3>2. r.code[start + k][field] = Relocate(image, k - 1, start, p)[field]
      BY <1>6, <3>1 DEF LinkResult
    <3> QED
      BY <2>3, <2>5, <2>7, <3>1, <3>2
  <2>10. ASSUME NEW k \in 1 .. count, NEW field \in LinkFields,
                NEW i \in RefsTo(image, k - 1, field, n),
                \A q \in RefsTo(image, k - 1, field, n) : q <= i
         PROVE  code[start + k][field] = Bound(st, image.externals[i])
    <3>1. CASE ref.number = k - 1 /\ field \in ref.flags
      <4>1. n \in RefsTo(image, k - 1, field, n)
        BY <1>3, <3>1
      <4>2. i \in 1 .. n /\ n <= i
        BY <2>10, <4>1 DEF RefsTo
      <4>3. i = n
        BY <1>1, <4>2
      <4> QED
        BY <2>3, <2>5, <2>7, <3>1, <4>3
    <3>2. CASE ~(ref.number = k - 1 /\ field \in ref.flags)
      <4>1. RefsTo(image, k - 1, field, n) = RefsTo(image, k - 1, field, n - 1)
        BY <1>3, <3>2
      <4>2. r.code[start + k][field] = Bound(st, image.externals[i])
        BY <1>6, <2>10, <4>1 DEF LinkResult
      <4> QED
        BY <2>3, <2>5, <2>7, <3>2, <4>2
    <3> QED
      BY <3>1, <3>2
  <2>11. LinkResult(st, image, p, s, n)
    BY <2>1, <2>9, <2>10 DEF LinkResult
  <2> QED
    BY <2>8, <2>11
<1> QED
  BY <1>1, <1>2, <1>4, <1>5, <1>6

\* The code that load_file leaves.
LEMMA CodeLinked ==
    ASSUME NEW st, IsSequence(st.code), NEW image, Loadable(image), NEW p \in BOOLEAN
    PROVE  /\ LinkShape(st, image, LinkedCode(st, image, p))
           /\ LinkResult(st, image, p, LinkedCode(st, image, p), Len(image.externals))
<1> DEFINE f == Links(st, image, p)
           n == Len(image.externals)
           Good(i) == LinkShape(st, image, f[i]) /\ LinkResult(st, image, p, f[i], i)
           S == {i \in Nat : i <= n => Good(i)}
<1>1. n \in Nat
  BY SequenceHas DEF Loadable
<1>2. /\ f[0] = [code |-> AddedCode(st, image, p), error |-> FALSE]
      /\ \A i \in 1 .. n : f[i] = Resolve(f[i - 1], image.externals[i], Len(st.code),
                                         Len(image.instructions), st.exports)
  <2>1. f = [i \in 0 .. n |->
               IF i = 0
               THEN [code |-> AddedCode(st, image, p), error |-> FALSE]
               ELSE Resolve(f[i - 1], image.externals[i], Len(st.code),
                            Len(image.instructions), st.exports)]
    BY <1>1, LinksDefined
  <2> HIDE DEF f, n
  <2>2. 0 \in 0 .. n /\ \A i \in 1 .. n : i \in 0 .. n /\ i # 0
    BY <1>1
  <2> QED
    BY <2>1, <2>2
<1> HIDE DEF f
<1>3. 0 \in S
  BY <1>2, AddedCodeLinks
<1>4. ASSUME NEW i \in Nat, i \in S PROVE i + 1 \in S
  <2> SUFFICES ASSUME i + 1 <= n PROVE Good(i + 1)
    OBVIOUS
  <2>1. Good(i) /\ i + 1 \in 1 .. n /\ (i + 1) - 1 = i
    BY <1>1, <1>4
  <2>2. f[i + 1] = Resolve(f[i], image.externals[i + 1], Len(st.code),
                           Len(image.instructions), st.exports)
    BY <1>2, <2>1
  <2> QED
    BY <2>1, <2>2, ResolveLinks
<1>5. n \in S
  <2> HIDE DEF S
  <2> QED
    BY <1>1, <1>3, <1>4, InductionOnSet
<1>6. Good(n)
  BY <1>1, <1>5
<1> QED
  BY <1>6 DEF LinkedCode, f

-----------------------------------------------------------------------------
(* Destinations *)

LEMMA AddressSpacePositive == AddressSpace \in Nat \ {0} /\ DestinationSpace = 16 * AddressSpace
BY WidthAssumption, PowerPositive DEF AddressSpace, DestinationSpace

\* An address that there is room for is found in its destination.
LEMMA AddressKept ==
    ASSUME NEW d \in Nat, NEW start \in Nat,
           DestinationToAddress(d) + start < AddressSpace
    PROVE  DestinationToAddress(IncrementDestinationAddress(d, start))
           = DestinationToAddress(d) + start
<1> DEFINE A == AddressSpace
           a == DestinationToAddress(d) + start
           i == DestinationToInput(d)
           m == DestinationToMatchingFunction(d)
<1>1. A \in Nat
  BY AddressSpacePositive
<1>2. a \in Nat /\ i \in 0 .. 1 /\ m \in 0 .. 3 /\ a < A
  BY DEF DestinationToAddress, DestinationToInput, DestinationToMatchingFunction
<1> DEFINE w == (2 * a + i) * 8 + m
<1>3. IncrementDestinationAddress(d, start) = w % (16 * A)
  BY AddressSpacePositive DEF IncrementDestinationAddress, CreateDestination
<1> HIDE DEF A, a, i, m
<1>4. w \in Nat /\ w < 16 * A /\ w \div 16 = a
  BY <1>1, <1>2
<1>5. w % (16 * A) = w
  <2> DEFINE M == 16 * A
  <2>1. M \in Nat /\ M > 0 /\ w < M
    BY <1>1, <1>4
  <2> HIDE DEF M, w
  <2>2. w % M = w
    BY <1>4, <2>1
  <2> QED
    BY <2>2 DEF M
<1> HIDE DEF w
<1> QED
  BY <1>3, <1>4, <1>5 DEF a, DestinationToAddress

\* There is room for the next file.
LEMMA RoomForOneMore ==
    ASSUME NEW M \in Nat, NEW n \in Nat, n < M, NEW A \in Nat, NEW a \in Nat, NEW c \in Nat,
           M * a <= n * A, M * c <= A
    PROVE  M * (a + c) <= (n + 1) * A /\ a + c <= A
<1>1. M * (a + c) = M * a + M * c /\ (n + 1) * A = n * A + A
  OBVIOUS
<1>2. M * a \in Nat /\ M * c \in Nat /\ n * A \in Nat
  OBVIOUS
<1>3. M * (a + c) <= (n + 1) * A
  BY <1>1, <1>2
<1>4. (n + 1) * A <= M * A
  <2>1. PICK k \in Nat : M = (n + 1) + k
    <3>1. M - (n + 1) \in Nat /\ M = (n + 1) + (M - (n + 1))
      OBVIOUS
    <3> QED
      BY <3>1
  <2>2. M * A = (n + 1) * A + k * A /\ k * A \in Nat
    BY <2>1
  <2>3. (n + 1) * A \in Nat
    OBVIOUS
  <2> QED
    BY <2>2, <2>3
<1>5. a + c <= A
  <2> SUFFICES ASSUME a + c > A PROVE FALSE
    OBVIOUS
  <2>1. PICK k \in Nat : a + c = A + k + 1
    <3>1. (a + c) - (A + 1) \in Nat /\ a + c = A + ((a + c) - (A + 1)) + 1
      OBVIOUS
    <3> QED
      BY <3>1
  <2>2. M * (a + c) = M * A + M * k + M /\ M * k \in Nat /\ M * A \in Nat
    BY <2>1
  <2>3. (n + 1) * A \in Nat /\ M > 0
    OBVIOUS
  <2> QED
    BY <1>3, <1>4, <2>2, <2>3
<1> QED
  BY <1>3, <1>5

-----------------------------------------------------------------------------
(* Files *)

\* A file that can be loaded: its symbols are its instructions, and MaxLoads
\* files of its size have addresses.
Fits(image) ==
    /\ Loadable(image)
    /\ {"instructions", "externals", "exports"} \subseteq DOMAIN image
    /\ \A i \in 1 .. Len(image.externals) : "number" \in DOMAIN image.externals[i]
    /\ \A i \in 1 .. Len(image.exports) :
          /\ "destination" \in DOMAIN image.exports[i]
          /\ image.exports[i].destination \in Nat
          /\ DestinationToAddress(image.exports[i].destination) < Len(image.instructions)
    /\ MaxLoads * Len(image.instructions) <= AddressSpace

LEMMA OriginalsFit ==
    ASSUME NEW f \in DOMAIN Originals
    PROVE  Fits(Originals[f])
<1> DEFINE image == Originals[f]
<1>1. image \in Images
  BY OriginalsAssumption
<1>2. /\ {"instructions", "externals", "exports"} \subseteq DOMAIN image
      /\ image.externals \in Seq(ExternalReferences) /\ image.exports \in Seq(ExportSymbols)
      /\ image.instructions \in Seq(InstructionWords)
  BY <1>1 DEF Images
<1>3. Destinations \subseteq Nat
  BY AddressSpacePositive DEF Destinations
<1>4. /\ \A i \in DOMAIN image.exports :
            DestinationToAddress(image.exports[i].destination) < Len(image.instructions)
      /\ MaxLoads * Len(image.instructions) <= AddressSpace
  BY OriginalsAssumption DEF ToSet
<1> HIDE DEF image
<1>5. IsSequence(image.instructions) /\ IsSequence(image.externals) /\ IsSequence(image.exports)
  BY <1>2, SequenceIs
<1>6. ASSUME NEW k \in 1 .. Len(image.instructions)
      PROVE  /\ LinkFields \subseteq DOMAIN image.instructions[k]
             /\ \A field \in LinkFields : image.instructions[k][field] \in Nat
  <2> DEFINE inst == image.instructions[k]
  <2>1. inst \in InstructionWords
    BY <1>2, LenProperties
  <2> HIDE DEF inst
  <2>2. /\ LinkFields \subseteq DOMAIN inst
        /\ inst.destination_1 \in Nat /\ inst.destination_2 \in Nat
    BY <1>3, <2>1 DEF InstructionWords, LinkFields
  <2> QED
    BY <2>2 DEF LinkFields, inst
<1>7. ASSUME NEW i \in 1 .. Len(image.externals)
      PROVE  "number" \in DOMAIN image.externals[i] /\ image.externals[i].number \in Nat
  <2>1. image.externals[i] \in ExternalReferences
    BY <1>2, LenProperties
  <2> QED
    BY <2>1 DEF ExternalReferences
<1>8. ASSUME NEW i \in 1 .. Len(image.exports)
      PROVE  /\ "destination" \in DOMAIN image.exports[i]
             /\ image.exports[i].destination \in Nat
             /\ DestinationToAddress(image.exports[i].destination) < Len(image.instructions)
  <2>1. image.exports[i] \in ExportSymbols /\ i \in DOMAIN image.exports
    BY <1>2, LenProperties
  <2> QED
    BY <1>3, <1>4, <2>1 DEF ExportSymbols
<1> QED
  BY <1>2, <1>4, <1>5, <1>6, <1>7, <1>8 DEF Fits, Loadable, image

\* New names change nothing else.
LEMMA RenamedFits ==
    ASSUME NEW image, Fits(image), NEW names
    PROVE  Fits(Renamed(image, names))
<1> DEFINE new == Renamed(image, names)
<1>1. /\ {"instructions", "externals", "exports"} \subseteq DOMAIN new
      /\ new.instructions = image.instructions
      /\ DOMAIN new.externals = DOMAIN image.externals
      /\ DOMAIN new.exports = DOMAIN image.exports
      /\ new.externals = [i \in DOMAIN image.externals |-> new.externals[i]]
      /\ new.exports = [i \in DOMAIN image.exports |-> new.exports[i]]
  BY DEF Renamed, WithName, Fits
<1>2. ASSUME NEW i \in DOMAIN image.externals, "number" \in DOMAIN image.externals[i]
      PROVE  /\ "number" \in DOMAIN new.externals[i]
             /\ new.externals[i].number = image.externals[i].number
  BY <1>2 DEF Renamed, WithName, Fits
<1>3. ASSUME NEW i \in DOMAIN image.exports, "destination" \in DOMAIN image.exports[i]
      PROVE  /\ "destination" \in DOMAIN new.exports[i]
             /\ new.exports[i].destination = image.exports[i].destination
  BY <1>3 DEF Renamed, WithName, Fits
<1> HIDE DEF new
<1>4. /\ DOMAIN image.externals = 1 .. Len(image.externals) /\ Len(image.externals) \in Nat
      /\ DOMAIN image.exports = 1 .. Len(image.exports) /\ Len(image.exports) \in Nat
  BY SequenceHas DEF Fits, Loadable
<1>5. IsSequence(new.externals) /\ Len(new.externals) = Len(image.externals)
  BY <1>1, <1>4, SequenceMade
<1>6. IsSequence(new.exports) /\ Len(new.exports) = Len(image.exports)
  BY <1>1, <1>4, SequenceMade
<1> QED
  BY <1>1, <1>2, <1>3, <1>4, <1>5, <1>6 DEF Fits, Loadable, new

-----------------------------------------------------------------------------
(* Loads *)

\* load_file either fails, and leaves the symbols alone and the code with
\* nothing or with all of the file's instructions behind it, or it links the
\* file and adds its symbols.
Outcome(st, image, loaded, linked, added) ==
    /\ loaded.error \in BOOLEAN /\ DOMAIN loaded.store = {"code", "exports"}
    /\ \/ loaded.error /\ loaded.store = st
       \/ loaded.error /\ loaded.store.code = linked.code /\ loaded.store.exports = st.exports
       \/ /\ ~loaded.error /\ ~linked.error
          /\ loaded.store.code = linked.code /\ loaded.store.exports = st.exports \o added
          /\ \A i \in 1 .. Len(image.externals) :
                FindExport(st.exports, image.externals[i].name) # 0

LEMMA LoadOutcome ==
    ASSUME NEW st, IsSequence(st.code), IsSequence(st.exports), NEW image, Fits(image),
           NEW p \in BOOLEAN, DOMAIN st = {"code", "exports"}
    PROVE  Outcome(st, image, LoadFile(st, image, p), LinkedCode(st, image, p),
                   ExportsOf(image, Len(st.code)))
<1> DEFINE loaded == LoadFile(st, image, p)
           linked == LinkedCode(st, image, p)
           added == ExportsOf(image, Len(st.code))
<1> SUFFICES Outcome(st, image, loaded, linked, added)
  OBVIOUS
<1>1. loaded = IF ~image.wellFormed \/ IsMissing(st, image) THEN LoadError(st)
               ELSE IF linked.error THEN LoadError([st EXCEPT !.code = linked.code])
               ELSE [store |-> [code |-> linked.code, exports |-> st.exports \o added],
                     count |-> Len(image.instructions), exports |-> added, error |-> FALSE]
  BY DEF LoadFile
<1> HIDE DEF loaded, linked, added
<1>2. CASE ~image.wellFormed \/ IsMissing(st, image)
  BY <1>1, <1>2 DEF LoadError, Outcome
<1>3. CASE ~(~image.wellFormed \/ IsMissing(st, image)) /\ linked.error
  BY <1>1, <1>3 DEF LoadError, Outcome
<1>4. CASE ~(~image.wellFormed \/ IsMissing(st, image)) /\ ~linked.error
  <2>1. loaded = [store |-> [code |-> linked.code, exports |-> st.exports \o added],
                  count |-> Len(image.instructions), exports |-> added, error |-> FALSE]
    BY <1>1, <1>4
  <2>2. DOMAIN image.externals = 1 .. Len(image.externals)
    BY SequenceHas DEF Fits, Loadable
  <2>3. \A i \in 1 .. Len(image.externals) :
           FindExport(st.exports, image.externals[i].name) # 0
    BY <1>4, <2>2 DEF IsMissing, ToSet
  <2> QED
    BY <1>4, <2>1, <2>3 DEF Outcome
<1> QED
  BY <1>2, <1>3, <1>4

\* The symbols of a file, and where they are.
LEMMA ExportsPlaced ==
    ASSUME NEW image, Fits(image), NEW start \in Nat,
           start + Len(image.instructions) <= AddressSpace
    PROVE  /\ IsSequence(ExportsOf(image, start))
           /\ Len(ExportsOf(image, start)) = Len(image.exports)
           /\ \A i \in 1 .. Len(image.exports) :
                 /\ ExportsOf(image, start)[i].name = image.exports[i].name
                 /\ DestinationToAddress(ExportsOf(image, start)[i].destination)
                       \in start .. (start + Len(image.instructions) - 1)
<1> DEFINE added == ExportsOf(image, start)
           count == Len(image.instructions)
<1>1. /\ DOMAIN image.exports = 1 .. Len(image.exports) /\ Len(image.exports) \in Nat
      /\ count \in Nat /\ AddressSpace \in Nat
  BY SequenceHas, AddressSpacePositive DEF Fits, Loadable
<1>2. DOMAIN added = 1 .. Len(image.exports) /\ added = [i \in 1 .. Len(image.exports) |-> added[i]]
  BY <1>1 DEF ExportsOf
<1>3. IsSequence(added) /\ Len(added) = Len(image.exports)
  <2> HIDE DEF added
  <2> QED
    BY <1>1, <1>2, SequenceMade
<1>4. ASSUME NEW i \in 1 .. Len(image.exports)
      PROVE  /\ added[i].name = image.exports[i].name
             /\ DestinationToAddress(added[i].destination) \in start .. (start + count - 1)
  <2> DEFINE d == image.exports[i].destination
             a == DestinationToAddress(d)
  <2>1. added[i].name = image.exports[i].name /\ added[i].destination = IncrementDestinationAddress(d, start)
    BY <1>1 DEF ExportsOf
  <2>2. d \in Nat /\ a < count
    BY DEF Fits
  <2> HIDE DEF d
  <2>3. a \in Nat
    BY <2>2 DEF DestinationToAddress
  <2>4. a + start < AddressSpace
    <3> HIDE DEF a, count
    <3> QED
      BY <1>1, <2>2, <2>3 DEF count
  <2>5. DestinationToAddress(IncrementDestinationAddress(d, start)) = a + start
    BY <2>2, <2>4, AddressKept
  <2> HIDE DEF a, added, count
  <2>6. a + start \in start .. (start + count - 1)
    BY <1>1, <2>2, <2>3
  <2> QED
    BY <2>1, <2>5, <2>6
<1> QED
  BY <1>3, <1>4

-----------------------------------------------------------------------------
(* The inductive invariant *)

StoreShape ==
    /\ DOMAIN store = {"code", "exports"}
    /\ IsSequence(store.code) /\ IsSequence(store.exports) /\ IsSequence(segments)
    /\ Len(segments) <= MaxLoads
    /\ MaxLoads * Len(store.code) <= Len(segments) * AddressSpace

FilesFit == \A f \in DOMAIN files : Fits(files[f])

\* A segment is inside of the code; if it is live it is all of its file, and
\* the symbols that the file refers to are still defined.
Placed(st, segment) ==
    /\ segment.start \in Nat /\ segment.count \in Nat
    /\ segment.start + segment.count <= Len(st.code)
    /\ Loadable(segment.image)
    /\ segment.live =>
          /\ segment.count = Len(segment.image.instructions)
          /\ \A i \in 1 .. Len(segment.image.externals) :
                FindExport(st.exports, segment.image.externals[i].name) # 0

SegmentsPlaced == \A i \in 1 .. Len(segments) : Placed(store, segments[i])

Inv ==
    /\ StoreShape
    /\ FilesFit
    /\ SegmentsPlaced
    /\ LiveCodeLinked
    /\ ExportsAreLive

LEMMA InvHolds == Init => Inv
<1> SUFFICES ASSUME Init PROVE Inv
  OBVIOUS
<1>1. /\ store = [code |-> <<>>, exports |-> <<>>] /\ segments = <<>> /\ files = Originals
  BY DEF Init, StoreInit, EmptyStore
<1>2. IsSequence(<<>>) /\ Len(<<>>) = 0 /\ DOMAIN <<>> = {}
  <2>1. <<>> \in Seq({}) /\ Len(<<>>) = 0 /\ DOMAIN <<>> = {}
    OBVIOUS
  <2> QED
    BY <2>1, SequenceIs
<1>3. DOMAIN store = {"code", "exports"} /\ store.code = <<>> /\ store.exports = <<>>
  BY <1>1
<1>4. MaxLoads * 0 = 0 /\ 0 * AddressSpace = 0 /\ 0 <= MaxLoads
  BY LoadsAssumption, AddressSpacePositive
<1>5. StoreShape
  BY <1>1, <1>2, <1>3, <1>4 DEF StoreShape
<1>6. FilesFit
  BY <1>1, OriginalsFit DEF FilesFit
<1>7. SegmentsPlaced
  BY <1>1, <1>2 DEF SegmentsPlaced
<1>8. LiveCodeLinked
  <2>1. LiveSegments = {}
    BY <1>1, <1>2 DEF LiveSegments
  <2> QED
    BY <2>1 DEF LiveCodeLinked
<1>9. ExportsAreLive
  BY <1>2, <1>3 DEF ExportsAreLive
<1> QED
  BY <1>5, <1>6, <1>7, <1>8, <1>9 DEF Inv

\* What a load does to the store: it adds instructions behind the others, no
\* more than the file has, and symbols behind the others.
LEMMA LoadExtends ==
    ASSUME StoreShape, NEW image, Fits(image), Load(image)
    PROVE  /\ StoreShape'
           /\ Len(store.code) \in Nat /\ Len(store.code) + Len(image.instructions) <= AddressSpace
           /\ Len(store'.code) \in Nat
           /\ Len(store.code) <= Len(store'.code)
           /\ \A k \in 1 .. Len(store.code) : store'.code[k] = store.code[k]
           /\ \E more : IsSequence(more) /\ store'.exports = store.exports \o more
<1> DEFINE start == Len(store.code)
           count == Len(image.instructions)
           p == (segments = <<>>)
           loaded == LoadFile(store, image, p)
           linked == LinkedCode(store, image, p)
           added == ExportsOf(image, start)
           n == Len(segments)
           M == MaxLoads
           A == AddressSpace
<1>1. /\ DOMAIN store = {"code", "exports"}
      /\ IsSequence(store.code) /\ IsSequence(store.exports) /\ IsSequence(segments)
      /\ M * start <= n * A
  BY DEF StoreShape
<1>2. start \in Nat /\ count \in Nat /\ n \in Nat /\ M \in Nat /\ A \in Nat /\ M * count <= A
  BY <1>1, SequenceHas, LoadsAssumption, AddressSpacePositive DEF Fits, Loadable
<1>3. p \in BOOLEAN
  OBVIOUS
<1>4. Outcome(store, image, loaded, linked, added)
  <2> HIDE DEF p
  <2> QED
    BY <1>1, <1>3, LoadOutcome
<1>5. /\ IsSequence(linked.code) /\ Len(linked.code) = start + count
      /\ \A k \in 1 .. start : linked.code[k] = store.code[k]
  <2>1. LinkShape(store, image, linked)
    <3> HIDE DEF p
    <3> QED
      BY <1>1, <1>3, CodeLinked DEF Fits
  <2> QED
    BY <2>1 DEF LinkShape
<1>6. /\ n < M /\ store' = loaded.store
      /\ \E e : segments' = Append(segments, e)
  BY DEF Load
<1> HIDE DEF p, loaded, linked, start, count, n, M, A
<1>7. M * (start + count) <= (n + 1) * A /\ start + count <= A
  BY <1>1, <1>2, <1>6, RoomForOneMore
<1>8. IsSequence(segments') /\ Len(segments') = n + 1
  BY <1>1, <1>6, SequenceAppended DEF n
<1>9. IsSequence(added)
  BY <1>2, <1>7, ExportsPlaced DEF count, A
<1>10. \E more : IsSequence(more) /\ store'.exports = store.exports \o more
  <2>1. IsSequence(<<>>) /\ store.exports \o <<>> = store.exports
    <3>1. <<>> \in Seq({}) /\ store.exports \o <<>> = store.exports
      BY <1>1, ConcatEmptySeq DEF IsSequence
    <3> QED
      BY <3>1, SequenceIs
  <2> HIDE DEF added
  <2>2. CASE store'.exports = store.exports
    BY <2>1, <2>2
  <2>3. CASE store'.exports = store.exports \o added
    BY <1>9, <2>3
  <2> QED
    BY <1>4, <1>6, <2>2, <2>3 DEF Outcome
<1>11. IsSequence(store'.exports)
  BY <1>1, <1>10, SequenceJoined
<1>12. /\ IsSequence(store'.code) /\ Len(store'.code) \in {start, start + count}
       /\ \A k \in 1 .. start : store'.code[k] = store.code[k]
  <2> HIDE DEF added
  <2>1. CASE store'.code = store.code
    BY <1>1, <2>1 DEF start
  <2>2. CASE store'.code = linked.code
    BY <1>5, <2>2
  <2> QED
    BY <1>4, <1>6, <2>1, <2>2 DEF Outcome
<1>13. M * Len(store'.code) <= (n + 1) * A
  <2>1. CASE Len(store'.code) = start
    <3>1. (n + 1) * A = n * A + A /\ M * start \in Nat /\ n * A \in Nat
      BY <1>2
    <3> QED
      BY <1>1, <1>2, <2>1, <3>1
  <2>2. CASE Len(store'.code) = start + count
    BY <1>7, <2>2
  <2> QED
    BY <1>12, <2>1, <2>2
<1>14. StoreShape'
  <2>1. DOMAIN store' = {"code", "exports"}
    BY <1>4, <1>6 DEF Outcome
  <2>2. n + 1 <= M
    BY <1>2, <1>6
  <2> QED
    BY <1>8, <1>11, <1>12, <1>13, <2>1, <2>2 DEF StoreShape, M, A
<1>15. Len(store'.code) \in Nat /\ start <= Len(store'.code)
  BY <1>2, <1>12
<1> QED
  BY <1>2, <1>7, <1>10, <1>12, <1>14, <1>15 DEF start, count, A

\* The segment of the load.
NewSegment(image) ==
    [image |-> image, start |-> Len(store.code),
     count |-> Len(LoadFile(store, image, segments = <<>>).store.code) - Len(store.code),
     live |-> ~LoadFile(store, image, segments = <<>>).error]

\* A successful load links the file and exports its symbols.
LEMMA LoadLinks ==
    ASSUME StoreShape, NEW image, Fits(image), Load(image), NewSegment(image).live
    PROVE  /\ Len(store'.code) = Len(store.code) + Len(image.instructions)
           /\ store'.exports = store.exports \o ExportsOf(image, Len(store.code))
           /\ \A i \in 1 .. Len(image.externals) :
                 FindExport(store.exports, image.externals[i].name) # 0
           /\ LinkResult(store, image, segments = <<>>, [code |-> store'.code, error |-> FALSE],
                         Len(image.externals))
<1> DEFINE p == (segments = <<>>)
           loaded == LoadFile(store, image, p)
           linked == LinkedCode(store, image, p)
           added == ExportsOf(image, Len(store.code))
<1>1. /\ DOMAIN store = {"code", "exports"}
      /\ IsSequence(store.code) /\ IsSequence(store.exports)
  BY DEF StoreShape
<1>2. p \in BOOLEAN
  OBVIOUS
<1>3. ~loaded.error /\ store' = loaded.store
  BY DEF NewSegment, Load
<1>4. /\ ~linked.error
      /\ loaded.store.code = linked.code /\ loaded.store.exports = store.exports \o added
      /\ \A i \in 1 .. Len(image.externals) :
            FindExport(store.exports, image.externals[i].name) # 0
  <2>1. Outcome(store, image, loaded, linked, added)
    <3> HIDE DEF p
    <3> QED
      BY <1>1, <1>2, LoadOutcome
  <2> HIDE DEF p, loaded, linked, added
  <2> QED
    BY <1>3, <2>1 DEF Outcome
<1>5. LinkShape(store, image, linked) /\ LinkResult(store, image, p, linked, Len(image.externals))
  <2> HIDE DEF p
  <2> QED
    BY <1>1, <1>2, CodeLinked DEF Fits
<1> HIDE DEF p, loaded, linked, added
<1>6. Len(linked.code) = Len(store.code) + Len(image.instructions)
  BY <1>5 DEF LinkShape
<1>7. LinkResult(store, image, p, [code |-> store'.code, error |-> FALSE], Len(image.externals))
  BY <1>3, <1>4, <1>5 DEF LinkResult
<1> QED
  BY <1>3, <1>4, <1>6, <1>7 DEF p, added

\* A load that fails exports nothing.
LEMMA LoadFails ==
    ASSUME StoreShape, NEW image, Fits(image), Load(image), ~NewSegment(image).live
    PROVE  store'.exports = store.exports
<1> DEFINE p == (segments = <<>>)
           loaded == LoadFile(store, image, p)
           linked == LinkedCode(store, image, p)
           added == ExportsOf(image, Len(store.code))
<1>1. /\ DOMAIN store = {"code", "exports"}
      /\ IsSequence(store.code) /\ IsSequence(store.exports)
  BY DEF StoreShape
<1>2. p \in BOOLEAN
  OBVIOUS
<1>3. loaded.error /\ store' = loaded.store
  BY DEF NewSegment, Load
<1>4. Outcome(store, image, loaded, linked, added)
  <2> HIDE DEF p
  <2> QED
    BY <1>1, <1>2, LoadOutcome
<1> HIDE DEF p, loaded, linked, added
<1> QED
  BY <1>3, <1>4 DEF Outcome

\* What an instruction should be linked to does not change with further loads.
LEMMA MeantStays ==
    ASSUME NEW segment, Loadable(segment.image), IsSequence(store.exports),
           NEW number, NEW field, NEW more, IsSequence(more),
           store'.exports = store.exports \o more,
           \A i \in 1 .. Len(segment.image.externals) :
               FindExport(store.exports, segment.image.externals[i].name) # 0
    PROVE  Meant(segment, number, field)' = Meant(segment, number, field)
<1> DEFINE refs == Externals(segment.image, number, field)
           last == CHOOSE i \in refs : \A j \in refs : j <= i
           name == segment.image.externals[last].name
<1>1. /\ DOMAIN segment.image.externals = 1 .. Len(segment.image.externals)
      /\ Len(segment.image.externals) \in Nat
  BY SequenceHas DEF Loadable
<1>2. CASE refs = {}
  <2>1. refs' = {} /\ refs' = refs
    BY <1>2 DEF Externals
  <2> HIDE DEF refs
  <2> QED
    BY <1>2 DEF Meant, refs
<1>3. CASE refs # {}
  <2>1. refs \in SUBSET Nat /\ \A i \in refs : i <= Len(segment.image.externals)
    BY <1>1 DEF Externals
  <2>2. last \in refs
    <3> HIDE DEF refs
    <3>1. \E i \in refs : \A j \in refs : j <= i
      BY <1>1, <1>3, <2>1, GreatestNatural
    <3> QED
      BY <3>1
  <2>3. FindExport(store.exports, name) # 0
    <3> HIDE DEF last
    <3> QED
      BY <1>1, <2>2 DEF Externals
  <2> HIDE DEF name
  <2>4. store'.exports[FindExport(store'.exports, name)]
        = store.exports[FindExport(store.exports, name)]
    <3> DEFINE old == store.exports
               new == store'.exports
    <3>1. IsSequence(old) /\ FindExport(old, name) # 0 /\ new = old \o more
      BY <2>3
    <3>2. new[FindExport(new, name)] = old[FindExport(old, name)]
      <4> HIDE DEF old, new
      <4> QED
        BY <3>1, SymbolStaysIn
    <3> QED
      BY <3>2
  <2>5. /\ Meant(segment, number, field)
           = store.exports[FindExport(store.exports, name)].destination
        /\ Meant(segment, number, field)'
           = store'.exports[FindExport(store'.exports, name)].destination
    BY <1>3 DEF Meant, name
  <2> QED
    BY <2>4, <2>5
<1> QED
  BY <1>2, <1>3

\* A file that has just been linked is linked as it should be.
LEMMA NewCodeLinked ==
    ASSUME StoreShape, NEW image, Fits(image), Load(image), NewSegment(image).live,
           NEW number \in 0 .. (Len(image.instructions) - 1), NEW field \in LinkFields,
           NEW segment, segment.image = image, segment.start = Len(store.code)
    PROVE  store'.code[Len(store.code) + number + 1][field] = Meant(segment, number, field)'
<1> DEFINE start == Len(store.code)
           count == Len(image.instructions)
           k == number + 1
           n == Len(image.externals)
           refs == Externals(image, number, field)
           last == CHOOSE i \in refs : \A j \in refs : j <= i
           name == image.externals[last].name
           p == (segments = <<>>)
<1>1. /\ start \in Nat /\ count \in Nat /\ n \in Nat /\ DOMAIN image.externals = 1 .. n
      /\ IsSequence(store.exports) /\ number \in Nat
  BY SequenceHas DEF StoreShape, Fits, Loadable
<1>2. k \in 1 .. count /\ k - 1 = number /\ start + number + 1 = start + k
  <2> HIDE DEF count, start
  <2> QED
    BY <1>1 DEF count
<1>3. /\ store'.exports = store.exports \o ExportsOf(image, start)
      /\ \A i \in 1 .. n : FindExport(store.exports, image.externals[i].name) # 0
      /\ LinkResult(store, image, p, [code |-> store'.code, error |-> FALSE], n)
  <2> HIDE DEF p
  <2> QED
    BY LoadLinks DEF p
<1>4. RefsTo(image, number, field, n) = refs
  BY <1>1 DEF RefsTo, Externals
<1>5. /\ refs = {} => store'.code[start + k][field] = Relocate(image, number, start, p)[field]
      /\ \A i \in refs :
            (\A q \in refs : q <= i) =>
                store'.code[start + k][field] = Bound(store, image.externals[i])
  <2> HIDE DEF p, refs, k
  <2> QED
    BY <1>2, <1>3, <1>4 DEF LinkResult
<1>6. CASE refs = {}
  <2> DEFINE d == image.instructions[k][field]
  <2>1. /\ k = number + 1 /\ d \in Nat
        /\ LinkFields \subseteq DOMAIN image.instructions[number + 1]
    BY <1>2 DEF Fits, Loadable
  <2>2. Relocate(image, number, start, p)[field]
        = IF IsInList(image.constants, number, field) \/ d = DEV_NULL_DESTINATION
          THEN d ELSE IncrementDestinationAddress(d, start)
    <3>1. Relocate(image, number, start, p)[field] = Moved(image, number, start, field)
      <4>1. number \in Nat /\ LinkFields \subseteq DOMAIN image.instructions[number + 1]
        BY <1>1, <2>1
      <4> HIDE DEF p, start, count, k, n, refs, last, name, d
      <4> QED
        BY <4>1, RelocateFields
    <3> HIDE DEF p, start
    <3> QED
      BY <2>1, <3>1 DEF Moved
  <2>3. Meant(segment, number, field)'
        = IF IsInList(image.constants, number, field) \/ d = DEV_NULL_DESTINATION
          THEN d
          ELSE CreateDestination(start + DestinationToAddress(d), DestinationToInput(d),
                                 DestinationToMatchingFunction(d))
    <3> HIDE DEF start
    <3> QED
      BY <1>6, <2>1 DEF Meant, start
  <2>4. start + DestinationToAddress(d) = DestinationToAddress(d) + start
    <3> HIDE DEF start, d
    <3> QED
      BY <1>1, <2>1 DEF DestinationToAddress
  <2>5. Relocate(image, number, start, p)[field] = Meant(segment, number, field)'
    <3> HIDE DEF start, d, p
    <3> QED
      BY <2>2, <2>3, <2>4 DEF IncrementDestinationAddress
  <2>6. store'.code[start + number + 1][field] = Relocate(image, number, start, p)[field]
    <3> HIDE DEF start, p, k, refs
    <3> QED
      BY <1>2, <1>5, <1>6
  <2> QED
    BY <2>5, <2>6
<1>7. CASE refs # {}
  <2>1. refs \in SUBSET Nat /\ \A i \in refs : i <= n
    BY <1>1 DEF Externals
  <2>2. last \in refs /\ \A j \in refs : j <= last
    <3> HIDE DEF refs, n
    <3>1. \E i \in refs : \A j \in refs : j <= i
      BY <1>1, <1>7, <2>1, GreatestNatural
    <3> QED
      BY <3>1
  <2>3. last \in 1 .. n
    BY <1>1, <2>2 DEF Externals
  <2>4. FindExport(store.exports, name) # 0
    <3> HIDE DEF last
    <3> QED
      BY <1>3, <2>3
  <2>5. store'.code[start + k][field] = Bound(store, image.externals[last])
    <3> HIDE DEF last, refs
    <3> QED
      BY <1>5, <2>2
  <2>6. Bound(store, image.externals[last])
        = store.exports[FindExport(store.exports, name)].destination
    BY DEF Bound
  <2>7. Meant(segment, number, field)'
        = store'.exports[FindExport(store'.exports, name)].destination
    BY <1>7 DEF Meant
  <2>8. Len(store.code) + Len(image.instructions) <= AddressSpace
    BY LoadExtends
  <2>9. IsSequence(ExportsOf(image, start))
    BY <1>1, <2>8, ExportsPlaced
  <2> HIDE DEF name, last, refs
  <2>10. store'.exports[FindExport(store'.exports, name)]
         = store.exports[FindExport(store.exports, name)]
    <3> DEFINE more == ExportsOf(image, start)
    <3> DEFINE old == store.exports
               new == store'.exports
    <3> HIDE DEF more, old, new
    <3>1. IsSequence(more) /\ new = old \o more
      BY <1>3, <2>9 DEF more, old, new
    <3>2. IsSequence(old) /\ FindExport(old, name) # 0
      BY <1>1, <2>4 DEF old
    <3>3. new[FindExport(new, name)] = old[FindExport(old, name)]
      BY <3>1, <3>2, SymbolStaysIn
    <3> QED
      BY <3>3 DEF old, new
  <2> QED
    BY <1>2, <2>5, <2>6, <2>7, <2>10
<1> QED
  BY <1>6, <1>7

\* The segments after a load are those before it and the new one.
LEMMA SegmentsAfter ==
    ASSUME StoreShape, NEW image, Load(image)
    PROVE  /\ Len(segments) \in Nat /\ Len(segments') = Len(segments) + 1
           /\ DOMAIN segments = 1 .. Len(segments) /\ DOMAIN segments' = 1 .. Len(segments')
           /\ \A i \in 1 .. Len(segments) : segments'[i] = segments[i]
           /\ segments'[Len(segments) + 1] = NewSegment(image)
           /\ LiveSegments' = LiveSegments \cup {s \in {NewSegment(image)} : s.live}
<1> DEFINE new == NewSegment(image)
           n == Len(segments)
<1>1. IsSequence(segments) /\ segments' = Append(segments, new)
  BY DEF StoreShape, Load, NewSegment
<1> HIDE DEF new
<1>2. /\ IsSequence(segments') /\ Len(segments') = n + 1
      /\ \A i \in 1 .. n : segments'[i] = segments[i]
      /\ segments'[n + 1] = new
  <2> DEFINE after == Append(segments, new)
  <2>1. /\ IsSequence(after) /\ Len(after) = n + 1
        /\ \A i \in 1 .. n : after[i] = segments[i]
        /\ after[n + 1] = new
    BY <1>1, SequenceAppended
  <2> QED
    BY <1>1, <2>1
<1>3. n \in Nat /\ DOMAIN segments = 1 .. n /\ DOMAIN segments' = 1 .. (n + 1)
  <2>1. n \in Nat /\ DOMAIN segments = 1 .. n
    BY <1>1, SequenceHas
  <2>2. DOMAIN segments' = 1 .. (n + 1)
    <3> DEFINE after == segments'
    <3>1. IsSequence(after) /\ Len(after) = n + 1
      BY <1>2
    <3> HIDE DEF after
    <3>2. DOMAIN after = 1 .. (n + 1)
      BY <3>1, SequenceHas
    <3> QED
      BY <3>2 DEF after
  <2> QED
    BY <2>1, <2>2
<1>4. LiveSegments = {segments[i] : i \in {j \in 1 .. n : segments[j].live}}
  BY <1>3 DEF LiveSegments
<1>5. LiveSegments' = {segments'[i] : i \in {j \in 1 .. (n + 1) : segments'[j].live}}
  BY <1>3 DEF LiveSegments
<1> HIDE DEF n
<1>6. \A i : i \in 1 .. (n + 1) <=> i \in 1 .. n \/ i = n + 1
  BY <1>3
<1>7. LiveSegments' = LiveSegments \cup {s \in {new} : s.live}
  BY <1>2, <1>4, <1>5, <1>6
<1> QED
  BY <1>2, <1>3, <1>7 DEF new, n

LEMMA LoadKeepsInv ==
    ASSUME Inv, NEW image, Fits(image), Load(image), UNCHANGED files
    PROVE  Inv'
<1> DEFINE new == NewSegment(image)
           start == Len(store.code)
           count == Len(image.instructions)
<1>1. StoreShape
  BY DEF Inv
<1>2. PICK more : IsSequence(more) /\ store'.exports = store.exports \o more
  BY <1>1, LoadExtends
<1>3. /\ StoreShape'
      /\ start \in Nat /\ start + count <= AddressSpace
      /\ Len(store'.code) \in Nat
      /\ start <= Len(store'.code)
      /\ \A k \in 1 .. start : store'.code[k] = store.code[k]
  BY <1>1, LoadExtends
<1>4. /\ Len(segments) \in Nat /\ Len(segments') = Len(segments) + 1
      /\ \A i \in 1 .. Len(segments) : segments'[i] = segments[i]
      /\ segments'[Len(segments) + 1] = new
      /\ LiveSegments' = LiveSegments \cup {s \in {new} : s.live}
      /\ DOMAIN segments = 1 .. Len(segments)
  BY <1>1, SegmentsAfter
<1>5. /\ new.image = image /\ new.start = start
      /\ new.count = Len(store'.code) - start
      /\ Loadable(image) /\ count \in Nat
  BY SequenceHas DEF NewSegment, Load, Fits, Loadable
<1>6. new.live =>
         /\ Len(store'.code) = start + count
         /\ store'.exports = store.exports \o ExportsOf(image, start)
         /\ \A i \in 1 .. Len(image.externals) :
               FindExport(store.exports, image.externals[i].name) # 0
  BY <1>1, LoadLinks
<1>7. IsSequence(store.exports)
  BY <1>1 DEF StoreShape
<1>8. ASSUME NEW name, FindExport(store.exports, name) # 0
      PROVE  FindExport(store'.exports, name) # 0
  <2>1. FindExport(store.exports \o more, name) = FindExport(store.exports, name)
    BY <1>2, <1>7, <1>8, SymbolStays
  <2> QED
    BY <1>2, <1>8, <2>1
<1> HIDE DEF new, start, count
<1>9. ASSUME NEW segment, Placed(store, segment) PROVE Placed(store', segment)
  <2>1. /\ segment.start \in Nat /\ segment.count \in Nat
        /\ segment.start + segment.count <= start
        /\ Loadable(segment.image)
    BY <1>9 DEF Placed, start
  <2>2. segment.start + segment.count <= Len(store'.code)
    <3> DEFINE a == segment.start
               b == segment.count
    <3> HIDE DEF a, b
    <3> QED
      BY <1>3, <2>1 DEF a, b
  <2> QED
    BY <1>8, <1>9, <2>1, <2>2 DEF Placed
<1>10. Placed(store', new)
  <2>1. new.start \in Nat /\ new.count \in Nat /\ new.start + new.count = Len(store'.code)
    BY <1>3, <1>5
  <2>2. new.live => new.count = count
    BY <1>3, <1>5, <1>6
  <2>3. new.live => \A i \in 1 .. Len(image.externals) :
                       FindExport(store'.exports, image.externals[i].name) # 0
    BY <1>6, <1>8
  <2>4. new.start + new.count <= Len(store'.code)
    BY <1>3, <2>1
  <2> QED
    BY <1>5, <2>1, <2>2, <2>3, <2>4 DEF Placed, count
<1>11. SegmentsPlaced'
  <2> SUFFICES ASSUME NEW i \in 1 .. Len(segments') PROVE Placed(store', segments'[i])
    BY DEF SegmentsPlaced
  <2>1. CASE i = Len(segments) + 1
    BY <1>4, <1>10, <2>1
  <2>2. CASE i # Len(segments) + 1
    <3>1. i \in 1 .. Len(segments)
      BY <1>4, <2>2
    <3>2. Placed(store, segments[i])
      BY <3>1 DEF Inv, SegmentsPlaced
    <3> QED
      BY <1>4, <1>9, <3>1, <3>2
  <2> QED
    BY <2>1, <2>2
<1>12. FilesFit'
  BY DEF Inv, FilesFit
<1>13. ASSUME NEW segment \in LiveSegments PROVE Placed(store, segment) /\ segment.live
  <2>1. PICK i \in 1 .. Len(segments) : segment = segments[i] /\ segments[i].live
    BY <1>4 DEF LiveSegments
  <2> QED
    BY <2>1 DEF Inv, SegmentsPlaced
<1>14. ASSUME NEW segment \in LiveSegments, NEW number \in 0 .. (segment.count - 1),
              NEW field \in LinkFields
       PROVE  InstructionAt(store', segment.start + number)[field] = Meant(segment, number, field)'
  <2>1. InstructionAt(store, segment.start + number)[field] = Meant(segment, number, field)
    BY DEF Inv, LiveCodeLinked, LinkFields
  <2>2. Meant(segment, number, field)' = Meant(segment, number, field)
    BY <1>2, <1>7, <1>13, MeantStays DEF Placed
  <2>3. InstructionAt(store', segment.start + number) = InstructionAt(store, segment.start + number)
    <3> DEFINE a == segment.start
               b == segment.count
    <3>1. a \in Nat /\ b \in Nat /\ a + b <= start /\ number \in 0 .. (b - 1)
      BY <1>13 DEF Placed, start
    <3> HIDE DEF a, b
    <3>2. a + number + 1 \in 1 .. start
      BY <1>3, <3>1
    <3> QED
      BY <1>3, <3>2 DEF InstructionAt, a
  <2> QED
    BY <2>1, <2>2, <2>3
<1>15. ASSUME NEW segment, segment = new, new.live,
              NEW number \in 0 .. (segment.count - 1), NEW field \in LinkFields
       PROVE  InstructionAt(store', segment.start + number)[field] = Meant(segment, number, field)'
  <2>1. /\ segment.image = image /\ segment.start = start /\ segment.count = count
        /\ NewSegment(image).live
    <3>1. NewSegment(image).live
      BY <1>15 DEF new
    <3>2. segment.image = image /\ segment.start = start
      BY <1>5, <1>15
    <3>3. new.count = count
      <4> DEFINE length == Len(store'.code)
      <4>1. length = start + count /\ new.count = length - start
        BY <1>5, <1>6, <1>15
      <4> HIDE DEF length
      <4> QED
        BY <1>3, <1>5, <4>1
    <3> QED
      BY <1>15, <3>1, <3>2, <3>3
  <2>2. number \in 0 .. (Len(image.instructions) - 1)
    BY <1>15, <2>1 DEF count
  <2>3. store'.code[start + number + 1][field] = Meant(segment, number, field)'
    BY <1>1, <2>1, <2>2, NewCodeLinked DEF start
  <2> QED
    BY <2>1, <2>3 DEF InstructionAt
<1>16. LiveCodeLinked'
  <2> SUFFICES ASSUME NEW segment \in LiveSegments', NEW number \in 0 .. (segment.count - 1),
                      NEW field \in LinkFields
               PROVE  InstructionAt(store', segment.start + number)[field]
                      = Meant(segment, number, field)'
    BY DEF LiveCodeLinked, LinkFields
  <2>1. CASE segment \in LiveSegments
    BY <1>14, <2>1
  <2>2. CASE segment = new /\ new.live
    BY <1>15, <2>2
  <2> QED
    BY <1>4, <2>1, <2>2
<1>17. ExportsAreLive'
  <2> SUFFICES ASSUME NEW i \in DOMAIN store'.exports
               PROVE  \E segment \in LiveSegments' :
                         /\ Holds(segment, store'.exports[i].destination)
                         /\ \E e \in ToSet(segment.image.exports) : e.name = store'.exports[i].name
    BY DEF ExportsAreLive
  <2>1. DOMAIN store.exports = 1 .. Len(store.exports) /\ Len(store.exports) \in Nat
    BY <1>7, SequenceHas
  <2>2. CASE i \in 1 .. Len(store.exports)
    <3>1. (store.exports \o more)[i] = store.exports[i]
      BY <1>2, <1>7, <2>2, SequenceJoined
    <3>2. store'.exports[i] = store.exports[i]
      BY <1>2, <3>1
    <3>3. PICK segment \in LiveSegments :
             /\ Holds(segment, store.exports[i].destination)
             /\ \E e \in ToSet(segment.image.exports) : e.name = store.exports[i].name
      BY <2>1, <2>2 DEF Inv, ExportsAreLive
    <3> QED
      BY <1>4, <3>2, <3>3
  <2>3. CASE i \notin 1 .. Len(store.exports)
    <3> DEFINE added == ExportsOf(image, start)
    <3> HIDE DEF added
    <3>1. new.live
      <4> SUFFICES ASSUME ~new.live PROVE FALSE
        OBVIOUS
      <4>1. store'.exports = store.exports
        BY <1>1, LoadFails DEF new
      <4> QED
        BY <2>1, <2>3, <4>1
    <3>2. IsSequence(added) /\ Len(added) = Len(image.exports)
          /\ \A q \in 1 .. Len(image.exports) :
                /\ added[q].name = image.exports[q].name
                /\ DestinationToAddress(added[q].destination) \in start .. (start + count - 1)
      BY <1>3, ExportsPlaced DEF added, count
    <3>3. PICK q \in 1 .. Len(image.exports) : store'.exports[i] = added[q]
      <4> DEFINE old == store.exports
                 all == old \o added
                 m == Len(old)
                 k == Len(added)
      <4>1. store'.exports = all
        BY <1>6, <3>1 DEF added
      <4>2. IsSequence(all) /\ Len(all) = m + k /\ \A q \in 1 .. k : all[m + q] = added[q]
        <5>1. IsSequence(old) /\ IsSequence(added)
          BY <1>7, <3>2
        <5> HIDE DEF old
        <5> QED
          BY <5>1, SequenceJoined
      <4>3. k \in Nat /\ m \in Nat
        BY <1>7, <3>2, SequenceHas
      <4> HIDE DEF all, m, k
      <4>4. i \in 1 .. (m + k) /\ i \notin 1 .. m
        BY <2>3, <4>1, <4>2, SequenceHas DEF m
      <4>5. i - m \in 1 .. k /\ m + (i - m) = i
        BY <4>3, <4>4
      <4>6. store'.exports[i] = added[i - m]
        BY <4>1, <4>2, <4>5
      <4> QED
        BY <3>2, <4>5, <4>6 DEF k
    <3>4. new.count = count
      BY <1>3, <1>5, <1>6, <3>1
    <3>5. Holds(new, store'.exports[i].destination)
      BY <1>5, <3>2, <3>3, <3>4 DEF Holds
    <3>6. image.exports[q] \in ToSet(new.image.exports) /\ image.exports[q].name = store'.exports[i].name
      <4>1. DOMAIN image.exports = 1 .. Len(image.exports)
        BY SequenceHas DEF Fits, Loadable
      <4> QED
        BY <1>5, <3>2, <3>3, <4>1 DEF ToSet
    <3> QED
      BY <1>4, <3>1, <3>5, <3>6
  <2> QED
    BY <2>2, <2>3
<1> QED
  BY <1>3, <1>11, <1>12, <1>16, <1>17 DEF Inv

\* The store stays as it is, and files that fit are replaced by files that fit.
LEMMA FilesKeepInv ==
    ASSUME Inv, UNCHANGED storeVars, FilesFit'
    PROVE  Inv'
<1>1. store' = store /\ segments' = segments
  BY DEF storeVars
<1>2. StoreShape' /\ SegmentsPlaced'
  BY <1>1 DEF Inv, StoreShape, SegmentsPlaced
<1>3. LiveSegments' = LiveSegments
  BY <1>1 DEF LiveSegments
<1>4. \A segment, number, field : Meant(segment, number, field)' = Meant(segment, number, field)
  BY <1>1 DEF Meant
<1>5. LiveCodeLinked'
  BY <1>1, <1>3, <1>4 DEF Inv, LiveCodeLinked
<1>6. ExportsAreLive'
  BY <1>1, <1>3 DEF Inv, ExportsAreLive
<1> QED
  BY <1>2, <1>5, <1>6 DEF Inv

LEMMA InvStep == Inv /\ [Next]_vars => Inv'
<1> SUFFICES ASSUME Inv, [Next]_vars PROVE Inv'
  OBVIOUS
<1>1. CASE StartRun
  <2>1. UNCHANGED storeVars /\ UNCHANGED files
    BY <1>1 DEF StartRun
  <2>2. FilesFit'
    BY <2>1 DEF Inv, FilesFit
  <2> QED
    BY <2>1, <2>2, FilesKeepInv
<1>2. CASE StripFile
  <2> DEFINE names == MappingAfter(mapping, files[next])
  <2>1. UNCHANGED storeVars /\ files' = [files EXCEPT ![next] = Renamed(@, names)]
    BY <1>2 DEF StripFile
  <2> HIDE DEF names
  <2>2. FilesFit'
    <3> SUFFICES ASSUME NEW f \in DOMAIN files' PROVE Fits(files'[f])
      BY DEF FilesFit
    <3>1. f \in DOMAIN files /\ Fits(files[f])
      BY <2>1 DEF Inv, FilesFit
    <3>2. files'[f] = files[f] \/ files'[f] = Renamed(files[f], names)
      BY <2>1, <3>1
    <3> QED
      BY <3>1, <3>2, RenamedFits
  <2> QED
    BY <2>1, <2>2, FilesKeepInv
<1>3. ASSUME NEW f \in DOMAIN files, LoadBoth(f) PROVE Inv'
  <2>1. Load(files[f]) /\ UNCHANGED files
    BY <1>3 DEF LoadBoth
  <2>2. Fits(files[f])
    BY DEF Inv, FilesFit
  <2> QED
    BY <2>1, <2>2, LoadKeepsInv
<1>4. CASE UNCHANGED vars
  <2>1. UNCHANGED storeVars /\ UNCHANGED files
    BY <1>4 DEF vars
  <2>2. FilesFit'
    BY <2>1 DEF Inv, FilesFit
  <2> QED
    BY <2>1, <2>2, FilesKeepInv
<1> QED
  BY <1>1, <1>2, <1>3, <1>4 DEF Next

LEMMA InvAlways == Spec => []Inv
BY InvHolds, InvStep, PTL DEF Spec

-----------------------------------------------------------------------------
(* New names *)

\* What several runs of strip.py have made of the names of the originals.
Renaming(rho) ==
    /\ DOMAIN rho = AllSymbolNames
    /\ \A n \in AllSymbolNames : rho[n] \notin MainNames
    /\ \A m, n \in AllSymbolNames : rho[m] = rho[n] => m = n

NewName(rho, name) == IF name \in MainNames THEN name ELSE rho[name]

\* The image new is old but for the names.
IsRenaming(new, old, rho) ==
    /\ new.wellFormed = old.wellFormed /\ new.instructions = old.instructions
    /\ new.constants = old.constants /\ new.toFix = old.toFix
    /\ Len(new.externals) = Len(old.externals) /\ Len(new.exports) = Len(old.exports)
    /\ \A i \in 1 .. Len(old.externals) :
          /\ new.externals[i].number = old.externals[i].number
          /\ new.externals[i].flags = old.externals[i].flags
          /\ new.externals[i].name = rho[old.externals[i].name]
    /\ \A i \in 1 .. Len(old.exports) :
          /\ new.exports[i].destination = old.exports[i].destination
          /\ new.exports[i].name = NewName(rho, old.exports[i].name)

\* The other fields of a file and of its symbols.
Fields(image) ==
    /\ {"wellFormed", "constants", "toFix"} \subseteq DOMAIN image
    /\ \A i \in 1 .. Len(image.externals) : {"name", "flags"} \subseteq DOMAIN image.externals[i]
    /\ \A i \in 1 .. Len(image.exports) : "name" \in DOMAIN image.exports[i]

\* The names that a mapping gives to names that have been changed before.
Through(names, rho) == [n \in AllSymbolNames |-> names[rho[n]]]

\* The mapping of a run: numbers for some of the present names.
Numbers(names, rho) ==
    /\ DOMAIN names \subseteq {rho[n] : n \in AllSymbolNames}
    /\ \A x \in DOMAIN names :
          \E k \in 0 .. (Cardinality(DOMAIN names) - 1) : names[x] = NumberName(k)
    /\ \A x, y \in DOMAIN names : names[x] = names[y] => x = y

\* A file has the names that the earlier runs gave it or, behind the place
\* where the present run is, the new ones.
FileNamed(f, rho) ==
    IF next # 0 /\ f < next
    THEN /\ \A n \in SymbolNames(Originals[f]) : rho[n] \in DOMAIN mapping
         /\ IsRenaming(files[f], Originals[f], Through(mapping, rho))
    ELSE IsRenaming(files[f], Originals[f], rho)

FilesNamed(rho) ==
    /\ IsSequence(files) /\ Len(files) = Len(Originals) /\ next \in 0 .. Len(files)
    /\ next # 0 => segments = <<>> /\ Numbers(mapping, rho)
    /\ \A f \in 1 .. Len(Originals) : Fields(files[f]) /\ FileNamed(f, rho)

\* Two stores that are the same but for the names.
StoresAlike(st, pl, rho) ==
    /\ st.code = pl.code
    /\ Len(st.exports) = Len(pl.exports)
    /\ \A i \in 1 .. Len(pl.exports) :
          /\ st.exports[i].destination = pl.exports[i].destination
          /\ st.exports[i].name = NewName(rho, pl.exports[i].name)
          /\ pl.exports[i].name \in AllSymbolNames \cup MainNames

LoadsMatch ==
    /\ DOMAIN plain = {"code", "exports"} /\ IsSequence(plain.exports)
    /\ segments = <<>> => plain.exports = <<>>
    /\ IsSequence(failed) /\ Len(failed) = Len(segments)
    /\ \A i \in 1 .. Len(segments) : failed[i] \in BOOLEAN /\ segments[i].live = ~failed[i]

AlikeWith(rho) == Renaming(rho) /\ FilesNamed(rho) /\ StoresAlike(store, plain, rho)

AlikeInv == LoadsMatch /\ \E rho : AlikeWith(rho)

-----------------------------------------------------------------------------
(* Finitely many names *)

\* The values of a function at finitely many places.
LEMMA ImageIsFinite ==
    ASSUME NEW g, IsFiniteSet(DOMAIN g)
    PROVE  /\ IsFiniteSet({g[x] : x \in DOMAIN g})
           /\ Cardinality({g[x] : x \in DOMAIN g}) <= Cardinality(DOMAIN g)
<1> DEFINE T == {g[x] : x \in DOMAIN g}
           h == [x \in DOMAIN g |-> g[x]]
<1>1. h \in Surjection(DOMAIN g, T)
  BY DEF Surjection
<1> HIDE DEF h, T
<1>2. IsFiniteSet(T) /\ Cardinality(T) <= Cardinality(DOMAIN g)
  BY <1>1, FS_Surjection
<1> QED
  BY <1>2 DEF T

LEMMA OriginalsAre ==
    /\ IsSequence(Originals) /\ Len(Originals) \in Nat \ {0}
    /\ DOMAIN Originals = 1 .. Len(Originals)
    /\ \A f \in 1 .. Len(Originals) :
          /\ IsSequence(Originals[f].externals) /\ IsSequence(Originals[f].exports)
          /\ Fits(Originals[f])
<1>1. Originals \in Seq(Images) /\ Originals # <<>>
  BY OriginalsAssumption
<1>2. IsSequence(Originals) /\ Len(Originals) \in Nat /\ DOMAIN Originals = 1 .. Len(Originals)
  BY <1>1, SequenceIs, LenProperties
<1>3. Len(Originals) # 0
  BY <1>1, EmptySeq
<1>4. \A f \in 1 .. Len(Originals) : Fits(Originals[f])
  BY <1>2, OriginalsFit
<1> QED
  BY <1>2, <1>3, <1>4 DEF Fits, Loadable

LEMMA SymbolNamesFinite ==
    ASSUME NEW image, IsSequence(image.externals), IsSequence(image.exports)
    PROVE  IsFiniteSet(SymbolNames(image))
<1> DEFINE a == [i \in DOMAIN image.externals |-> image.externals[i].name]
           b == [i \in DOMAIN image.exports |-> image.exports[i].name]
           A == {a[i] : i \in DOMAIN a}
           B == {b[i] : i \in DOMAIN b}
<1>1. IsFiniteSet(DOMAIN a) /\ IsFiniteSet(DOMAIN b)
  <2>1. /\ DOMAIN a = 1 .. Len(image.externals) /\ Len(image.externals) \in Nat
        /\ DOMAIN b = 1 .. Len(image.exports) /\ Len(image.exports) \in Nat
    BY SequenceHas
  <2> QED
    BY <2>1, FS_Interval
<1>2. IsFiniteSet(A) /\ IsFiniteSet(B)
  <2> HIDE DEF a, b
  <2> QED
    BY <1>1, ImageIsFinite
<1>3. SymbolNames(image) = A \cup (B \ MainNames)
  BY DEF SymbolNames
<1> HIDE DEF A, B
<1>4. IsFiniteSet(B \ MainNames)
  BY <1>2, FS_Subset
<1> QED
  BY <1>2, <1>3, <1>4, FS_Union

LEMMA AllSymbolNamesFinite ==
    /\ IsFiniteSet(AllSymbolNames)
    /\ Cardinality(AllSymbolNames) \in Nat
    /\ \A f \in 1 .. Len(Originals) : SymbolNames(Originals[f]) \subseteq AllSymbolNames
<1> DEFINE N == Len(Originals)
           U(k) == UNION {SymbolNames(Originals[f]) : f \in 1 .. k}
           S == {k \in Nat : k <= N => IsFiniteSet(U(k))}
<1>1. N \in Nat /\ DOMAIN Originals = 1 .. N
  BY OriginalsAre
<1>2. 0 \in S
  <2>1. U(0) = {}
    OBVIOUS
  <2> HIDE DEF U
  <2> QED
    BY <2>1, FS_EmptySet
<1>3. ASSUME NEW k \in Nat, k \in S PROVE k + 1 \in S
  <2> SUFFICES ASSUME k + 1 <= N PROVE IsFiniteSet(U(k + 1))
    OBVIOUS
  <2>1. k <= N /\ k + 1 \in 1 .. N
    BY <1>1
  <2>2. IsFiniteSet(U(k))
    BY <1>3, <2>1
  <2>3. IsFiniteSet(SymbolNames(Originals[k + 1]))
    BY <2>1, OriginalsAre, SymbolNamesFinite
  <2>4. U(k + 1) = U(k) \cup SymbolNames(Originals[k + 1])
    <3>1. 1 .. (k + 1) = (1 .. k) \cup {k + 1}
      OBVIOUS
    <3> QED
      BY <3>1
  <2> DEFINE P == U(k)
             Q == SymbolNames(Originals[k + 1])
  <2>5. IsFiniteSet(P) /\ IsFiniteSet(Q) /\ U(k + 1) = P \cup Q
    BY <2>2, <2>3, <2>4
  <2> HIDE DEF P, Q
  <2>6. IsFiniteSet(P \cup Q)
    BY <2>5, FS_Union
  <2> QED
    BY <2>5, <2>6
<1>4. N \in S
  <2> HIDE DEF S
  <2> QED
    BY <1>1, <1>2, <1>3, InductionOnSet
<1>5. AllSymbolNames = U(N)
  BY <1>1 DEF AllSymbolNames
<1>6. IsFiniteSet(AllSymbolNames)
  BY <1>1, <1>4, <1>5
<1>7. \A f \in 1 .. N : SymbolNames(Originals[f]) \subseteq AllSymbolNames
  BY <1>1 DEF AllSymbolNames
<1> QED
  BY <1>6, <1>7, FS_CardinalityType

\* The names of an original that strip.py replaces, and those it keeps.
LEMMA NamesKnown ==
    ASSUME NEW f \in 1 .. Len(Originals)
    PROVE  /\ \A i \in 1 .. Len(Originals[f].externals) :
                 /\ Originals[f].externals[i].name \in SymbolNames(Originals[f])
                 /\ Originals[f].externals[i].name \notin MainNames
           /\ \A i \in 1 .. Len(Originals[f].exports) :
                 Originals[f].exports[i].name \in SymbolNames(Originals[f]) \cup MainNames
           /\ SymbolNames(Originals[f]) \cap MainNames = {}
<1> DEFINE image == Originals[f]
<1>1. f \in DOMAIN Originals /\ IsSequence(image.externals) /\ IsSequence(image.exports)
  BY OriginalsAre
<1>2. \A ref \in ToSet(image.externals) : ref.name \notin MainNames
  BY <1>1, MainAssumption
<1> HIDE DEF image
<1>3. /\ DOMAIN image.externals = 1 .. Len(image.externals)
      /\ DOMAIN image.exports = 1 .. Len(image.exports)
  BY <1>1, SequenceHas
<1>4. \A i \in 1 .. Len(image.externals) : image.externals[i].name \notin MainNames
  BY <1>2, <1>3 DEF ToSet
<1> QED
  BY <1>3, <1>4 DEF SymbolNames, image
-----------------------------------------------------------------------------
(* Numbers for names *)

\* How many names have a number: fewer than there are names as long as one has
\* none.
LEMMA NumbersLeft ==
    ASSUME NEW rho, Renaming(rho), NEW D, D \subseteq {rho[n] : n \in AllSymbolNames},
           NEW x \in AllSymbolNames, rho[x] \notin D
    PROVE  /\ IsFiniteSet(D) /\ Cardinality(D) \in Nat
           /\ Cardinality(D) + 1 <= Cardinality(AllSymbolNames)
<1> DEFINE T == {rho[n] : n \in DOMAIN rho}
<1>1. DOMAIN rho = AllSymbolNames /\ IsFiniteSet(DOMAIN rho)
  BY AllSymbolNamesFinite DEF Renaming
<1>2. IsFiniteSet(T) /\ Cardinality(T) <= Cardinality(DOMAIN rho)
  BY <1>1, ImageIsFinite
<1>3. D \subseteq T /\ rho[x] \in T
  BY <1>1
<1> HIDE DEF T
<1>4. IsFiniteSet(D) /\ D \cup {rho[x]} \in SUBSET T
  BY <1>2, <1>3, FS_Subset
<1>5. Cardinality(D \cup {rho[x]}) = Cardinality(D) + 1 /\ Cardinality(D) \in Nat
  BY <1>4, FS_AddElement, FS_CardinalityType
<1>6. Cardinality(D \cup {rho[x]}) <= Cardinality(T)
  BY <1>2, <1>4, FS_Subset
<1>7. Cardinality(T) \in Nat /\ Cardinality(AllSymbolNames) \in Nat
  BY <1>1, <1>2, FS_CardinalityType
<1> QED
  BY <1>1, <1>2, <1>4, <1>5, <1>6, <1>7

\* The names of the mapping are numbers that names have.
LEMMA NumbersSmall ==
    ASSUME NEW rho, Renaming(rho), NEW names, Numbers(names, rho)
    PROVE  /\ IsFiniteSet(DOMAIN names) /\ Cardinality(DOMAIN names) \in Nat
           /\ Cardinality(DOMAIN names) <= Cardinality(AllSymbolNames)
           /\ \A x \in DOMAIN names : names[x] \notin MainNames
<1> DEFINE T == {rho[n] : n \in DOMAIN rho}
<1>1. DOMAIN rho = AllSymbolNames /\ IsFiniteSet(DOMAIN rho)
  BY AllSymbolNamesFinite DEF Renaming
<1>2. IsFiniteSet(T) /\ Cardinality(T) <= Cardinality(DOMAIN rho)
  BY <1>1, ImageIsFinite
<1>3. DOMAIN names \in SUBSET T
  BY <1>1 DEF Numbers
<1> HIDE DEF T
<1>4. IsFiniteSet(DOMAIN names) /\ Cardinality(DOMAIN names) <= Cardinality(T)
  BY <1>2, <1>3, FS_Subset
<1>5. /\ Cardinality(T) \in Nat /\ Cardinality(AllSymbolNames) \in Nat
      /\ Cardinality(DOMAIN names) \in Nat
  BY <1>1, <1>2, <1>4, FS_CardinalityType
<1>6. Cardinality(DOMAIN names) <= Cardinality(AllSymbolNames)
  BY <1>1, <1>2, <1>4, <1>5
<1>7. ASSUME NEW x \in DOMAIN names PROVE names[x] \notin MainNames
  <2>1. PICK k \in 0 .. (Cardinality(DOMAIN names) - 1) : names[x] = NumberName(k)
    BY DEF Numbers
  <2>2. k \in 0 .. Cardinality(AllSymbolNames)
    BY <1>5, <1>6
  <2> QED
    BY <2>1, <2>2, NumberNameAssumption
<1> QED
  BY <1>4, <1>5, <1>6, <1>7

\* A mapping that grows: nothing that has a number gets another one.
Grows(old, new) == DOMAIN old \subseteq DOMAIN new /\ \A x \in DOMAIN old : new[x] = old[x]

LEMMA WithNumberGrows ==
    ASSUME NEW rho, Renaming(rho), NEW names, Numbers(names, rho), NEW n \in AllSymbolNames
    PROVE  /\ Numbers(WithNumber(names, rho[n]), rho)
           /\ Grows(names, WithNumber(names, rho[n]))
           /\ rho[n] \in DOMAIN WithNumber(names, rho[n])
<1> DEFINE D == DOMAIN names
           c == Cardinality(D)
           name == rho[n]
           new == WithNumber(names, name)
<1>1. CASE name \in D
  BY <1>1 DEF WithNumber, Grows
<1>2. CASE name \notin D
  <2>1. /\ DOMAIN new = D \cup {name}
        /\ \A x \in D : new[x] = names[x]
        /\ new[name] = NumberName(c)
    BY <1>2 DEF WithNumber
  <2>2. D \subseteq {rho[m] : m \in AllSymbolNames}
    BY DEF Numbers
  <2>3. IsFiniteSet(D) /\ c \in Nat /\ c + 1 <= Cardinality(AllSymbolNames)
    <3> HIDE DEF D
    <3> QED
      BY <1>2, <2>2, NumbersLeft
  <2>4. Cardinality(D \cup {name}) = c + 1
    <3> HIDE DEF D, name
    <3> QED
      BY <1>2, <2>3, FS_AddElement
  <2>5. Cardinality(DOMAIN new) = c + 1 /\ c \in 0 .. c
    BY <2>1, <2>3, <2>4
  <2>6. \A x \in D : \E k \in 0 .. (c - 1) : names[x] = NumberName(k)
    BY DEF Numbers
  <2>7. \A x, y \in D : names[x] = names[y] => x = y
    BY DEF Numbers
  <2>8. Cardinality(AllSymbolNames) \in Nat
    BY AllSymbolNamesFinite
  <2> HIDE DEF D, c, name, new
  <2>9. ASSUME NEW x \in D PROVE new[x] # NumberName(c)
    <3>1. PICK k \in 0 .. (c - 1) : names[x] = NumberName(k)
      BY <2>6
    <3>2. k \in 0 .. Cardinality(AllSymbolNames) /\ c \in 0 .. Cardinality(AllSymbolNames) /\ k # c
      BY <2>3, <2>8
    <3>3. NumberName(k) # NumberName(c)
      BY <3>2, NumberNameAssumption
    <3> QED
      BY <2>1, <3>1, <3>3
  <2>10. \A x, y \in DOMAIN new : new[x] = new[y] => x = y
    BY <2>1, <2>7, <2>9
  <2>11. \A x \in DOMAIN new : \E k \in 0 .. c : new[x] = NumberName(k)
    <3>1. \A k \in 0 .. (c - 1) : k \in 0 .. c
      BY <2>3
    <3> QED
      BY <2>1, <2>5, <2>6, <3>1
  <2>12. Cardinality(DOMAIN new) - 1 = c
    BY <2>3, <2>5
  <2>13. DOMAIN new \subseteq {rho[m] : m \in AllSymbolNames}
    BY <2>1, <2>2 DEF name
  <2>14. Numbers(new, rho)
    BY <2>10, <2>11, <2>12, <2>13 DEF Numbers
  <2>15. Grows(names, new) /\ name \in DOMAIN new
    BY <2>1 DEF Grows, D
  <2> QED
    BY <2>14, <2>15 DEF new, name
<1> QED
  BY <1>1, <1>2

\* The recursion along the symbols of a file has a solution.
NumberedUpTo(known, symbols, kept) ==
    CHOOSE g : g = [i \in 0 .. Len(symbols) |->
        IF i = 0 THEN known
        ELSE IF symbols[i].name \in kept THEN g[i - 1]
        ELSE WithNumber(g[i - 1], symbols[i].name)]

LEMMA NumberedDefined ==
    ASSUME NEW known, NEW symbols, NEW kept, Len(symbols) \in Nat
    PROVE  LET g == NumberedUpTo(known, symbols, kept)
           IN  /\ Numbered(known, symbols, kept) = g[Len(symbols)]
               /\ g[0] = known
               /\ \A i \in 1 .. Len(symbols) :
                     g[i] = IF symbols[i].name \in kept THEN g[i - 1]
                            ELSE WithNumber(g[i - 1], symbols[i].name)
<1> DEFINE Then(r, i) == IF symbols[i].name \in kept THEN r ELSE WithNumber(r, symbols[i].name)
           Solves(g, n) == g = [i \in 0 .. n |-> IF i = 0 THEN known ELSE Then(g[i - 1], i)]
           S == {n \in Nat : \E g : Solves(g, n)}
<1>1. 0 \in S
  <2> DEFINE g == [i \in 0 .. 0 |-> known]
  <2>1. Solves(g, 0)
    OBVIOUS
  <2> QED
    BY <2>1
<1>2. ASSUME NEW n \in Nat, n \in S PROVE n + 1 \in S
  <2>1. PICK g : g = [i \in 0 .. n |-> IF i = 0 THEN known ELSE Then(g[i - 1], i)]
    BY <1>2
  <2> DEFINE h == [i \in 0 .. (n + 1) |-> IF i = n + 1 THEN Then(g[n], n + 1) ELSE g[i]]
  <2> HIDE DEF Then
  <2>2. ASSUME NEW i \in 0 .. (n + 1) PROVE h[i] = IF i = 0 THEN known ELSE Then(h[i - 1], i)
    <3>1. CASE i = n + 1
      <4>1. h[i] = Then(g[n], n + 1) /\ i - 1 \in 0 .. (n + 1) /\ i - 1 = n /\ i # 0
        BY <3>1
      <4>2. h[n] = g[n]
        OBVIOUS
      <4> QED
        BY <3>1, <4>1, <4>2
    <3>2. CASE i # n + 1
      <4>1. i \in 0 .. n /\ h[i] = g[i]
        BY <3>2
      <4>2. g[i] = IF i = 0 THEN known ELSE Then(g[i - 1], i)
        BY <2>1, <4>1
      <4>3. i # 0 => i - 1 \in 0 .. (n + 1) /\ i - 1 # n + 1
        BY <4>1
      <4>4. i # 0 => h[i - 1] = g[i - 1]
        BY <4>3
      <4> QED
        BY <4>1, <4>2, <4>4
    <3> QED
      BY <3>1, <3>2
  <2>3. h = [i \in 0 .. (n + 1) |-> IF i = 0 THEN known ELSE Then(h[i - 1], i)]
    <3>1. h = [i \in 0 .. (n + 1) |-> h[i]]
      OBVIOUS
    <3> HIDE DEF h
    <3> QED
      BY <2>2, <3>1
  <2>4. \E f : f = [i \in 0 .. (n + 1) |-> IF i = 0 THEN known ELSE Then(f[i - 1], i)]
    <3> HIDE DEF h
    <3> QED
      BY <2>3
  <2> QED
    BY <2>4
<1>3. Len(symbols) \in S
  <2> HIDE DEF S
  <2> QED
    BY <1>1, <1>2, InductionOnSet
<1> DEFINE g == NumberedUpTo(known, symbols, kept)
<1>4. \E f : f = [i \in 0 .. Len(symbols) |->
                    IF i = 0 THEN known
                    ELSE IF symbols[i].name \in kept THEN f[i - 1]
                    ELSE WithNumber(f[i - 1], symbols[i].name)]
  BY <1>3
<1>5. g = [i \in 0 .. Len(symbols) |->
              IF i = 0 THEN known
              ELSE IF symbols[i].name \in kept THEN g[i - 1]
              ELSE WithNumber(g[i - 1], symbols[i].name)]
  BY <1>4 DEF NumberedUpTo
<1>6. Numbered(known, symbols, kept) = g[Len(symbols)]
  BY DEF Numbered, NumberedUpTo
<1> HIDE DEF g
<1>7. g[0] = known
  BY <1>5
<1>8. ASSUME NEW i \in 1 .. Len(symbols)
      PROVE  g[i] = IF symbols[i].name \in kept THEN g[i - 1]
                    ELSE WithNumber(g[i - 1], symbols[i].name)
  <2>1. i \in 0 .. Len(symbols) /\ i # 0
    OBVIOUS
  <2> QED
    BY <1>5, <2>1
<1> QED
  BY <1>6, <1>7, <1>8 DEF g

\* Every symbol of a list has a number afterwards, unless its name is kept.
LEMMA NumberedGrows ==
    ASSUME NEW rho, Renaming(rho), NEW known, Numbers(known, rho), NEW symbols, NEW kept,
           Len(symbols) \in Nat,
           \A i \in 1 .. Len(symbols) :
              symbols[i].name \in kept \/ \E n \in AllSymbolNames : symbols[i].name = rho[n]
    PROVE  /\ Numbers(Numbered(known, symbols, kept), rho)
           /\ Grows(known, Numbered(known, symbols, kept))
           /\ \A i \in 1 .. Len(symbols) :
                 symbols[i].name \notin kept =>
                    symbols[i].name \in DOMAIN Numbered(known, symbols, kept)
<1> DEFINE g == NumberedUpTo(known, symbols, kept)
           N == Len(symbols)
           Good(m, k) == /\ Numbers(m, rho) /\ Grows(known, m)
                         /\ \A i \in 1 .. k :
                               symbols[i].name \notin kept => symbols[i].name \in DOMAIN m
           S == {k \in Nat : k <= N => Good(g[k], k)}
<1>1. /\ Numbered(known, symbols, kept) = g[N]
      /\ g[0] = known
      /\ \A i \in 1 .. N : g[i] = IF symbols[i].name \in kept THEN g[i - 1]
                                  ELSE WithNumber(g[i - 1], symbols[i].name)
  BY NumberedDefined
<1> HIDE DEF g
<1>2. 0 \in S
  BY <1>1 DEF Grows
<1>3. ASSUME NEW k \in Nat, k \in S PROVE k + 1 \in S
  <2> SUFFICES ASSUME k + 1 <= N PROVE Good(g[k + 1], k + 1)
    OBVIOUS
  <2>1. k <= N /\ k + 1 \in 1 .. N /\ (k + 1) - 1 = k
    OBVIOUS
  <2> DEFINE name == symbols[k + 1].name
             m == g[k]
             new == g[k + 1]
  <2>2. Numbers(m, rho) /\ Grows(known, m)
    BY <1>3, <2>1
  <2>3. \A i \in 1 .. k : symbols[i].name \notin kept => symbols[i].name \in DOMAIN m
    BY <1>3, <2>1
  <2>4. new = IF name \in kept THEN m ELSE WithNumber(m, name)
    BY <1>1, <2>1
  <2>5. name \in kept \/ \E n \in AllSymbolNames : name = rho[n]
    BY <2>1
  <2> HIDE DEF name, m, new
  <2>6. Numbers(new, rho) /\ Grows(m, new) /\ (name \notin kept => name \in DOMAIN new)
    <3>1. CASE name \in kept
      BY <2>2, <2>4, <3>1 DEF Grows
    <3>2. CASE name \notin kept
      <4>1. PICK n \in AllSymbolNames : name = rho[n]
        BY <2>5, <3>2
      <4>2. /\ Numbers(WithNumber(m, rho[n]), rho) /\ Grows(m, WithNumber(m, rho[n]))
            /\ rho[n] \in DOMAIN WithNumber(m, rho[n])
        BY <2>2, <4>1, WithNumberGrows
      <4> QED
        BY <2>4, <3>2, <4>1, <4>2
    <3> QED
      BY <3>1, <3>2
  <2>7. Grows(known, new)
    BY <2>2, <2>6 DEF Grows
  <2>8. ASSUME NEW i \in 1 .. (k + 1), symbols[i].name \notin kept
        PROVE  symbols[i].name \in DOMAIN new
    <3>1. CASE i = k + 1
      BY <2>6, <2>8, <3>1 DEF name
    <3>2. CASE i # k + 1
      <4>1. i \in 1 .. k
        BY <3>2
      <4> QED
        BY <2>3, <2>6, <2>8, <4>1 DEF Grows
    <3> QED
      BY <3>1, <3>2
  <2> QED
    BY <2>6, <2>7, <2>8 DEF new
<1>4. N \in S
  <2> HIDE DEF S
  <2> QED
    BY <1>2, <1>3, InductionOnSet
<1>5. Good(g[N], N)
  BY <1>4
<1> QED
  BY <1>1, <1>5

\* A run adds to its mapping all the names of the file it has come to.
LEMMA MappingAfterGrows ==
    ASSUME NEW rho, Renaming(rho), NEW known, Numbers(known, rho),
           NEW f \in 1 .. Len(Originals), NEW image, IsRenaming(image, Originals[f], rho)
    PROVE  /\ Numbers(MappingAfter(known, image), rho)
           /\ Grows(known, MappingAfter(known, image))
           /\ \A n \in SymbolNames(Originals[f]) : rho[n] \in DOMAIN MappingAfter(known, image)
<1> DEFINE old == Originals[f]
           middle == Numbered(known, image.externals, {})
           after == Numbered(middle, image.exports, MainNames)
<1>1. /\ Len(old.externals) \in Nat /\ Len(old.exports) \in Nat
      /\ DOMAIN old.externals = 1 .. Len(old.externals)
      /\ DOMAIN old.exports = 1 .. Len(old.exports)
  BY OriginalsAre, SequenceHas
<1>2. /\ Len(image.externals) = Len(old.externals) /\ Len(image.exports) = Len(old.exports)
      /\ \A i \in 1 .. Len(old.externals) : image.externals[i].name = rho[old.externals[i].name]
      /\ \A i \in 1 .. Len(old.exports) : image.exports[i].name = NewName(rho, old.exports[i].name)
  BY DEF IsRenaming
<1>3. /\ \A i \in 1 .. Len(old.externals) : old.externals[i].name \in AllSymbolNames
      /\ \A i \in 1 .. Len(old.exports) : old.exports[i].name \in AllSymbolNames \cup MainNames
      /\ SymbolNames(old) \subseteq AllSymbolNames /\ SymbolNames(old) \cap MainNames = {}
  BY NamesKnown, AllSymbolNamesFinite
<1>4. SymbolNames(old) = {old.externals[i].name : i \in 1 .. Len(old.externals)}
                         \cup ({old.exports[i].name : i \in 1 .. Len(old.exports)} \ MainNames)
  BY <1>1 DEF SymbolNames
<1>5. MappingAfter(known, image) = after
  BY DEF MappingAfter
<1> HIDE DEF old, middle, after
<1>6. /\ Numbers(middle, rho) /\ Grows(known, middle)
      /\ \A i \in 1 .. Len(old.externals) : image.externals[i].name \in DOMAIN middle
  <2> DEFINE symbols == image.externals
             kept == {}
  <2>1. Len(symbols) \in Nat
    BY <1>1, <1>2
  <2>2. \A i \in 1 .. Len(symbols) :
           symbols[i].name \in kept \/ \E n \in AllSymbolNames : symbols[i].name = rho[n]
    BY <1>2, <1>3
  <2>3. middle = Numbered(known, symbols, kept) /\ Len(symbols) = Len(old.externals)
    BY <1>2 DEF middle
  <2>4. \A i \in 1 .. Len(symbols) : symbols[i].name \notin kept
    OBVIOUS
  <2> HIDE DEF symbols, kept
  <2>5. /\ Numbers(middle, rho) /\ Grows(known, middle)
        /\ \A i \in 1 .. Len(symbols) : symbols[i].name \in DOMAIN middle
    BY <2>1, <2>2, <2>3, <2>4, NumberedGrows
  <2> QED
    BY <2>3, <2>5 DEF symbols
<1>7. ASSUME NEW i \in 1 .. Len(old.exports)
      PROVE  /\ old.exports[i].name \in MainNames => image.exports[i].name \in MainNames
             /\ old.exports[i].name \notin MainNames =>
                   /\ image.exports[i].name = rho[old.exports[i].name]
                   /\ old.exports[i].name \in AllSymbolNames
                   /\ image.exports[i].name \notin MainNames
  BY <1>2, <1>3 DEF NewName, Renaming
<1>8. /\ Numbers(after, rho) /\ Grows(middle, after)
      /\ \A i \in 1 .. Len(old.exports) :
            image.exports[i].name \notin MainNames => image.exports[i].name \in DOMAIN after
  <2> DEFINE symbols == image.exports
  <2>1. Len(symbols) \in Nat /\ Len(symbols) = Len(old.exports)
    BY <1>1, <1>2
  <2>2. \A i \in 1 .. Len(symbols) :
           symbols[i].name \in MainNames \/ \E n \in AllSymbolNames : symbols[i].name = rho[n]
    BY <1>7, <2>1
  <2>3. after = Numbered(middle, symbols, MainNames)
    BY DEF after
  <2> HIDE DEF symbols
  <2>4. /\ Numbers(after, rho) /\ Grows(middle, after)
        /\ \A i \in 1 .. Len(symbols) :
              symbols[i].name \notin MainNames => symbols[i].name \in DOMAIN after
    BY <1>6, <2>1, <2>2, <2>3, NumberedGrows
  <2> QED
    BY <2>1, <2>4 DEF symbols
<1>9. Grows(known, after)
  BY <1>6, <1>8 DEF Grows
<1>10. ASSUME NEW n \in SymbolNames(old) PROVE rho[n] \in DOMAIN after
  <2>1. CASE \E i \in 1 .. Len(old.externals) : n = old.externals[i].name
    BY <1>2, <1>6, <1>8, <2>1 DEF Grows
  <2>2. CASE \E i \in 1 .. Len(old.exports) : n = old.exports[i].name
    <3>1. n \notin MainNames
      BY <1>3
    <3> QED
      BY <1>7, <1>8, <2>2, <3>1
  <2> QED
    BY <1>4, <2>1, <2>2
<1> QED
  BY <1>5, <1>8, <1>9, <1>10 DEF old

-----------------------------------------------------------------------------
(* New names for a file *)

\* What a run writes into a file.
LEMMA RenamedIsRenaming ==
    ASSUME NEW rho, Renaming(rho), NEW names,
           NEW f \in 1 .. Len(Originals), NEW image, Fits(image),
           {"wellFormed", "constants", "toFix"} \subseteq DOMAIN image,
           \A i \in 1 .. Len(image.externals) : {"name", "flags"} \subseteq DOMAIN image.externals[i],
           \A i \in 1 .. Len(image.exports) : "name" \in DOMAIN image.exports[i],
           IsRenaming(image, Originals[f], rho)
    PROVE  IsRenaming(Renamed(image, names), Originals[f], Through(names, rho))
<1> DEFINE old == Originals[f]
           new == Renamed(image, names)
<1>1. /\ new.wellFormed = image.wellFormed /\ new.instructions = image.instructions
      /\ new.constants = image.constants /\ new.toFix = image.toFix
  BY DEF Renamed
<1>2. /\ DOMAIN image.externals = 1 .. Len(image.externals) /\ Len(image.externals) \in Nat
      /\ DOMAIN image.exports = 1 .. Len(image.exports) /\ Len(image.exports) \in Nat
  BY SequenceHas DEF Fits, Loadable
<1>3. /\ new.externals = [i \in 1 .. Len(image.externals) |->
                            WithName(image.externals[i], names[image.externals[i].name])]
      /\ new.exports = [i \in 1 .. Len(image.exports) |->
                          WithName(image.exports[i],
                              IF image.exports[i].name \in MainNames THEN image.exports[i].name
                              ELSE names[image.exports[i].name])]
  BY <1>2 DEF Renamed, Fits
<1>4. /\ image.wellFormed = old.wellFormed /\ image.instructions = old.instructions
      /\ image.constants = old.constants /\ image.toFix = old.toFix
      /\ Len(image.externals) = Len(old.externals) /\ Len(image.exports) = Len(old.exports)
  BY DEF IsRenaming
<1>5. Len(new.externals) = Len(image.externals) /\ Len(new.exports) = Len(image.exports)
  <2> DEFINE a == new.externals
             b == new.exports
  <2>1. /\ DOMAIN a = 1 .. Len(image.externals) /\ a = [i \in 1 .. Len(image.externals) |-> a[i]]
        /\ DOMAIN b = 1 .. Len(image.exports) /\ b = [i \in 1 .. Len(image.exports) |-> b[i]]
    BY <1>3
  <2> HIDE DEF a, b
  <2>2. Len(a) = Len(image.externals) /\ Len(b) = Len(image.exports)
    BY <1>2, <2>1, SequenceMade
  <2> QED
    BY <2>2 DEF a, b
<1>6. ASSUME NEW i \in 1 .. Len(old.externals)
      PROVE  /\ new.externals[i].number = old.externals[i].number
             /\ new.externals[i].flags = old.externals[i].flags
             /\ new.externals[i].name = Through(names, rho)[old.externals[i].name]
  <2> DEFINE ref == image.externals[i]
             n == old.externals[i].name
  <2>1. /\ i \in 1 .. Len(image.externals) /\ "number" \in DOMAIN ref
        /\ {"name", "flags"} \subseteq DOMAIN ref
    BY <1>4 DEF Fits
  <2>2. new.externals[i] = [ref EXCEPT !.name = names[ref.name]]
    BY <1>3, <2>1 DEF WithName
  <2>3. ref.number = old.externals[i].number /\ ref.flags = old.externals[i].flags /\ ref.name = rho[n]
    BY DEF IsRenaming
  <2>4. n \in AllSymbolNames
    BY NamesKnown, AllSymbolNamesFinite
  <2> HIDE DEF ref, n, new, old
  <2>5. /\ new.externals[i].number = ref.number /\ new.externals[i].flags = ref.flags
        /\ new.externals[i].name = names[ref.name]
    BY <2>1, <2>2
  <2>6. Through(names, rho)[n] = names[rho[n]]
    BY <2>4 DEF Through
  <2> QED
    BY <2>3, <2>5, <2>6 DEF n
<1>7. ASSUME NEW i \in 1 .. Len(old.exports)
      PROVE  /\ new.exports[i].destination = old.exports[i].destination
             /\ new.exports[i].name = NewName(Through(names, rho), old.exports[i].name)
  <2> DEFINE e == image.exports[i]
             n == old.exports[i].name
  <2>1. i \in 1 .. Len(image.exports) /\ "destination" \in DOMAIN e /\ "name" \in DOMAIN e
    BY <1>4 DEF Fits
  <2>2. new.exports[i] = [e EXCEPT !.name = IF e.name \in MainNames THEN e.name ELSE names[e.name]]
    BY <1>3, <2>1 DEF WithName
  <2>3. e.destination = old.exports[i].destination /\ e.name = NewName(rho, n)
    BY DEF IsRenaming
  <2>4. n \in AllSymbolNames \cup MainNames
    BY NamesKnown, AllSymbolNamesFinite
  <2> HIDE DEF e, n, new, old
  <2>5. /\ new.exports[i].destination = e.destination
        /\ new.exports[i].name = IF e.name \in MainNames THEN e.name ELSE names[e.name]
    BY <2>1, <2>2
  <2>6. CASE n \in MainNames
    BY <2>3, <2>5, <2>6 DEF NewName, n
  <2>7. CASE n \notin MainNames
    <3>1. n \in AllSymbolNames /\ e.name = rho[n] /\ rho[n] \notin MainNames
      BY <2>3, <2>4, <2>7 DEF NewName, Renaming
    <3>2. Through(names, rho)[n] = names[rho[n]]
      BY <3>1 DEF Through
    <3> QED
      BY <2>3, <2>5, <2>7, <3>1, <3>2 DEF NewName, n
  <2> QED
    BY <2>6, <2>7
<1> HIDE DEF new, old
<1> QED
  BY <1>1, <1>4, <1>5, <1>6, <1>7 DEF IsRenaming, new, old

\* A file that has its new names keeps them while the mapping grows.
LEMMA RenamingStays ==
    ASSUME NEW rho, NEW known, NEW names, Grows(known, names),
           NEW f \in 1 .. Len(Originals), NEW image,
           \A n \in SymbolNames(Originals[f]) : rho[n] \in DOMAIN known,
           IsRenaming(image, Originals[f], Through(known, rho))
    PROVE  IsRenaming(image, Originals[f], Through(names, rho))
<1> DEFINE old == Originals[f]
           a == Through(known, rho)
           b == Through(names, rho)
<1>1. \A n \in SymbolNames(old) : a[n] = b[n]
  <2>1. SymbolNames(old) \subseteq AllSymbolNames
    BY AllSymbolNamesFinite
  <2> QED
    BY <2>1 DEF Through, Grows
<1> HIDE DEF a, b
<1>2. \A i \in 1 .. Len(old.externals) : a[old.externals[i].name] = b[old.externals[i].name]
  BY <1>1, NamesKnown
<1>3. \A i \in 1 .. Len(old.exports) : NewName(a, old.exports[i].name) = NewName(b, old.exports[i].name)
  BY <1>1, NamesKnown DEF NewName
<1>4. IsRenaming(image, old, a)
  BY DEF a
<1> HIDE DEF old
<1>5. IsRenaming(image, old, b)
  BY <1>2, <1>3, <1>4 DEF IsRenaming
<1> QED
  BY <1>5 DEF b, old

\* A finished run has given every name a new one.
LEMMA RunRenames ==
    ASSUME NEW rho, Renaming(rho), NEW names, Numbers(names, rho),
           \A n \in AllSymbolNames : rho[n] \in DOMAIN names
    PROVE  Renaming(Through(names, rho))
<1> DEFINE new == Through(names, rho)
<1>1. DOMAIN new = AllSymbolNames /\ \A n \in AllSymbolNames : new[n] = names[rho[n]]
  BY DEF Through
<1> HIDE DEF new
<1>2. \A n \in AllSymbolNames : new[n] \notin MainNames
  BY <1>1, NumbersSmall
<1>3. ASSUME NEW m \in AllSymbolNames, NEW n \in AllSymbolNames, new[m] = new[n] PROVE m = n
  <2>1. rho[m] = rho[n]
    BY <1>1, <1>3 DEF Numbers
  <2> QED
    BY <2>1 DEF Renaming
<1>4. Renaming(new)
  BY <1>1, <1>2, <1>3 DEF Renaming
<1> QED
  BY <1>4 DEF new

LEMMA OriginalsHaveFields ==
    ASSUME NEW f \in DOMAIN Originals
    PROVE  Fields(Originals[f]) /\ Originals[f].wellFormed \in BOOLEAN
<1> DEFINE image == Originals[f]
<1>1. image \in Images
  BY OriginalsAssumption
<1> HIDE DEF image
<1>2. /\ {"wellFormed", "constants", "toFix"} \subseteq DOMAIN image
      /\ image.wellFormed \in BOOLEAN
      /\ image.externals \in Seq(ExternalReferences) /\ image.exports \in Seq(ExportSymbols)
  BY <1>1 DEF Images
<1>3. ASSUME NEW i \in 1 .. Len(image.externals)
      PROVE  {"name", "flags"} \subseteq DOMAIN image.externals[i]
  <2>1. image.externals[i] \in ExternalReferences
    BY <1>2, LenProperties
  <2> QED
    BY <2>1 DEF ExternalReferences
<1>4. ASSUME NEW i \in 1 .. Len(image.exports) PROVE "name" \in DOMAIN image.exports[i]
  <2>1. image.exports[i] \in ExportSymbols
    BY <1>2, LenProperties
  <2> QED
    BY <2>1 DEF ExportSymbols
<1> QED
  BY <1>2, <1>3, <1>4 DEF Fields, image

LEMMA RenamedHasFields ==
    ASSUME NEW image, Fits(image), Fields(image), NEW names
    PROVE  Fields(Renamed(image, names))
<1> DEFINE new == Renamed(image, names)
<1>1. {"wellFormed", "constants", "toFix"} \subseteq DOMAIN new
  BY DEF Renamed, Fields
<1>2. /\ DOMAIN image.externals = 1 .. Len(image.externals) /\ Len(image.externals) \in Nat
      /\ DOMAIN image.exports = 1 .. Len(image.exports) /\ Len(image.exports) \in Nat
  BY SequenceHas DEF Fits, Loadable
<1>3. /\ new.externals = [i \in 1 .. Len(image.externals) |-> new.externals[i]]
      /\ new.exports = [i \in 1 .. Len(image.exports) |-> new.exports[i]]
  BY <1>2 DEF Renamed, Fits
<1>4. /\ \A i \in 1 .. Len(image.externals) : DOMAIN new.externals[i] = DOMAIN image.externals[i]
      /\ \A i \in 1 .. Len(image.exports) : DOMAIN new.exports[i] = DOMAIN image.exports[i]
  BY <1>2 DEF Renamed, WithName, Fits
<1>5. Len(new.externals) = Len(image.externals) /\ Len(new.exports) = Len(image.exports)
  <2> DEFINE a == new.externals
             b == new.exports
  <2>1. /\ DOMAIN a = 1 .. Len(image.externals) /\ a = [i \in 1 .. Len(image.externals) |-> a[i]]
        /\ DOMAIN b = 1 .. Len(image.exports) /\ b = [i \in 1 .. Len(image.exports) |-> b[i]]
    BY <1>3
  <2> HIDE DEF a, b
  <2>2. Len(a) = Len(image.externals) /\ Len(b) = Len(image.exports)
    BY <1>2, <2>1, SequenceMade
  <2> QED
    BY <2>2 DEF a, b
<1> HIDE DEF new
<1> QED
  BY <1>1, <1>4, <1>5 DEF Fields, new

-----------------------------------------------------------------------------
(* Loading a file and its original *)

\* A symbol is found at the same place under its new name.
LEMMA FoundAlike ==
    ASSUME NEW rho, Renaming(rho), NEW st, NEW pl, StoresAlike(st, pl, rho),
           NEW name \in AllSymbolNames, name \notin MainNames
    PROVE  FindExport(st.exports, rho[name]) = FindExport(pl.exports, name)
<1> DEFINE a == st.exports
           b == pl.exports
           I == {i \in 1 .. Len(a) : a[i].name = rho[name]}
           J == {i \in 1 .. Len(b) : b[i].name = name}
<1>1. /\ Len(a) = Len(b)
      /\ \A i \in 1 .. Len(b) :
            a[i].name = NewName(rho, b[i].name) /\ b[i].name \in AllSymbolNames \cup MainNames
  BY DEF StoresAlike
<1> HIDE DEF a, b
<1>2. ASSUME NEW i \in 1 .. Len(b) PROVE a[i].name = rho[name] <=> b[i].name = name
  BY <1>1, <1>2 DEF NewName, Renaming
<1>3. I = J
  BY <1>1, <1>2
<1>4. /\ FindExport(a, rho[name]) = IF I # {} THEN Min(I) ELSE 0
      /\ FindExport(b, name) = IF J # {} THEN Min(J) ELSE 0
  BY DEF FindExport, SelectInSeq
<1> HIDE DEF I, J
<1>5. FindExport(a, rho[name]) = FindExport(b, name)
  BY <1>3, <1>4
<1> QED
  BY <1>5 DEF a, b

\* One reference under its two names.
LEMMA ResolvedAlike ==
    ASSUME NEW r, NEW x, NEW y, x.number = y.number, x.flags = y.flags,
           NEW start, NEW count, NEW a, NEW b,
           a[FindExport(a, x.name)].destination = b[FindExport(b, y.name)].destination
    PROVE  Resolve(r, x, start, count, a) = Resolve(r, y, start, count, b)
<1> DEFINE d == a[FindExport(a, x.name)].destination
<1>1. d = b[FindExport(b, y.name)].destination
  OBVIOUS
<1>2. \A inst : ResolveField(inst, x, d) = ResolveField(inst, y, d)
  BY DEF ResolveField
<1>3. Resolve(r, x, start, count, a) =
         IF r.error \/ x.number > count THEN [r EXCEPT !.error = TRUE]
         ELSE IF x.number = count THEN r
         ELSE [r EXCEPT !.code[start + x.number + 1] =
                  ResolveField(r.code[start + x.number + 1], x, d)]
  BY DEF Resolve
<1>4. Resolve(r, y, start, count, b) =
         IF r.error \/ y.number > count THEN [r EXCEPT !.error = TRUE]
         ELSE IF y.number = count THEN r
         ELSE [r EXCEPT !.code[start + y.number + 1] =
                  ResolveField(r.code[start + y.number + 1], y, d)]
  BY <1>1 DEF Resolve
<1> HIDE DEF d
<1> QED
  BY <1>2, <1>3, <1>4

\* The names of a file play no part in the relocation of its instructions.
LEMMA AddedAlike ==
    ASSUME NEW st, NEW pl, st.code = pl.code, NEW new, NEW old, NEW p,
           new.instructions = old.instructions, new.constants = old.constants,
           new.toFix = old.toFix
    PROVE  AddedCode(st, new, p) = AddedCode(pl, old, p)
<1>1. \A number, start : Relocate(new, number, start, p) = Relocate(old, number, start, p)
  BY DEF Relocate
<1> QED
  BY <1>1 DEF AddedCode

\* Two files that are the same but for the names are linked in the same way,
\* if all they refer to is defined.
LEMMA LinkedAlike ==
    ASSUME NEW rho, Renaming(rho), NEW st, NEW pl, StoresAlike(st, pl, rho),
           IsSequence(pl.exports),
           NEW f \in 1 .. Len(Originals), NEW new, IsRenaming(new, Originals[f], rho), NEW p,
           \A i \in 1 .. Len(Originals[f].externals) :
              FindExport(pl.exports, Originals[f].externals[i].name) # 0
    PROVE  LinkedCode(st, new, p) = LinkedCode(pl, Originals[f], p)
<1> DEFINE old == Originals[f]
           N == Len(old.externals)
           a == Links(st, new, p)
           b == Links(pl, old, p)
           S == {k \in Nat : k <= N => a[k] = b[k]}
<1>1. N \in Nat
  BY OriginalsAre, SequenceHas
<1>2. /\ Len(new.externals) = N /\ Len(new.instructions) = Len(old.instructions)
      /\ Len(st.code) = Len(pl.code)
  BY DEF IsRenaming, StoresAlike
<1>3. a = [i \in 0 .. N |->
             IF i = 0 THEN [code |-> AddedCode(st, new, p), error |-> FALSE]
             ELSE Resolve(a[i - 1], new.externals[i], Len(st.code),
                          Len(new.instructions), st.exports)]
  BY <1>1, <1>2, LinksDefined
<1>4. b = [i \in 0 .. N |->
             IF i = 0 THEN [code |-> AddedCode(pl, old, p), error |-> FALSE]
             ELSE Resolve(b[i - 1], old.externals[i], Len(pl.code),
                          Len(old.instructions), pl.exports)]
  BY <1>1, LinksDefined
<1> HIDE DEF a, b
<1>5. 0 \in S
  <2>1. AddedCode(st, new, p) = AddedCode(pl, old, p)
    BY AddedAlike DEF IsRenaming, StoresAlike
  <2>2. 0 \in 0 .. N
    BY <1>1
  <2> HIDE DEF old, N
  <2>3. a[0] = [code |-> AddedCode(st, new, p), error |-> FALSE]
    BY <1>3, <2>2
  <2>4. b[0] = [code |-> AddedCode(pl, old, p), error |-> FALSE]
    BY <1>4, <2>2
  <2> QED
    BY <2>1, <2>3, <2>4
<1>6. ASSUME NEW k \in Nat, k \in S PROVE k + 1 \in S
  <2> SUFFICES ASSUME k + 1 <= N PROVE a[k + 1] = b[k + 1]
    OBVIOUS
  <2> DEFINE x == new.externals[k + 1]
             y == old.externals[k + 1]
             i == FindExport(pl.exports, y.name)
  <2>1. /\ k <= N /\ k + 1 \in 1 .. N /\ k + 1 \in 0 .. N
        /\ (k + 1) - 1 = k /\ k + 1 # 0
    BY <1>1
  <2>2. a[k] = b[k]
    BY <1>6, <2>1
  <2>3. x.number = y.number /\ x.flags = y.flags /\ x.name = rho[y.name]
    BY <2>1 DEF IsRenaming
  <2>4. y.name \in AllSymbolNames /\ y.name \notin MainNames
    BY <2>1, NamesKnown, AllSymbolNamesFinite
  <2>5. FindExport(st.exports, x.name) = i
    BY <2>3, <2>4, FoundAlike
  <2>6. i \in 1 .. Len(pl.exports)
    <3>1. i # 0
      BY <2>1
    <3> QED
      BY <3>1, FindExportFinds
  <2>7. st.exports[i].destination = pl.exports[i].destination
    BY <2>6 DEF StoresAlike
  <2>8. a[k + 1] = Resolve(a[k], x, Len(st.code), Len(new.instructions), st.exports)
    <3> HIDE DEF N
    <3> QED
      BY <1>3, <2>1
  <2>9. b[k + 1] = Resolve(b[k], y, Len(pl.code), Len(old.instructions), pl.exports)
    <3> HIDE DEF N, old
    <3> QED
      BY <1>4, <2>1
  <2>10. st.exports[FindExport(st.exports, x.name)].destination
         = pl.exports[FindExport(pl.exports, y.name)].destination
    BY <2>5, <2>7
  <2> HIDE DEF x, y, i, old, N
  <2>11. Resolve(a[k], x, Len(st.code), Len(new.instructions), st.exports)
         = Resolve(a[k], y, Len(st.code), Len(new.instructions), pl.exports)
    BY <2>3, <2>10, ResolvedAlike
  <2> QED
    BY <1>2, <2>2, <2>8, <2>9, <2>11
<1>7. N \in S
  <2> HIDE DEF S
  <2> QED
    BY <1>1, <1>5, <1>6, InductionOnSet
<1>8. a[N] = b[N]
  BY <1>1, <1>7
<1> QED
  BY <1>2, <1>8 DEF LinkedCode, a, b

\* The symbols of a file and of its original.
LEMMA ExportsAlike ==
    ASSUME NEW image, Fits(image), NEW start
    PROVE  /\ IsSequence(ExportsOf(image, start))
           /\ Len(ExportsOf(image, start)) = Len(image.exports)
           /\ \A i \in 1 .. Len(image.exports) :
                 /\ ExportsOf(image, start)[i].name = image.exports[i].name
                 /\ ExportsOf(image, start)[i].destination
                    = IncrementDestinationAddress(image.exports[i].destination, start)
<1> DEFINE added == ExportsOf(image, start)
<1>1. DOMAIN image.exports = 1 .. Len(image.exports) /\ Len(image.exports) \in Nat
  BY SequenceHas DEF Fits, Loadable
<1>2. DOMAIN added = 1 .. Len(image.exports) /\ added = [i \in 1 .. Len(image.exports) |-> added[i]]
  BY <1>1 DEF ExportsOf
<1>3. \A i \in 1 .. Len(image.exports) :
         /\ added[i].name = image.exports[i].name
         /\ added[i].destination = IncrementDestinationAddress(image.exports[i].destination, start)
  BY <1>1 DEF ExportsOf
<1> HIDE DEF added
<1>4. IsSequence(added) /\ Len(added) = Len(image.exports)
  BY <1>1, <1>2, SequenceMade
<1> QED
  BY <1>3, <1>4 DEF added

\* What two loads have in common.
OutcomesAlike(a, b, rho) ==
    /\ a.error = b.error /\ b.error \in BOOLEAN
    /\ StoresAlike(a.store, b.store, rho)
    /\ DOMAIN b.store = {"code", "exports"} /\ IsSequence(b.store.exports)

\* load_file with a file and with its original: both fail or none, and the
\* stores stay the same but for the names.
LEMMA LoadedAlike ==
    ASSUME NEW rho, Renaming(rho), NEW st, NEW pl, StoresAlike(st, pl, rho),
           DOMAIN st = {"code", "exports"}, DOMAIN pl = {"code", "exports"},
           IsSequence(st.exports), IsSequence(pl.exports),
           NEW f \in 1 .. Len(Originals), NEW new, Fits(new),
           IsRenaming(new, Originals[f], rho), NEW p
    PROVE  OutcomesAlike(LoadFile(st, new, p), LoadFile(pl, Originals[f], p), rho)
<1> DEFINE old == Originals[f]
           a == LoadFile(st, new, p)
           b == LoadFile(pl, old, p)
           x == LinkedCode(st, new, p)
           y == LinkedCode(pl, old, p)
           s == ExportsOf(new, Len(st.code))
           t == ExportsOf(old, Len(pl.code))
<1> SUFFICES OutcomesAlike(a, b, rho)
  OBVIOUS
<1>1. a = IF ~new.wellFormed \/ IsMissing(st, new) THEN LoadError(st)
          ELSE IF x.error THEN LoadError([st EXCEPT !.code = x.code])
          ELSE [store |-> [code |-> x.code, exports |-> st.exports \o s],
                count |-> Len(new.instructions), exports |-> s, error |-> FALSE]
  BY DEF LoadFile
<1>2. b = IF ~old.wellFormed \/ IsMissing(pl, old) THEN LoadError(pl)
          ELSE IF y.error THEN LoadError([pl EXCEPT !.code = y.code])
          ELSE [store |-> [code |-> y.code, exports |-> pl.exports \o t],
                count |-> Len(old.instructions), exports |-> t, error |-> FALSE]
  BY DEF LoadFile
<1>3. /\ Fits(old) /\ DOMAIN old.externals = 1 .. Len(old.externals)
      /\ DOMAIN new.externals = 1 .. Len(old.externals)
  <2>1. Fits(old) /\ Len(new.externals) = Len(old.externals)
    BY OriginalsAre DEF IsRenaming
  <2> QED
    BY <2>1, SequenceHas DEF Fits, Loadable
<1>4. \A i \in 1 .. Len(old.externals) :
         FindExport(st.exports, new.externals[i].name) = FindExport(pl.exports, old.externals[i].name)
  <2> SUFFICES ASSUME NEW i \in 1 .. Len(old.externals)
               PROVE  FindExport(st.exports, new.externals[i].name)
                      = FindExport(pl.exports, old.externals[i].name)
    OBVIOUS
  <2> DEFINE n == old.externals[i].name
  <2>1. new.externals[i].name = rho[n]
    BY DEF IsRenaming
  <2>2. n \in AllSymbolNames /\ n \notin MainNames
    BY NamesKnown, AllSymbolNamesFinite
  <2> HIDE DEF n
  <2>3. FindExport(st.exports, rho[n]) = FindExport(pl.exports, n)
    BY <2>2, FoundAlike
  <2> QED
    BY <2>1, <2>3 DEF n
<1>5. /\ IsMissing(st, new) <=> \E i \in 1 .. Len(old.externals) :
                                   FindExport(st.exports, new.externals[i].name) = 0
      /\ IsMissing(pl, old) <=> \E i \in 1 .. Len(old.externals) :
                                   FindExport(pl.exports, old.externals[i].name) = 0
  BY <1>3 DEF IsMissing, ToSet
<1>6. IsMissing(st, new) <=> IsMissing(pl, old)
  BY <1>4, <1>5
<1>7. new.wellFormed = old.wellFormed
  BY DEF IsRenaming
<1>8. ASSUME ~IsMissing(pl, old) PROVE x = y
  <2>1. \A i \in 1 .. Len(old.externals) : FindExport(pl.exports, old.externals[i].name) # 0
    BY <1>5, <1>8
  <2> QED
    BY <2>1, LinkedAlike
<1>9. StoresAlike([code |-> x.code, exports |-> st.exports], [code |-> x.code, exports |-> pl.exports], rho)
  BY DEF StoresAlike
<1>10. /\ IsSequence(pl.exports \o t)
       /\ StoresAlike([code |-> x.code, exports |-> st.exports \o s],
                      [code |-> x.code, exports |-> pl.exports \o t], rho)
  <2> DEFINE A == st.exports
             B == pl.exports
             n == Len(B)
             k == Len(t)
  <2>1. /\ IsSequence(A) /\ IsSequence(B) /\ Len(A) = n
        /\ \A i \in 1 .. n :
              /\ A[i].destination = B[i].destination
              /\ A[i].name = NewName(rho, B[i].name)
              /\ B[i].name \in AllSymbolNames \cup MainNames
    BY DEF StoresAlike
  <2>2. /\ Len(new.exports) = Len(old.exports) /\ Len(st.code) = Len(pl.code)
        /\ \A i \in 1 .. Len(old.exports) :
              /\ new.exports[i].destination = old.exports[i].destination
              /\ new.exports[i].name = NewName(rho, old.exports[i].name)
              /\ old.exports[i].name \in AllSymbolNames \cup MainNames
    BY NamesKnown, AllSymbolNamesFinite DEF IsRenaming, StoresAlike
  <2>3. /\ IsSequence(s) /\ Len(s) = Len(new.exports)
        /\ \A i \in 1 .. Len(new.exports) :
              /\ s[i].name = new.exports[i].name
              /\ s[i].destination
                 = IncrementDestinationAddress(new.exports[i].destination, Len(st.code))
    BY ExportsAlike
  <2>4. /\ IsSequence(t) /\ Len(t) = Len(old.exports)
        /\ \A i \in 1 .. Len(old.exports) :
              /\ t[i].name = old.exports[i].name
              /\ t[i].destination
                 = IncrementDestinationAddress(old.exports[i].destination, Len(pl.code))
    BY <1>3, ExportsAlike
  <2> HIDE DEF old, s, t, A, B, x
  <2>5. /\ IsSequence(s) /\ IsSequence(t) /\ Len(s) = k
        /\ \A i \in 1 .. k :
              /\ s[i].destination = t[i].destination
              /\ s[i].name = NewName(rho, t[i].name)
              /\ t[i].name \in AllSymbolNames \cup MainNames
    BY <2>2, <2>3, <2>4
  <2>6. n \in Nat /\ k \in Nat
    BY <2>1, <2>5, SequenceHas
  <2>7. /\ Len(A \o s) = n + k
        /\ \A i \in 1 .. n : (A \o s)[i] = A[i]
        /\ \A i \in 1 .. k : (A \o s)[n + i] = s[i]
    <3>1. IsSequence(A) /\ IsSequence(s)
      BY <2>1, <2>5
    <3>2. /\ Len(A \o s) = Len(A) + Len(s)
          /\ \A i \in 1 .. Len(A) : (A \o s)[i] = A[i]
          /\ \A i \in 1 .. Len(s) : (A \o s)[Len(A) + i] = s[i]
      BY <3>1, SequenceJoined
    <3> HIDE DEF n, k
    <3> QED
      BY <2>1, <2>5, <3>2
  <2>8. /\ IsSequence(B \o t) /\ Len(B \o t) = n + k
        /\ \A i \in 1 .. n : (B \o t)[i] = B[i]
        /\ \A i \in 1 .. k : (B \o t)[n + i] = t[i]
    BY <2>1, <2>5, SequenceJoined
  <2> DEFINE P == A \o s
             Q == B \o t
  <2>9. ASSUME NEW i \in 1 .. (n + k)
        PROVE  /\ P[i].destination = Q[i].destination
               /\ P[i].name = NewName(rho, Q[i].name)
               /\ Q[i].name \in AllSymbolNames \cup MainNames
    <3> HIDE DEF P, Q, n, k
    <3>1. CASE i <= n
      <4>1. i \in 1 .. n
        BY <2>6, <3>1
      <4>2. P[i] = A[i] /\ Q[i] = B[i]
        BY <2>7, <2>8, <4>1 DEF P, Q
      <4> QED
        BY <2>1, <4>1, <4>2
    <3>2. CASE ~(i <= n)
      <4> DEFINE j == i - n
      <4>1. j \in 1 .. k /\ n + j = i
        BY <2>6, <3>2
      <4> HIDE DEF j
      <4>2. P[i] = s[j] /\ Q[i] = t[j]
        BY <2>7, <2>8, <4>1 DEF P, Q
      <4> QED
        BY <2>5, <4>1, <4>2
    <3> QED
      BY <3>1, <3>2
  <2>10. Len(P) = n + k /\ Len(Q) = n + k
    BY <2>7, <2>8
  <2> HIDE DEF P, Q, n, k
  <2>11. StoresAlike([code |-> x.code, exports |-> P], [code |-> x.code, exports |-> Q], rho)
    BY <2>9, <2>10 DEF StoresAlike
  <2> QED
    BY <2>8, <2>11 DEF P, Q, A, B
<1> HIDE DEF a, b, x, y, s, t, old
<1>11. CASE ~old.wellFormed \/ IsMissing(pl, old)
  BY <1>1, <1>2, <1>6, <1>7, <1>11 DEF LoadError, OutcomesAlike
<1>12. CASE ~(~old.wellFormed \/ IsMissing(pl, old)) /\ y.error
  <2>1. /\ a = LoadError([st EXCEPT !.code = x.code])
        /\ b = LoadError([pl EXCEPT !.code = x.code])
    BY <1>1, <1>2, <1>6, <1>7, <1>8, <1>12
  <2>2. /\ [st EXCEPT !.code = x.code] = [code |-> x.code, exports |-> st.exports]
        /\ [pl EXCEPT !.code = x.code] = [code |-> x.code, exports |-> pl.exports]
    OBVIOUS
  <2> QED
    BY <1>9, <2>1, <2>2 DEF LoadError, OutcomesAlike
<1>13. CASE ~(~old.wellFormed \/ IsMissing(pl, old)) /\ ~y.error
  <2>1. /\ a = [store |-> [code |-> x.code, exports |-> st.exports \o s],
                count |-> Len(new.instructions), exports |-> s, error |-> FALSE]
        /\ b = [store |-> [code |-> x.code, exports |-> pl.exports \o t],
                count |-> Len(old.instructions), exports |-> t, error |-> FALSE]
    BY <1>1, <1>2, <1>6, <1>7, <1>8, <1>13
  <2> QED
    BY <1>10, <2>1 DEF OutcomesAlike
<1> QED
  BY <1>11, <1>12, <1>13

-----------------------------------------------------------------------------
(* The invariant of names *)

LEMMA AlikeInvHolds == Init => AlikeInv
<1> SUFFICES ASSUME Init PROVE AlikeInv
  OBVIOUS
<1> DEFINE rho == [n \in AllSymbolNames |-> n]
<1>1. /\ store = [code |-> <<>>, exports |-> <<>>] /\ plain = [code |-> <<>>, exports |-> <<>>]
      /\ segments = <<>> /\ failed = <<>> /\ files = Originals /\ next = 0
  BY DEF Init, StoreInit, EmptyStore
<1>2. IsSequence(<<>>) /\ Len(<<>>) = 0
  <2>1. <<>> \in Seq({}) /\ Len(<<>>) = 0
    OBVIOUS
  <2> QED
    BY <2>1, SequenceIs
<1>3. LoadsMatch
  BY <1>1, <1>2 DEF LoadsMatch
<1>4. AllSymbolNames \cap MainNames = {}
  BY NamesKnown, OriginalsAre DEF AllSymbolNames
<1>5. DOMAIN rho = AllSymbolNames /\ \A n \in AllSymbolNames : rho[n] = n
  OBVIOUS
<1> HIDE DEF rho
<1>6. Renaming(rho)
  BY <1>4, <1>5 DEF Renaming
<1>7. StoresAlike(store, plain, rho)
  BY <1>1, <1>2 DEF StoresAlike
<1>8. ASSUME NEW f \in 1 .. Len(Originals)
      PROVE  Fields(files[f]) /\ FileNamed(f, rho)
  <2> DEFINE image == Originals[f]
  <2>1. Fields(image) /\ files[f] = image
    BY <1>1, OriginalsAre, OriginalsHaveFields
  <2>2. /\ \A i \in 1 .. Len(image.externals) :
              rho[image.externals[i].name] = image.externals[i].name
        /\ \A i \in 1 .. Len(image.exports) :
              NewName(rho, image.exports[i].name) = image.exports[i].name
    BY <1>5, NamesKnown, AllSymbolNamesFinite DEF NewName
  <2> HIDE DEF image
  <2>3. IsRenaming(image, image, rho)
    BY <2>2 DEF IsRenaming
  <2> QED
    BY <1>1, <2>1, <2>3 DEF FileNamed, image
<1>9. FilesNamed(rho)
  BY <1>1, <1>8, OriginalsAre DEF FilesNamed
<1> QED
  BY <1>3, <1>6, <1>7, <1>9 DEF AlikeInv, AlikeWith

LEMMA StartRunAlike == AlikeInv /\ StartRun => AlikeInv'
<1> SUFFICES ASSUME AlikeInv, StartRun PROVE AlikeInv'
  OBVIOUS
<1>1. PICK rho : AlikeWith(rho)
  BY DEF AlikeInv
<1>2. /\ next = 0 /\ segments = <<>> /\ next' = 1 /\ mapping' = <<>>
      /\ UNCHANGED <<files, plain, failed, store, segments>>
  BY DEF StartRun, storeVars
<1>3. LoadsMatch'
  BY <1>2 DEF AlikeInv, LoadsMatch
<1>4. StoresAlike(store', plain', rho)
  BY <1>1, <1>2 DEF AlikeWith
<1>5. Numbers(mapping', rho)
  <2>1. DOMAIN mapping' = {}
    BY <1>2
  <2> QED
    BY <2>1 DEF Numbers
<1>6. ASSUME NEW f \in 1 .. Len(Originals) PROVE (Fields(files[f]) /\ FileNamed(f, rho))'
  <2>1. Fields(files[f]) /\ FileNamed(f, rho)
    BY <1>1 DEF AlikeWith, FilesNamed
  <2>2. ~(f < 1)
    BY OriginalsAre
  <2> QED
    BY <1>2, <2>1, <2>2 DEF FileNamed
<1>7. FilesNamed(rho)'
  <2>1. /\ IsSequence(files) /\ Len(files) = Len(Originals)
    BY <1>1 DEF AlikeWith, FilesNamed
  <2>2. 1 \in 0 .. Len(files)
    BY <2>1, OriginalsAre
  <2> QED
    BY <1>2, <1>5, <1>6, <2>1, <2>2 DEF FilesNamed
<1>8. AlikeWith(rho)'
  BY <1>1, <1>4, <1>7 DEF AlikeWith
<1> QED
  BY <1>3, <1>8 DEF AlikeInv

\* What strip.py has done when it has written one more file.
LEMMA StripFileNames ==
    ASSUME NEW rho, AlikeWith(rho), StripFile, FilesFit
    PROVE  /\ next \in 1 .. Len(Originals) /\ Len(files) = Len(Originals)
           /\ Numbers(mapping', rho)
           /\ IsSequence(files') /\ Len(files') = Len(Originals)
           /\ \A f \in 1 .. Len(Originals) :
                 /\ Fields(files'[f])
                 /\ f <= next => /\ IsRenaming(files'[f], Originals[f], Through(mapping', rho))
                                 /\ \A n \in SymbolNames(Originals[f]) : rho[n] \in DOMAIN mapping'
                 /\ next < f => IsRenaming(files'[f], Originals[f], rho)
<1> DEFINE N == Len(Originals)
           names == MappingAfter(mapping, files[next])
<1>1. /\ next # 0 /\ mapping' = names
      /\ files' = [files EXCEPT ![next] = Renamed(files[next], names)]
  BY DEF StripFile
<1>2. /\ Renaming(rho) /\ IsSequence(files) /\ Len(files) = N /\ next \in 1 .. N
      /\ Numbers(mapping, rho)
      /\ \A f \in 1 .. N : Fields(files[f]) /\ FileNamed(f, rho)
  <2>1. next \in 0 .. Len(files) /\ Len(files) = N
    BY DEF AlikeWith, FilesNamed
  <2>2. next \in 1 .. N
    BY <1>1, <2>1, OriginalsAre
  <2> QED
    BY <1>1, <2>1, <2>2 DEF AlikeWith, FilesNamed
<1>3. DOMAIN files = 1 .. N /\ N \in Nat /\ files = [f \in 1 .. N |-> files[f]]
  BY <1>2, SequenceHas
<1>4. IsRenaming(files[next], Originals[next], rho)
  <2>1. ~(next < next)
    BY <1>2
  <2> QED
    BY <1>2, <2>1 DEF FileNamed
<1>5. /\ Numbers(names, rho) /\ Grows(mapping, names)
      /\ \A n \in SymbolNames(Originals[next]) : rho[n] \in DOMAIN names
  BY <1>2, <1>4, MappingAfterGrows
<1>6. Fits(files[next]) /\ Fields(files[next])
  BY <1>2, <1>3 DEF FilesFit
<1> HIDE DEF names
<1>7. /\ DOMAIN files' = 1 .. N
      /\ \A f \in 1 .. N : files'[f] = IF f = next THEN Renamed(files[next], names) ELSE files[f]
      /\ files' = [f \in 1 .. N |-> files'[f]]
  BY <1>1, <1>3
<1>8. IsSequence(files') /\ Len(files') = N
  <2> DEFINE new == files'
  <2>1. DOMAIN new = 1 .. N /\ new = [f \in 1 .. N |-> new[f]]
    BY <1>7
  <2> HIDE DEF new
  <2>2. IsSequence(new) /\ Len(new) = N
    BY <1>3, <2>1, SequenceMade
  <2> QED
    BY <2>2 DEF new
<1>9. ASSUME NEW f \in 1 .. N
      PROVE  /\ Fields(files'[f])
             /\ f <= next => /\ IsRenaming(files'[f], Originals[f], Through(names, rho))
                             /\ \A n \in SymbolNames(Originals[f]) : rho[n] \in DOMAIN names
             /\ next < f => IsRenaming(files'[f], Originals[f], rho)
  <2>1. CASE f = next
    <3>1. files'[f] = Renamed(files[next], names)
      BY <1>7, <2>1
    <3>2. Fields(Renamed(files[next], names))
      BY <1>6, RenamedHasFields
    <3>3. IsRenaming(Renamed(files[next], names), Originals[next], Through(names, rho))
      <4> DEFINE image == files[next]
      <4> HIDE DEF image
      <4>1. /\ Fits(image) /\ IsRenaming(image, Originals[next], rho)
            /\ {"wellFormed", "constants", "toFix"} \subseteq DOMAIN image
            /\ \A i \in 1 .. Len(image.externals) :
                  {"name", "flags"} \subseteq DOMAIN image.externals[i]
            /\ \A i \in 1 .. Len(image.exports) : "name" \in DOMAIN image.exports[i]
        BY <1>4, <1>6 DEF Fields, image
      <4>2. IsRenaming(Renamed(image, names), Originals[next], Through(names, rho))
        BY <1>2, <4>1, RenamedIsRenaming
      <4> QED
        BY <4>2 DEF image
    <3>4. ~(next < f)
      BY <1>2, <2>1
    <3> QED
      BY <1>5, <2>1, <3>1, <3>2, <3>3, <3>4
  <2>2. CASE f # next
    <3>1. files'[f] = files[f] /\ Fields(files[f]) /\ FileNamed(f, rho)
      BY <1>2, <1>7, <2>2
    <3>2. f \in Nat /\ next \in Nat
      BY <1>2
    <3>3. CASE f < next
      <4>1. /\ \A n \in SymbolNames(Originals[f]) : rho[n] \in DOMAIN mapping
            /\ IsRenaming(files[f], Originals[f], Through(mapping, rho))
        BY <1>1, <3>1, <3>3 DEF FileNamed
      <4>2. IsRenaming(files[f], Originals[f], Through(names, rho))
        BY <1>5, <4>1, RenamingStays
      <4>3. \A n \in SymbolNames(Originals[f]) : rho[n] \in DOMAIN names
        BY <1>5, <4>1 DEF Grows
      <4>4. ~(next < f)
        BY <3>2, <3>3
      <4> QED
        BY <3>1, <4>2, <4>3, <4>4
    <3>4. CASE next < f
      <4>1. ~(f < next) /\ ~(f <= next)
        BY <3>2, <3>4
      <4>2. IsRenaming(files[f], Originals[f], rho)
        BY <3>1, <4>1 DEF FileNamed
      <4> QED
        BY <3>1, <4>1, <4>2
    <3> QED
      BY <2>2, <3>2, <3>3, <3>4
  <2> QED
    BY <2>1, <2>2
<1> QED
  BY <1>1, <1>2, <1>5, <1>8, <1>9

LEMMA StripFileAlike == FilesFit /\ AlikeInv /\ StripFile => AlikeInv'
<1> SUFFICES ASSUME FilesFit, AlikeInv, StripFile PROVE AlikeInv'
  OBVIOUS
<1>1. PICK rho : AlikeWith(rho)
  BY DEF AlikeInv
<1> DEFINE N == Len(Originals)
<1>2. PICK new : new = Through(mapping', rho)
  OBVIOUS
<1>3. /\ next \in 1 .. N /\ Len(files) = N /\ N \in Nat
      /\ Numbers(mapping', rho)
      /\ IsSequence(files') /\ Len(files') = N
      /\ \A f \in 1 .. N :
            /\ Fields(files'[f])
            /\ f <= next => /\ IsRenaming(files'[f], Originals[f], new)
                            /\ \A n \in SymbolNames(Originals[f]) : rho[n] \in DOMAIN mapping'
            /\ next < f => IsRenaming(files'[f], Originals[f], rho)
  BY <1>1, <1>2, StripFileNames, OriginalsAre
<1>4. /\ UNCHANGED <<plain, failed, store, segments>>
      /\ next' = IF next = N THEN 0 ELSE next + 1
  BY <1>3 DEF StripFile, storeVars
<1>5. /\ Renaming(rho) /\ StoresAlike(store, plain, rho) /\ segments = <<>>
  BY <1>1, <1>3 DEF AlikeWith, FilesNamed
<1>6. LoadsMatch'
  BY <1>4 DEF AlikeInv, LoadsMatch
<1>7. CASE next = N
  <2> HIDE DEF N
  <2>1. next' = 0
    BY <1>4, <1>7
  <2>2. \A n \in AllSymbolNames : rho[n] \in DOMAIN mapping'
    <3> SUFFICES ASSUME NEW n \in AllSymbolNames PROVE rho[n] \in DOMAIN mapping'
      OBVIOUS
    <3>1. PICK f \in 1 .. N : n \in SymbolNames(Originals[f])
      BY OriginalsAre DEF AllSymbolNames, N
    <3>2. f <= next
      BY <1>3, <1>7
    <3> QED
      BY <1>3, <3>1, <3>2
  <2>3. Renaming(new)
    <3> DEFINE names == mapping'
    <3>1. Numbers(names, rho) /\ \A n \in AllSymbolNames : rho[n] \in DOMAIN names
      BY <1>3, <2>2
    <3> HIDE DEF names
    <3>2. Renaming(Through(names, rho))
      BY <1>5, <3>1, RunRenames
    <3> QED
      BY <1>2, <3>2 DEF names
  <2>4. StoresAlike(store', plain', new)
    <3>1. plain.exports = <<>> /\ Len(plain.exports) = 0
      BY <1>5 DEF AlikeInv, LoadsMatch
    <3>2. StoresAlike(store, plain, new)
      BY <1>5, <3>1 DEF StoresAlike
    <3> QED
      BY <1>4, <3>2
  <2>5. ASSUME NEW f \in 1 .. N PROVE Fields(files'[f]) /\ FileNamed(f, new)'
    <3>1. f <= next
      BY <1>3, <1>7
    <3> QED
      BY <1>3, <2>1, <3>1 DEF FileNamed
  <2>6. FilesNamed(new)'
    <3>1. 0 \in 0 .. Len(files')
      BY <1>3
    <3> QED
      BY <1>3, <2>1, <2>5, <3>1 DEF FilesNamed, N
  <2>7. AlikeWith(new)'
    BY <2>3, <2>4, <2>6 DEF AlikeWith
  <2> QED
    BY <1>6, <2>7 DEF AlikeInv
<1>8. CASE next # N
  <2>1. next' = next + 1 /\ next' # 0 /\ next' \in 0 .. N
    BY <1>3, <1>4, <1>8
  <2>2. StoresAlike(store', plain', rho)
    BY <1>4, <1>5
  <2>3. ASSUME NEW f \in 1 .. N PROVE (Fields(files[f]) /\ FileNamed(f, rho))'
    <3> HIDE DEF N
    <3>1. f < next' <=> f <= next
      BY <1>3, <2>1
    <3>2. ~(f < next') => next < f
      BY <1>3, <3>1
    <3>3. f <= next => /\ IsRenaming(files'[f], Originals[f], Through(mapping', rho))
                       /\ \A n \in SymbolNames(Originals[f]) : rho[n] \in DOMAIN mapping'
      BY <1>2, <1>3
    <3>4. next < f => IsRenaming(files'[f], Originals[f], rho)
      BY <1>3
    <3>5. Fields(files'[f])
      BY <1>3
    <3>6. FileNamed(f, rho)'
      BY <2>1, <3>1, <3>2, <3>3, <3>4 DEF FileNamed
    <3> QED
      BY <3>5, <3>6
  <2>4. FilesNamed(rho)'
    BY <1>3, <1>4, <1>5, <2>1, <2>3 DEF FilesNamed
  <2>5. AlikeWith(rho)'
    BY <1>5, <2>2, <2>4 DEF AlikeWith
  <2> QED
    BY <1>6, <2>5 DEF AlikeInv
<1> QED
  BY <1>7, <1>8

LEMMA LoadBothAlike ==
    ASSUME StoreShape, FilesFit, AlikeInv, NEW f \in DOMAIN files, LoadBoth(f)
    PROVE  AlikeInv'
<1>1. PICK rho : AlikeWith(rho)
  BY DEF AlikeInv
<1> DEFINE p == (segments = <<>>)
           image == files[f]
           a == LoadFile(store, image, p)
           b == LoadFile(plain, Originals[f], p)
           n == Len(segments)
<1>2. /\ next = 0 /\ Load(image)
      /\ plain' = LoadFile(plain, Originals[f], failed = <<>>).store
      /\ failed' = Append(failed, LoadFile(plain, Originals[f], failed = <<>>).error)
      /\ UNCHANGED <<files, next, mapping>>
  BY DEF LoadBoth
<1>3. /\ IsSequence(segments) /\ IsSequence(failed) /\ Len(failed) = n
      /\ DOMAIN plain = {"code", "exports"} /\ IsSequence(plain.exports)
      /\ DOMAIN store = {"code", "exports"} /\ IsSequence(store.exports)
      /\ \A i \in 1 .. n : failed[i] \in BOOLEAN /\ segments[i].live = ~failed[i]
  BY DEF StoreShape, AlikeInv, LoadsMatch
<1>4. (failed = <<>>) = p
  <2>1. segments = <<>> <=> Len(segments) = 0
    BY <1>3, EmptySeq DEF IsSequence
  <2>2. failed = <<>> <=> Len(failed) = 0
    BY <1>3, EmptySeq DEF IsSequence
  <2> QED
    BY <1>3, <2>1, <2>2
<1>5. plain' = b.store /\ failed' = Append(failed, b.error)
  BY <1>2, <1>4
<1>6. store' = a.store /\ \E e : segments' = Append(segments, e) /\ e.live = ~a.error
  <2> DEFINE e == [image |-> image, start |-> Len(store.code),
                   count |-> Len(a.store.code) - Len(store.code), live |-> ~a.error]
  <2>1. store' = a.store /\ segments' = Append(segments, e)
    BY <1>2 DEF Load
  <2>2. e.live = ~a.error
    OBVIOUS
  <2> HIDE DEF e
  <2> QED
    BY <2>1, <2>2
<1>7. /\ f \in 1 .. Len(Originals) /\ Fits(image) /\ IsRenaming(image, Originals[f], rho)
      /\ Renaming(rho) /\ StoresAlike(store, plain, rho) /\ FilesNamed(rho)
  <2>1. IsSequence(files) /\ Len(files) = Len(Originals)
    BY <1>1 DEF AlikeWith, FilesNamed
  <2>2. f \in 1 .. Len(Originals)
    BY <2>1, SequenceHas
  <2>3. FileNamed(f, rho)
    BY <1>1, <2>2 DEF AlikeWith, FilesNamed
  <2> QED
    BY <1>1, <1>2, <2>2, <2>3 DEF AlikeWith, FileNamed, FilesFit
<1>8. OutcomesAlike(a, b, rho)
  <2> HIDE DEF p, image
  <2> QED
    BY <1>3, <1>7, LoadedAlike
<1>9. /\ a.error = b.error /\ b.error \in BOOLEAN /\ StoresAlike(store', plain', rho)
      /\ DOMAIN plain' = {"code", "exports"} /\ IsSequence(plain'.exports)
  <2> HIDE DEF a, b
  <2> QED
    BY <1>5, <1>6, <1>8 DEF OutcomesAlike
<1> HIDE DEF a, b, p, image
<1>10. PICK e : segments' = Append(segments, e) /\ e.live = ~b.error
  BY <1>6, <1>9
<1>11. /\ IsSequence(segments') /\ Len(segments') = n + 1
       /\ \A i \in 1 .. n : segments'[i] = segments[i]
       /\ segments'[n + 1] = e
  <2> DEFINE after == Append(segments, e)
  <2>1. /\ IsSequence(after) /\ Len(after) = n + 1
        /\ \A i \in 1 .. n : after[i] = segments[i]
        /\ after[n + 1] = e
    BY <1>3, SequenceAppended
  <2> QED
    BY <1>10, <2>1
<1>12. /\ IsSequence(failed') /\ Len(failed') = n + 1
       /\ \A i \in 1 .. n : failed'[i] = failed[i]
       /\ failed'[n + 1] = b.error
  <2> DEFINE after == Append(failed, b.error)
             m == Len(failed)
  <2>1. /\ IsSequence(after) /\ Len(after) = m + 1
        /\ \A i \in 1 .. m : after[i] = failed[i]
        /\ after[m + 1] = b.error
    <3>1. IsSequence(failed)
      BY <1>3
    <3> QED
      BY <3>1, SequenceAppended
  <2> HIDE DEF after
  <2>2. m = n /\ failed' = after
    BY <1>3, <1>5 DEF after
  <2> HIDE DEF m, n
  <2> QED
    BY <2>1, <2>2
<1>13. n \in Nat
  BY <1>3, SequenceHas
<1>14. segments' # <<>>
  <2>1. Len(segments') # 0
    BY <1>11, <1>13
  <2> QED
    BY <2>1
<1>15. LoadsMatch'
  <2>1. ASSUME NEW i \in 1 .. (n + 1)
        PROVE  failed'[i] \in BOOLEAN /\ segments'[i].live = ~failed'[i]
    <3> HIDE DEF n
    <3>1. CASE i = n + 1
      BY <1>9, <1>10, <1>11, <1>12, <3>1
    <3>2. CASE i # n + 1
      <4>1. i \in 1 .. n
        BY <1>13, <3>2
      <4> QED
        BY <1>3, <1>11, <1>12, <4>1
    <3> QED
      BY <3>1, <3>2
  <2> QED
    BY <1>9, <1>11, <1>12, <1>14, <2>1 DEF LoadsMatch
<1>16. FilesNamed(rho)'
  BY <1>2, <1>7 DEF FilesNamed, FileNamed
<1>17. AlikeWith(rho)'
  BY <1>7, <1>9, <1>16 DEF AlikeWith
<1> QED
  BY <1>15, <1>17 DEF AlikeInv

LEMMA AlikeAlways == Spec => []AlikeInv
<1>1. Inv /\ AlikeInv /\ [Next]_vars => AlikeInv'
  <2> SUFFICES ASSUME Inv, AlikeInv, [Next]_vars PROVE AlikeInv'
    OBVIOUS
  <2>1. StoreShape /\ FilesFit
    BY DEF Inv
  <2>2. CASE StartRun
    BY <2>2, StartRunAlike
  <2>3. CASE StripFile
    BY <2>1, <2>3, StripFileAlike
  <2>4. ASSUME NEW f \in DOMAIN files, LoadBoth(f) PROVE AlikeInv'
    BY <2>1, <2>4, LoadBothAlike
  <2>5. CASE UNCHANGED vars
    <3>1. UNCHANGED <<files, next, mapping, plain, failed, store, segments>>
      BY <2>5 DEF vars, storeVars
    <3>2. LoadsMatch'
      BY <3>1 DEF AlikeInv, LoadsMatch
    <3>3. ASSUME NEW rho, AlikeWith(rho) PROVE AlikeWith(rho)'
      BY <3>1, <3>3 DEF AlikeWith, FilesNamed, FileNamed
    <3> QED
      BY <3>2, <3>3 DEF AlikeInv
  <2> QED
    BY <2>2, <2>3, <2>4, <2>5 DEF Next
<1> QED
  BY <1>1, InvAlways, AlikeInvHolds, PTL DEF Spec

-----------------------------------------------------------------------------
(* Theorems *)

\* Whatever the files are, stripped or not, and however many of the loads fail:
\* every destination of every file that load_file has loaded stays the one the
\* file means, the first definition of a symbol included.
THEOREM LoadedCodeLinked == Spec => []LiveCodeLinked
<1>1. Inv => LiveCodeLinked
  BY DEF Inv
<1> QED
  BY <1>1, InvAlways, PTL

\* Every symbol in the list of exports is at an instruction of a file that was
\* loaded with success and that exports it: a failed load can leave
\* instructions behind, but nothing can be linked to them.
THEOREM SymbolsAreLive == Spec => []ExportsAreLive
<1>1. Inv => ExportsAreLive
  BY DEF Inv
<1> QED
  BY <1>1, InvAlways, PTL

\* No load changes an instruction that was there before it.
THEOREM LoadsKeepCode == Spec => CodeStays
<1>1. Inv /\ [Next]_vars => [IsPrefix(store.code, store'.code)]_storeVars
  <2> SUFFICES ASSUME Inv, [Next]_vars PROVE [IsPrefix(store.code, store'.code)]_storeVars
    OBVIOUS
  <2>1. CASE StartRun \/ StripFile \/ UNCHANGED vars
    <3>1. UNCHANGED storeVars
      BY <2>1 DEF StartRun, StripFile, vars
    <3> QED
      BY <3>1
  <2>2. ASSUME NEW f \in DOMAIN files, LoadBoth(f)
        PROVE  IsPrefix(store.code, store'.code)
    <3>1. Load(files[f]) /\ Fits(files[f]) /\ StoreShape
      BY <2>2 DEF LoadBoth, Inv, FilesFit
    <3> DEFINE image == files[f]
               old == store.code
               new == store'.code
    <3>2. /\ Len(old) <= Len(new)
          /\ \A k \in 1 .. Len(old) : new[k] = old[k]
          /\ StoreShape'
      <4> HIDE DEF image
      <4> QED
        BY <3>1, LoadExtends DEF image
    <3>3. IsSequence(old) /\ IsSequence(new)
      BY <3>1, <3>2 DEF StoreShape
    <3> HIDE DEF old, new
    <3>4. IsPrefix(old, new)
      BY <3>2, <3>3, PrefixOf
    <3> QED
      BY <3>4 DEF old, new
  <2> QED
    BY <2>1, <2>2 DEF Next
<1> QED
  BY <1>1, InvAlways, PTL DEF Spec, CodeStays

\* Whatever files strip.py has been given, however often, and whatever is then
\* loaded in whichever order: a machine cannot tell the stripped files from the
\* originals.  The same loads fail, and the code is the same.
THEOREM StrippedFilesLoadAlike == Spec => []LoadsAlike
<1>1. Inv /\ AlikeInv => LoadsAlike
  <2> SUFFICES ASSUME Inv, AlikeInv PROVE LoadsAlike
    OBVIOUS
  <2>1. PICK rho : AlikeWith(rho)
    BY DEF AlikeInv
  <2>2. /\ DOMAIN segments = 1 .. Len(segments)
        /\ DOMAIN plain.exports = 1 .. Len(plain.exports)
    BY SequenceHas DEF Inv, StoreShape, AlikeInv, LoadsMatch
  <2>3. \A i \in DOMAIN segments : segments[i].live = ~failed[i]
    BY <2>2 DEF AlikeInv, LoadsMatch
  <2>4. Renaming(rho) /\ StoresAlike(store, plain, rho)
    BY <2>1 DEF AlikeWith
  <2>5. store.code = plain.code /\ Len(store.exports) = Len(plain.exports)
    BY <2>4 DEF StoresAlike
  <2>6. ASSUME NEW i \in DOMAIN plain.exports
        PROVE  /\ plain.exports[i].destination = store.exports[i].destination
               /\ {plain.exports[i].name, store.exports[i].name} \cap MainNames # {} =>
                     plain.exports[i].name = store.exports[i].name
    <3> DEFINE x == plain.exports[i].name
               y == store.exports[i].name
    <3>1. /\ plain.exports[i].destination = store.exports[i].destination
          /\ y = NewName(rho, x) /\ x \in AllSymbolNames \cup MainNames
      BY <2>2, <2>4 DEF StoresAlike
    <3> HIDE DEF x, y
    <3>2. {x, y} \cap MainNames # {} => x = y
      BY <2>4, <3>1 DEF NewName, Renaming
    <3> QED
      BY <3>1, <3>2 DEF x, y
  <2> QED
    BY <2>3, <2>5, <2>6 DEF LoadsAlike
<1> QED
  BY <1>1, InvAlways, AlikeAlways, PTL
=============================================================================
