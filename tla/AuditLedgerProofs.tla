------------------------- MODULE AuditLedgerProofs --------------------------
(***************************************************************************)
(* Proofs about AuditLedger, for any number of records and of edits.       *)
(*                                                                         *)
(* The induction over the positions of a sequence that the two definitions *)
(* with a greatest index need is taken from the well-foundedness of the    *)
(* naturals (LeastElement, GreatestElement).                               *)
(***************************************************************************)
EXTENDS AuditLedger, TLAPS, WellFoundedInduction, SequenceTheorems

USE DEF Genesis

(* A set of naturals that is not empty has a least element. *)
LEMMA LeastElement ==
  ASSUME NEW T, T \subseteq Nat, T # {}
  PROVE  \E x \in T : \A y \in T : x <= y
<1> DEFINE R == OpToRel(<, Nat)
<1>1. IsWellFoundedOn(R, Nat)
  BY NatLessThanWellFounded
<1>2. \A x, y \in Nat : y < x => <<y, x>> \in R
  BY DEF OpToRel
<1> HIDE DEF R
<1>3. PICK x \in T : \A y \in T : ~(<<y, x>> \in R)
  BY <1>1, WFMin
<1>4. \A y \in T : ~(y < x)
  BY <1>2, <1>3
<1> QED BY <1>4

(* What Max returns: a bounded set that holds 0 has a greatest element. *)
LEMMA GreatestElement ==
  ASSUME NEW n \in Nat, NEW T, T \subseteq 0 .. n, 0 \in T
  PROVE  Max(T) \in T /\ \A y \in T : y <= Max(T)
<1> DEFINE S == {n - y : y \in T}
<1>1. S \subseteq Nat /\ S # {}
  OBVIOUS
<1>2. PICK x \in S : \A y \in S : x <= y
  <2> HIDE DEF S
  <2> QED BY <1>1, LeastElement
<1>3. PICK z \in T : x = n - z
  BY <1>2
<1>4. \A y \in T : z >= y
  <2> SUFFICES ASSUME NEW y \in T PROVE z >= y
    OBVIOUS
  <2>1. x <= n - y
    BY <1>2
  <2> QED BY <2>1, <1>3
<1> QED BY <1>3, <1>4 DEF Max

(* What verify_chain vouches for is the longest prefix of linked entries. *)
VouchedLength(c) == Max({n \in 0 .. Len(c) : \A i \in 1 .. n : Linked(c, i)})

LEMMA VouchedPrefix ==
  ASSUME NEW c \in Seq(Entry)
  PROVE  /\ VouchedLength(c) \in 0 .. Len(c)
         /\ \A i \in 1 .. VouchedLength(c) : Linked(c, i)
         /\ \A n \in 0 .. Len(c) : (\A i \in 1 .. n : Linked(c, i)) => n <= VouchedLength(c)
         /\ Vouched(c) = SubSeq(c, 1, VouchedLength(c))
         /\ Len(Vouched(c)) = VouchedLength(c)
         /\ \A i \in 1 .. VouchedLength(c) : Vouched(c)[i] = c[i]
<1> DEFINE T == {n \in 0 .. Len(c) : \A i \in 1 .. n : Linked(c, i)}
<1>1. Len(c) \in Nat /\ T \subseteq 0 .. Len(c) /\ 0 \in T
  OBVIOUS
<1>2. Max(T) \in T /\ \A y \in T : y <= Max(T)
  <2> HIDE DEF T
  <2> QED BY <1>1, GreatestElement
<1>3. VouchedLength(c) = Max(T) /\ Vouched(c) = SubSeq(c, 1, VouchedLength(c))
  BY DEF VouchedLength, Vouched
<1>4. /\ VouchedLength(c) \in 0 .. Len(c)
      /\ \A i \in 1 .. VouchedLength(c) : Linked(c, i)
  BY <1>2, <1>3
<1>5. \A n \in 0 .. Len(c) : (\A i \in 1 .. n : Linked(c, i)) => n <= VouchedLength(c)
  BY <1>2, <1>3
<1>6. /\ Len(SubSeq(c, 1, VouchedLength(c))) = VouchedLength(c)
      /\ \A i \in 1 .. VouchedLength(c) : SubSeq(c, 1, VouchedLength(c))[i] = c[i]
  BY <1>4
<1> QED BY <1>3, <1>4, <1>5, <1>6

(* What a load reads is the longest prefix of lines that parse. *)
LEMMA LoadedPrefix ==
  ASSUME NEW f \in Seq(Entry \cup {Garbage})
  PROVE  /\ Loaded(f) \in Seq(Entry)
         /\ Len(Loaded(f)) \in 0 .. Len(f)
         /\ \A i \in 1 .. Len(Loaded(f)) : Loaded(f)[i] = f[i] /\ f[i] # Garbage
         /\ Len(Loaded(f)) < Len(f) => f[Len(Loaded(f)) + 1] = Garbage
<1> DEFINE T == {n \in 0 .. Len(f) : \A i \in 1 .. n : f[i] # Garbage}
<1>1. Len(f) \in Nat /\ T \subseteq 0 .. Len(f) /\ 0 \in T
  OBVIOUS
<1>2. Max(T) \in T /\ \A y \in T : y <= Max(T)
  <2> HIDE DEF T
  <2> QED BY <1>1, GreatestElement
<1> DEFINE k == Max(T)
<1>3. k \in 0 .. Len(f) /\ \A i \in 1 .. k : f[i] # Garbage
  BY <1>2
<1>4. Loaded(f) = SubSeq(f, 1, k)
  BY DEF Loaded
<1>5. k < Len(f) => f[k + 1] = Garbage
  <2> SUFFICES ASSUME k < Len(f), f[k + 1] # Garbage PROVE FALSE
    OBVIOUS
  <2>1. k + 1 \in T
    <3> HIDE DEF k
    <3> QED BY <1>3
  <2> QED BY <2>1, <1>2, <1>3
<1> HIDE DEF k
<1> QED BY <1>3, <1>4, <1>5

(* And the only prefix that ends where the lines do or before a garbled one. *)
LEMMA LoadedIs ==
  ASSUME NEW f \in Seq(Entry \cup {Garbage}), NEW k \in 0 .. Len(f),
         \A i \in 1 .. k : f[i] # Garbage,
         k < Len(f) => f[k + 1] = Garbage
  PROVE  Len(Loaded(f)) = k /\ \A i \in 1 .. k : Loaded(f)[i] = f[i]
<1> DEFINE n == Len(Loaded(f))
<1>1. /\ n \in 0 .. Len(f)
      /\ \A i \in 1 .. n : Loaded(f)[i] = f[i] /\ f[i] # Garbage
      /\ n < Len(f) => f[n + 1] = Garbage
  BY LoadedPrefix
<1>2. ~(n < k)
  <2> SUFFICES ASSUME n < k PROVE FALSE
    OBVIOUS
  <2> HIDE DEF n
  <2>1. n + 1 \in 1 .. k /\ n < Len(f)
    BY <1>1
  <2> QED BY <2>1, <1>1
<1>3. ~(k < n)
  <2> SUFFICES ASSUME k < n PROVE FALSE
    OBVIOUS
  <2> HIDE DEF n
  <2>1. k + 1 \in 1 .. n /\ k < Len(f)
    BY <1>1
  <2> QED BY <2>1, <1>1
<1>4. n = k
  <2> HIDE DEF n
  <2> QED BY <1>1, <1>2, <1>3
<1> QED BY <1>1, <1>4

----------------------------------------------------------------------------
(* The inductive invariant.                                                *)

(* Every entry was linked to one that is as late as all before it, and the *)
(* numbers of those that are as they were recorded increase.               *)
Ordered(c) ==
  /\ \A i \in 1 .. Len(c) : c[i].prev < c[i].id /\ c[i].id <= minted
  /\ \A j \in 1 .. Len(c) : \A i \in 1 .. j - 1 :
       c[i].id <= c[j].prev /\ (Recorded(c[i]) /\ Recorded(c[j]) => c[i].seq < c[j].seq)

(* The entries of lines that verify_chain would vouch for are the first of *)
(* the chain, and the chain is as late as any of the lines.                *)
Agrees(lines) ==
  /\ \A n \in 0 .. Len(lines) :
       (\A i \in 1 .. n : Linked(lines, i)) =>
         n <= Len(chain) /\ \A i \in 1 .. n : chain[i] = lines[i]
  /\ \A i \in 1 .. Len(lines) : chain # << >> /\ lines[i].id <= chain[Len(chain)].id

Numbered(c) == up => \A i \in 1 .. Len(c) : Recorded(c[i]) => c[i].seq <= seq

(* Without harm everything is linked, and a running process has in memory  *)
(* what a file without a garbled line has.                                 *)
Honest(lines) ==
  ~harmed =>
    /\ \A i \in 1 .. Len(chain) : Linked(chain, i)
    /\ \A i \in 1 .. Len(lines) : Linked(lines, i)
    /\ up /\ Len(lines) = Len(file) => Len(lines) = Len(chain)

(* What holds whatever is done to the file.                                *)
Basic ==
  /\ TypeOK
  /\ up => \A i \in 1 .. Len(chain) : chain[i].seq <= seq
  /\ forged => harmed

(* What holds until an entry is forged.                                    *)
Sound(lines) ==
  /\ Ordered(chain) /\ Ordered(lines)
  /\ Agrees(lines)
  /\ Numbered(lines)

IInv ==
  /\ Basic
  /\ Honest(Loaded(file))
  /\ forged \/ Sound(Loaded(file))

(* The invariant speaks of the variables only.                             *)
LEMMA StutterKeeps == IInv /\ UNCHANGED vars => IInv'
BY DEF IInv, Basic, Sound, TypeOK, Ordered, Agrees, Numbered, Honest, vars, memory, disk

LEMMA InitInvariant == Init => IInv
<1> SUFFICES ASSUME Init PROVE IInv
  OBVIOUS
<1>a. << >> \in Seq(Entry) /\ << >> \in Seq(Entry \cup {Garbage}) /\ Len(<< >>) = 0
  OBVIOUS
<1>b. 0 \in 0 .. MaxRecords /\ 0 \in 0 .. MaxHarms
  BY LedgerAssumption
<1>1. TypeOK
  BY <1>a, <1>b DEF Init, TypeOK
<1>2. Loaded(file) \in Seq(Entry) /\ Len(Loaded(file)) = 0
  <2>1. file \in Seq(Entry \cup {Garbage}) /\ Len(file) = 0
    BY <1>a DEF Init
  <2>2. Loaded(file) \in Seq(Entry) /\ Len(Loaded(file)) \in 0 .. Len(file)
    BY <2>1, LoadedPrefix
  <2> QED BY <2>1, <2>2
<1>3. Len(chain) = 0 /\ Len(file) = 0
  BY DEF Init
<1> DEFINE L == Loaded(file)
<1> HIDE DEF L
<1>4. Len(L) = 0
  BY <1>2 DEF L
<1>5. Sound(L) /\ Honest(L)
  BY <1>3, <1>4 DEF Sound, Ordered, Agrees, Numbered, Honest
<1>6. Basic
  BY <1>1, <1>3 DEF Init, Basic
<1> QED BY <1>5, <1>6 DEF IInv, L

LEMMA SealedType == TypeOK => Sealed \in Entry
<1> SUFFICES ASSUME TypeOK PROVE Sealed \in Entry
  OBVIOUS
<1>1. chain # << >> => chain[Len(chain)] \in Entry
  BY DEF TypeOK
<1>2. Previous \in Nat
  BY <1>1 DEF Previous, Entry
<1>3. "recorded" \in Seal
  BY DEF Seal
<1> QED BY <1>2, <1>3 DEF TypeOK, Sealed, Entry

(* What a load finds after a line was appended: what it found before, cut  *)
(* or not, or that and the new entry.                                      *)
LEMMA Landing ==
  ASSUME TypeOK, NEW x \in Entry \cup {Garbage}
  PROVE  /\ Landed(x) \in Seq(Entry \cup {Garbage})
         /\ \A i \in 1 .. Len(Loaded(Landed(x))) :
              i <= Len(Loaded(file)) => Loaded(Landed(x))[i] = Loaded(file)[i]
         /\ \/ /\ Len(Loaded(Landed(x))) <= Len(Loaded(file))
               /\ Len(Loaded(Landed(x))) < Len(Landed(x))
            \/ /\ x # Garbage
               /\ Len(Loaded(file)) = Len(file)
               /\ Len(Landed(x)) = Len(file) + 1
               /\ Len(Loaded(Landed(x))) = Len(file) + 1
               /\ Loaded(Landed(x))[Len(file) + 1] = x
<1> DEFINE L == Loaded(file)
<1>1. /\ file \in Seq(Entry \cup {Garbage})
      /\ L \in Seq(Entry)
      /\ Len(L) \in 0 .. Len(file)
      /\ \A i \in 1 .. Len(L) : L[i] = file[i] /\ file[i] # Garbage
      /\ Len(L) < Len(file) => file[Len(L) + 1] = Garbage
  BY LoadedPrefix DEF TypeOK
<1> HIDE DEF L
<1>2. CASE open /\ file # << >>
  <2>1. /\ Landed(x) \in Seq(Entry \cup {Garbage})
        /\ Len(Landed(x)) = Len(file)
        /\ \A i \in 1 .. Len(file) : i # Len(file) => Landed(x)[i] = file[i]
        /\ Landed(x)[Len(file)] = Garbage
        /\ Len(file) >= 1
    BY <1>1, <1>2 DEF Landed
  <2> DEFINE Stops(k) ==
        /\ k \in 0 .. Len(Landed(x)) /\ k <= Len(L) /\ k < Len(Landed(x))
        /\ \A i \in 1 .. k : Landed(x)[i] = L[i] /\ Landed(x)[i] # Garbage
        /\ Landed(x)[k + 1] = Garbage
  <2>a. Len(L) < Len(file) => Stops(Len(L))
    BY <1>1, <2>1
  <2>b. Len(L) = Len(file) => Stops(Len(file) - 1)
    BY <1>1, <2>1
  <2>2. PICK k : Stops(k)
    <3> HIDE DEF Stops
    <3>1. Len(L) < Len(file) \/ Len(L) = Len(file)
      BY <1>1
    <3> QED BY <3>1, <2>a, <2>b
  <2>3. Len(Loaded(Landed(x))) = k /\ \A i \in 1 .. k : Loaded(Landed(x))[i] = Landed(x)[i]
    BY <2>1, <2>2, LoadedIs
  <2> QED BY <2>1, <2>2, <2>3 DEF L
<1>3. CASE ~(open /\ file # << >>)
  <2>1. /\ Landed(x) = Append(file, x)
        /\ Landed(x) \in Seq(Entry \cup {Garbage})
        /\ Len(Landed(x)) = Len(file) + 1
        /\ \A i \in 1 .. Len(file) : Landed(x)[i] = file[i]
        /\ Landed(x)[Len(file) + 1] = x
    BY <1>1, <1>3 DEF Landed
  <2>2. CASE Len(L) < Len(file) \/ x = Garbage
    <3>1. /\ Len(L) \in 0 .. Len(Landed(x)) /\ Len(L) < Len(Landed(x))
          /\ \A i \in 1 .. Len(L) : Landed(x)[i] = L[i] /\ Landed(x)[i] # Garbage
          /\ Landed(x)[Len(L) + 1] = Garbage
      BY <1>1, <2>1, <2>2
    <3>2. /\ Len(Loaded(Landed(x))) = Len(L)
          /\ \A i \in 1 .. Len(L) : Loaded(Landed(x))[i] = Landed(x)[i]
      BY <2>1, <3>1, LoadedIs
    <3> QED BY <2>1, <3>1, <3>2 DEF L
  <2>3. CASE ~(Len(L) < Len(file)) /\ x # Garbage
    <3>1. Len(L) = Len(file)
      BY <1>1, <2>3
    <3>2. PICK m \in Nat : m = Len(file) + 1
      BY <1>1
    <3>3. /\ m \in 0 .. Len(Landed(x)) /\ ~(m < Len(Landed(x)))
          /\ \A i \in 1 .. m : Landed(x)[i] # Garbage
      BY <1>1, <2>1, <2>3, <3>1, <3>2
    <3>4. Len(Loaded(Landed(x))) = m /\ \A i \in 1 .. m : Loaded(Landed(x))[i] = Landed(x)[i]
      BY <2>1, <3>3, LoadedIs
    <3> QED BY <1>1, <2>1, <2>3, <3>1, <3>2, <3>4 DEF L
  <2> QED BY <2>2, <2>3
<1> QED BY <1>2, <1>3

(* What record seals.                                                      *)
LEMMA SealedIs ==
  ASSUME TypeOK
  PROVE  /\ Sealed \in Entry
         /\ Sealed.id = minted + 1 /\ Sealed.seq = seq + 1
         /\ Recorded(Sealed) /\ Intact(Sealed)
         /\ Sealed.prev = IF Len(chain) = 0 THEN 0 ELSE chain[Len(chain)].id
<1>1. chain \in Seq(Entry) /\ Sealed \in Entry
  BY SealedType DEF TypeOK
<1> QED BY <1>1 DEF Sealed, Previous, Recorded, Intact

(* The entry that is recorded follows everything in memory and on file.    *)
LEMMA SealedFollows ==
  ASSUME IInv, ~forged
  PROVE  /\ Sealed.prev <= minted
         /\ \A i \in 1 .. Len(chain) : chain[i].id <= Sealed.prev
         /\ \A i \in 1 .. Len(Loaded(file)) : Loaded(file)[i].id <= Sealed.prev
<1> USE DEF Sound
<1>1. chain \in Seq(Entry) /\ Sealed \in Entry /\ minted \in Nat /\ TypeOK
  BY SealedType DEF IInv, Basic, TypeOK
<1>2. Sealed.prev = IF Len(chain) = 0 THEN 0 ELSE chain[Len(chain)].id
  BY <1>1, SealedIs
<1>3. \A i \in 1 .. Len(chain) : chain[i] \in Entry /\ chain[i].prev < chain[i].id
  BY <1>1 DEF IInv, Ordered
<1>4. \A i \in 1 .. Len(chain) : chain[i].id <= Sealed.prev
  <2> SUFFICES ASSUME NEW i \in 1 .. Len(chain) PROVE chain[i].id <= Sealed.prev
    OBVIOUS
  <2>1. CASE i = Len(chain)
    BY <1>2, <1>3, <2>1 DEF Entry
  <2>2. CASE i < Len(chain)
    <3>1. Len(chain) \in 1 .. Len(chain) /\ i \in 1 .. Len(chain) - 1
      BY <1>1, <2>2
    <3>2. chain[i].id <= chain[Len(chain)].prev
      BY <3>1 DEF IInv, Ordered
    <3> QED BY <1>2, <1>3, <3>1, <3>2 DEF Entry
  <2> QED BY <1>1, <2>1, <2>2
<1>5. Sealed.prev <= minted
  BY <1>1, <1>2 DEF IInv, Ordered
<1>6. \A i \in 1 .. Len(Loaded(file)) : Loaded(file)[i].id <= Sealed.prev
  BY <1>1, <1>2 DEF IInv, Agrees
<1> QED BY <1>4, <1>5, <1>6

(* What is on file after a record, whatever became of the write.           *)
Written ==
  /\ \/ file' = Landed(Sealed) \/ file' = Landed(Garbage)
     \/ file' = file /\ (harmed' \/ ~up')
  /\ open' \in BOOLEAN /\ up' \in BOOLEAN
  /\ harmed' \in BOOLEAN /\ (harmed => harmed')

LEMMA WrittenLoads ==
  ASSUME TypeOK, Written
  PROVE  /\ file' \in Seq(Entry \cup {Garbage})
         /\ Loaded(file') \in Seq(Entry)
         /\ \A i \in 1 .. Len(Loaded(file')) :
              i <= Len(Loaded(file)) => Loaded(file')[i] = Loaded(file)[i]
         /\ \/ /\ Len(Loaded(file')) <= Len(Loaded(file))
               /\ Len(Loaded(file')) < Len(file') \/ harmed' \/ ~up'
            \/ /\ Len(Loaded(file)) = Len(file)
               /\ Len(Loaded(file')) = Len(file) + 1
               /\ Len(file') = Len(file) + 1
               /\ Loaded(file')[Len(file) + 1] = Sealed
<1>1. TypeOK /\ file \in Seq(Entry \cup {Garbage}) /\ Sealed \in Entry
  BY SealedType DEF TypeOK
<1>2. Loaded(file) \in Seq(Entry)
  BY <1>1, LoadedPrefix
<1>3. CASE file' = Landed(Sealed)
  BY <1>1, <1>3, Landing, LoadedPrefix
<1>4. CASE file' = Landed(Garbage)
  BY <1>1, <1>4, Landing, LoadedPrefix
<1>5. CASE file' = file /\ (harmed' \/ ~up')
  BY <1>1, <1>2, <1>5
<1> QED BY <1>3, <1>4, <1>5 DEF Written

LEMMA EntryType ==
  \A x \in Entry : x.id \in Nat /\ x.seq \in Nat /\ x.prev \in Nat
BY DEF Entry

(* A sequence that takes its entries, position for position, from an        *)
(* ordered one and from an entry behind it is ordered.                     *)
LEMMA OrderedExtends ==
  ASSUME NEW c \in Seq(Entry), NEW d \in Seq(Entry), NEW e \in Entry,
         NEW m \in Nat, NEW s \in Nat,
         \A i \in 1 .. Len(c) : /\ c[i] \in Entry /\ c[i].prev < c[i].id /\ c[i].id <= m
                                /\ Recorded(c[i]) => c[i].seq <= s,
         \A j \in 1 .. Len(c) : \A i \in 1 .. j - 1 :
           c[i].id <= c[j].prev /\ (Recorded(c[i]) /\ Recorded(c[j]) => c[i].seq < c[j].seq),
         e.id = m + 1, e.seq = s + 1, e.prev <= m,
         \A i \in 1 .. Len(c) : c[i].id <= e.prev,
         \A i \in 1 .. Len(d) : \/ i \in 1 .. Len(c) /\ d[i] = c[i]
                                \/ i = Len(c) + 1 /\ d[i] = e
  PROVE  /\ \A i \in 1 .. Len(d) : /\ d[i].prev < d[i].id /\ d[i].id <= m + 1
                                   /\ Recorded(d[i]) => d[i].seq <= s + 1
         /\ \A j \in 1 .. Len(d) : \A i \in 1 .. j - 1 :
              d[i].id <= d[j].prev /\ (Recorded(d[i]) /\ Recorded(d[j]) => d[i].seq < d[j].seq)
<1>1. ASSUME NEW i \in 1 .. Len(d)
      PROVE  /\ d[i].prev < d[i].id /\ d[i].id <= m + 1
             /\ Recorded(d[i]) => d[i].seq <= s + 1
  <2>1. CASE i \in 1 .. Len(c) /\ d[i] = c[i]
    <3>1. /\ c[i] \in Entry /\ c[i].prev < c[i].id /\ c[i].id <= m
          /\ Recorded(c[i]) => c[i].seq <= s
      BY <2>1
    <3>2. c[i].id \in Nat /\ c[i].seq \in Nat /\ c[i].prev \in Nat
      BY <3>1, EntryType
    <3> QED BY <2>1, <3>1, <3>2
  <2>2. CASE d[i] = e
    <3>1. e.id = m + 1 /\ e.seq = s + 1 /\ e.prev <= m /\ e.prev \in Nat
      BY EntryType
    <3> QED BY <2>2, <3>1
  <2>3. (i \in 1 .. Len(c) /\ d[i] = c[i]) \/ (i = Len(c) + 1 /\ d[i] = e)
    OBVIOUS
  <2> QED BY <2>1, <2>2, <2>3
<1>2. ASSUME NEW j \in 1 .. Len(d), NEW i \in 1 .. j - 1
      PROVE  d[i].id <= d[j].prev /\ (Recorded(d[i]) /\ Recorded(d[j]) => d[i].seq < d[j].seq)
  <2>a. Len(c) \in Nat /\ Len(d) \in Nat
    OBVIOUS
  <2>b. i \in 1 .. Len(d) /\ j \in 1 .. Len(c) + 1
    BY <2>a
  <2>c. i \in 1 .. Len(c)
    BY <2>a, <2>b
  <2>1. i \in 1 .. Len(c) /\ d[i] = c[i] /\ c[i] \in Entry
    BY <2>a, <2>b, <2>c
  <2>2. CASE j \in 1 .. Len(c) /\ d[j] = c[j]
    BY <2>1, <2>2
  <2>3. CASE d[j] = e
    <3>1. c[i].id <= e.prev /\ (Recorded(c[i]) => c[i].seq <= s)
      BY <2>1
    <3>2. c[i].seq \in Nat /\ e.seq = s + 1
      BY <2>1, EntryType
    <3> QED BY <2>1, <2>3, <3>1, <3>2
  <2>4. (j \in 1 .. Len(c) /\ d[j] = c[j]) \/ (j = Len(c) + 1 /\ d[j] = e)
    OBVIOUS
  <2> QED BY <2>2, <2>3, <2>4
<1> QED BY <1>1, <1>2

LEMMA EnterBasic ==
  ASSUME Basic, Enter, Written
  PROVE  Basic'
<1>1. /\ TypeOK /\ chain \in Seq(Entry) /\ seq \in Nat /\ minted \in Nat /\ up
      /\ minted' = minted + 1 /\ seq' = seq + 1 /\ forged' = forged
      /\ minted' \in 0 .. MaxRecords /\ harms' \in 0 .. MaxHarms
      /\ chain' = Append(chain, Sealed)
  BY LedgerAssumption DEF Basic, TypeOK, Enter
<1>2. Sealed \in Entry /\ Sealed.seq = seq + 1
  BY <1>1, SealedIs
<1>3. file' \in Seq(Entry \cup {Garbage})
  BY <1>1, WrittenLoads
<1>4. TypeOK'
  BY <1>1, <1>2, <1>3 DEF TypeOK, Written
<1>5. \A i \in 1 .. Len(chain') : chain'[i].seq <= seq'
  <2> SUFFICES ASSUME NEW i \in 1 .. Len(chain') PROVE chain'[i].seq <= seq'
    OBVIOUS
  <2>1. (i \in 1 .. Len(chain) /\ chain'[i] = chain[i]) \/ chain'[i] = Sealed
    BY <1>1, <1>2
  <2>2. CASE i \in 1 .. Len(chain) /\ chain'[i] = chain[i]
    <3>1. chain[i] \in Entry /\ chain[i].seq <= seq
      BY <1>1, <2>2 DEF Basic
    <3> QED BY <1>1, <2>2, <3>1, EntryType
  <2>3. CASE chain'[i] = Sealed
    BY <1>1, <1>2, <2>3
  <2> QED BY <2>1, <2>2, <2>3
<1> QED BY <1>1, <1>4, <1>5 DEF Basic, Written

LEMMA EnterKeeps ==
  ASSUME IInv, Enter, Written
  PROVE  IInv'
<1> USE DEF Sound
<1> DEFINE L == Loaded(file)
           M == Loaded(file')
           e == Sealed
<1>0. Basic' /\ forged' = forged
  BY EnterBasic DEF IInv, Enter
<1> SUFFICES ASSUME ~forged
             PROVE  Sound(Loaded(file))' /\ Honest(Loaded(file))'
  <2>1. forged => harmed'
    BY <1>0 DEF Basic
  <2>2. forged => Honest(Loaded(file))'
    BY <2>1 DEF Honest
  <2> QED BY <1>0, <2>2 DEF IInv
<1>1. /\ chain \in Seq(Entry) /\ seq \in Nat /\ minted \in Nat /\ up
      /\ L \in Seq(Entry)
      /\ minted' = minted + 1 /\ seq' = seq + 1
  <2>1. TypeOK
    BY DEF IInv, Basic
  <2>2. L \in Seq(Entry)
    BY <2>1, LoadedPrefix DEF TypeOK
  <2> QED BY <2>1, <2>2 DEF TypeOK, Enter
<1>2. /\ e \in Entry
      /\ e.id = minted + 1 /\ e.seq = seq + 1 /\ Intact(e)
      /\ e.prev = IF Len(chain) = 0 THEN 0 ELSE chain[Len(chain)].id
      /\ e.prev <= minted
      /\ \A i \in 1 .. Len(chain) : chain[i].id <= e.prev
      /\ \A i \in 1 .. Len(L) : L[i].id <= e.prev
  BY SealedFollows, SealedIs DEF IInv, Basic
<1>3. /\ M \in Seq(Entry)
      /\ \A i \in 1 .. Len(M) : i <= Len(L) => M[i] = L[i]
      /\ \/ /\ Len(M) <= Len(L)
            /\ Len(M) < Len(file') \/ harmed' \/ ~up'
         \/ /\ Len(L) = Len(file) /\ Len(M) = Len(L) + 1 /\ Len(M) = Len(file')
            /\ M[Len(L) + 1] = e
  BY WrittenLoads DEF IInv, Basic
<1>4. chain' = Append(chain, e)
  BY DEF Enter
<1> HIDE DEF L, M, e
<1>5. /\ chain' \in Seq(Entry)
      /\ Len(chain') = Len(chain) + 1
      /\ \A i \in 1 .. Len(chain) : chain'[i] = chain[i]
      /\ chain'[Len(chain) + 1] = e
  BY <1>1, <1>2, <1>4
<1>7. /\ \A i \in 1 .. Len(chain) : /\ chain[i] \in Entry /\ chain[i].prev < chain[i].id
                                    /\ chain[i].id <= minted
                                    /\ Recorded(chain[i]) => chain[i].seq <= seq
      /\ \A j \in 1 .. Len(chain) : \A i \in 1 .. j - 1 :
           /\ chain[i].id <= chain[j].prev
           /\ Recorded(chain[i]) /\ Recorded(chain[j]) => chain[i].seq < chain[j].seq
      /\ \A i \in 1 .. Len(L) : /\ L[i] \in Entry /\ L[i].prev < L[i].id /\ L[i].id <= minted
                                /\ Recorded(L[i]) => L[i].seq <= seq
      /\ \A j \in 1 .. Len(L) : \A i \in 1 .. j - 1 :
           L[i].id <= L[j].prev /\ (Recorded(L[i]) /\ Recorded(L[j]) => L[i].seq < L[j].seq)
  <2>1. Ordered(chain) /\ Ordered(L) /\ Numbered(L) /\ Basic
    BY DEF IInv, L
  <2>2. \A i \in 1 .. Len(chain) : chain[i] \in Entry /\ chain[i].seq <= seq
    BY <1>1, <2>1 DEF Basic
  <2>3. \A i \in 1 .. Len(L) : L[i] \in Entry /\ (Recorded(L[i]) => L[i].seq <= seq)
    BY <1>1, <2>1 DEF Numbered
  <2> QED BY <2>1, <2>2, <2>3 DEF Ordered
<1>8. Ordered(chain)'
  <2>1. \A i \in 1 .. Len(chain') : \/ i \in 1 .. Len(chain) /\ chain'[i] = chain[i]
                                    \/ i = Len(chain) + 1 /\ chain'[i] = e
    BY <1>1, <1>5
  <2> DEFINE d == chain'
  <2>2. d \in Seq(Entry) /\ \A i \in 1 .. Len(d) : \/ i \in 1 .. Len(chain) /\ d[i] = chain[i]
                                                   \/ i = Len(chain) + 1 /\ d[i] = e
    BY <1>5, <2>1
  <2> HIDE DEF d
  <2>3. /\ \A i \in 1 .. Len(d) : /\ d[i].prev < d[i].id /\ d[i].id <= minted + 1
                                  /\ Recorded(d[i]) => d[i].seq <= seq + 1
        /\ \A j \in 1 .. Len(d) : \A i \in 1 .. j - 1 :
             d[i].id <= d[j].prev /\ (Recorded(d[i]) /\ Recorded(d[j]) => d[i].seq < d[j].seq)
    BY <1>1, <1>2, <1>7, <2>2, OrderedExtends
  <2> QED BY <1>1, <2>3 DEF Ordered, Recorded, d
<1>9. \A i \in 1 .. Len(M) : \/ i \in 1 .. Len(L) /\ M[i] = L[i]
                             \/ i = Len(L) + 1 /\ M[i] = e
  BY <1>1, <1>3
<1>10. Ordered(Loaded(file))' /\ Numbered(Loaded(file))'
  <2>1. /\ \A i \in 1 .. Len(M) : /\ M[i].prev < M[i].id /\ M[i].id <= minted + 1
                                  /\ Recorded(M[i]) => M[i].seq <= seq + 1
        /\ \A j \in 1 .. Len(M) : \A i \in 1 .. j - 1 :
             M[i].id <= M[j].prev /\ (Recorded(M[i]) /\ Recorded(M[j]) => M[i].seq < M[j].seq)
    BY <1>1, <1>2, <1>3, <1>7, <1>9, OrderedExtends
  <2> QED BY <1>1, <2>1 DEF Ordered, Numbered, Recorded, M
<1>11. \A n \in 0 .. Len(L) :
         (\A i \in 1 .. n : Linked(L, i)) => n <= Len(chain) /\ \A i \in 1 .. n : chain[i] = L[i]
  BY DEF IInv, Agrees, L
<1>12. \A i \in 1 .. Len(M) : i \in 1 .. Len(L) => (Linked(M, i) <=> Linked(L, i))
  <2> SUFFICES ASSUME NEW i \in 1 .. Len(M), i \in 1 .. Len(L)
               PROVE  Linked(M, i) <=> Linked(L, i)
    OBVIOUS
  <2>1. M[i] = L[i] /\ (i # 1 => M[i - 1] = L[i - 1])
    <3>1. M[i] = L[i]
      BY <1>1, <1>3
    <3>2. i # 1 => i - 1 \in 1 .. Len(M) /\ i - 1 <= Len(L)
      BY <1>1, <1>3
    <3> QED BY <1>3, <3>1, <3>2
  <2> QED BY <2>1 DEF Linked
(* The new entry is linked to the lines only if they are all of the chain. *)
<1>13. ASSUME \A i \in 1 .. Len(L) : Linked(L, i), Len(M) = Len(L) + 1, Linked(M, Len(M))
       PROVE  Len(L) = Len(chain)
  <2>1. Len(L) <= Len(chain) /\ \A i \in 1 .. Len(L) : chain[i] = L[i]
    BY <1>1, <1>11, <1>13
  <2>2. M[Len(M)] = e /\ (Len(L) # 0 => M[Len(L)] = L[Len(L)])
    BY <1>1, <1>3, <1>13
  <2>3. e.prev = IF Len(L) = 0 THEN 0 ELSE L[Len(L)].id
    BY <1>1, <1>13, <2>2 DEF Linked
  <2>4. CASE Len(L) = 0
    <3>1. Len(chain) # 0 => chain[Len(chain)] \in Entry /\ chain[Len(chain)].prev < chain[Len(chain)].id
      BY <1>1, <1>7
    <3>2. Len(chain) # 0 => chain[Len(chain)].id > 0
      BY <3>1 DEF Entry
    <3> QED BY <1>1, <1>2, <2>3, <2>4, <3>2
  <2>5. CASE Len(L) # 0 /\ Len(L) < Len(chain)
    <3>1. /\ Len(chain) \in 1 .. Len(chain) /\ Len(L) \in 1 .. Len(chain) - 1
          /\ chain[Len(L)] = L[Len(L)]
      BY <1>1, <2>1, <2>5
    <3>2. /\ chain[Len(L)].id <= chain[Len(chain)].prev
          /\ chain[Len(chain)].prev < chain[Len(chain)].id
          /\ chain[Len(chain)] \in Entry /\ chain[Len(L)] \in Entry
      BY <1>7, <3>1
    <3>3. /\ chain[Len(L)].id \in Nat
          /\ chain[Len(chain)].prev \in Nat /\ chain[Len(chain)].id \in Nat
      BY <3>2, EntryType
    <3>4. chain[Len(L)].id < chain[Len(chain)].id
      BY <3>2, <3>3
    <3>5. chain[Len(L)].id = chain[Len(chain)].id
      BY <1>1, <1>2, <2>3, <2>5, <3>1
    <3> QED BY <3>3, <3>4, <3>5
  <2> QED BY <1>1, <2>1, <2>4, <2>5
<1>14. ASSUME NEW n \in 0 .. Len(M), \A i \in 1 .. n : Linked(M, i)
       PROVE  n <= Len(chain') /\ \A i \in 1 .. n : chain'[i] = M[i]
  <2>1. CASE n <= Len(L)
    <3>1. \A i \in 1 .. n : i \in 1 .. Len(M) /\ i \in 1 .. Len(L) /\ M[i] = L[i]
      BY <1>1, <1>3, <2>1
    <3>2. n \in 0 .. Len(L) /\ \A i \in 1 .. n : Linked(L, i)
      BY <1>1, <1>12, <1>14, <2>1, <3>1
    <3>3. n <= Len(chain) /\ \A i \in 1 .. n : chain[i] = L[i]
      BY <1>11, <3>2
    <3> QED BY <1>1, <1>5, <3>1, <3>3
  <2>2. CASE n = Len(L) + 1
    <3>1. Len(M) = Len(L) + 1 /\ Len(M) \in 1 .. n /\ M[n] = e
      BY <1>1, <1>3, <2>2
    <3>2. \A i \in 1 .. Len(L) : Linked(L, i) /\ M[i] = L[i]
      BY <1>1, <1>3, <1>12, <1>14, <2>2, <3>1
    <3>3. Len(L) = Len(chain)
      BY <1>13, <1>14, <3>1, <3>2
    <3>4. \A i \in 1 .. Len(L) : chain[i] = L[i]
      BY <1>1, <1>11, <3>2
    <3> QED BY <1>1, <1>5, <2>2, <3>1, <3>2, <3>3, <3>4
  <2> QED BY <1>1, <1>3, <2>1, <2>2
<1>15. Agrees(Loaded(file))'
  <2>a. chain' # << >> /\ chain'[Len(chain')] = e /\ e.id = minted + 1
    BY <1>1, <1>2, <1>5
  <2>b. \A i \in 1 .. Len(L) : L[i].id <= minted + 1
    <3> SUFFICES ASSUME NEW i \in 1 .. Len(L) PROVE L[i].id <= minted + 1
      OBVIOUS
    <3>1. L[i] \in Entry /\ L[i].id <= minted
      BY <1>7
    <3> QED BY <1>1, <3>1, EntryType
  <2>1. \A i \in 1 .. Len(M) : chain' # << >> /\ M[i].id <= chain'[Len(chain')].id
    BY <1>1, <1>9, <2>a, <2>b
  <2> QED BY <1>14, <2>1 DEF Agrees, M
<1>16. Honest(Loaded(file))'
  <2> SUFFICES ASSUME ~harmed'
               PROVE  /\ \A i \in 1 .. Len(chain') : Linked(chain', i)
                      /\ \A i \in 1 .. Len(M) : Linked(M, i)
                      /\ up' /\ Len(M) = Len(file') => Len(M) = Len(chain')
    BY DEF Honest, M
  <2>1. /\ \A i \in 1 .. Len(chain) : Linked(chain, i)
        /\ \A i \in 1 .. Len(L) : Linked(L, i)
        /\ Len(L) = Len(file) => Len(L) = Len(chain)
    BY <1>1 DEF IInv, Honest, Written, L
  <2>2. ASSUME NEW i \in 1 .. Len(chain') PROVE Linked(chain', i)
    <3>1. CASE i \in 1 .. Len(chain)
      <4>1. chain'[i] = chain[i] /\ (i # 1 => chain'[i - 1] = chain[i - 1]) /\ Linked(chain, i)
        BY <1>1, <1>5, <2>1, <3>1
      <4> QED BY <4>1 DEF Linked
    <3>2. CASE i = Len(chain) + 1
      <4>1. chain'[i] = e /\ (i # 1 => chain'[i - 1] = chain[Len(chain)])
        BY <1>1, <1>5, <3>2
      <4> QED BY <1>1, <1>2, <3>2, <4>1 DEF Linked
    <3> QED BY <1>1, <1>5, <3>1, <3>2
  <2>3. ASSUME NEW i \in 1 .. Len(M) PROVE Linked(M, i)
    <3>1. CASE i \in 1 .. Len(L)
      BY <1>12, <2>1, <3>1
    <3>2. CASE i = Len(L) + 1
      <4>1. Len(L) = Len(file) /\ Len(L) = Len(chain) /\ M[i] = e
        BY <1>1, <1>3, <2>1, <3>2
      <4>2. i # 1 => M[i - 1] = L[Len(L)] /\ L[Len(L)] = chain[Len(chain)]
        BY <1>1, <1>3, <1>11, <2>1, <3>2, <4>1
      <4> QED BY <1>1, <1>2, <3>2, <4>1, <4>2 DEF Linked
    <3> QED BY <1>9, <3>1, <3>2
  <2>4. up' /\ Len(M) = Len(file') => Len(M) = Len(chain')
    BY <1>1, <1>3, <1>5, <2>1
  <2> QED BY <2>2, <2>3, <2>4
<1> QED BY <1>8, <1>10, <1>15, <1>16

LEMMA AlterKeeps ==
  ASSUME IInv, NEW i \in 1 .. Len(file), Alter(i)
  PROVE  IInv'
<1> USE DEF Sound
<1> DEFINE L == Loaded(file)
           M == Loaded(file')
<1>1. /\ TypeOK /\ file \in Seq(Entry \cup {Garbage})
      /\ L \in Seq(Entry) /\ Len(L) \in 0 .. Len(file)
      /\ \A j \in 1 .. Len(L) : L[j] = file[j] /\ file[j] # Garbage
      /\ Len(L) < Len(file) => file[Len(L) + 1] = Garbage
  BY LoadedPrefix DEF IInv, Basic, TypeOK
<1>2. /\ UNCHANGED <<chain, seq, up, minted, open, forged>> /\ harmed' = TRUE
      /\ harms' \in 0 .. MaxHarms
      /\ file[i] # Garbage
  BY <1>1, LedgerAssumption DEF Alter, Harm, memory, TypeOK
<1>3. PICK number \in {file[i].seq} \cup 1 .. MaxRecords :
        file' = [file EXCEPT ![i] = [id |-> file[i].id, seq |-> number, prev |-> file[i].prev,
                                     seal |-> "stale"]]
  BY DEF Alter
<1>a. PICK x : x = [id |-> file[i].id, seq |-> number, prev |-> file[i].prev, seal |-> "stale"]
  OBVIOUS
<1>b. /\ x \in Entry /\ x.id = file[i].id /\ x.prev = file[i].prev
      /\ ~Intact(x) /\ ~Recorded(x)
  <2>1. file[i] \in Entry
    BY <1>1, <1>2
  <2>2. file[i].id \in Nat /\ file[i].seq \in Nat /\ file[i].prev \in Nat
    BY <2>1, EntryType
  <2>3. number \in Nat /\ "stale" \in Seal
    BY <1>3, <2>2, LedgerAssumption DEF Seal
  <2> QED BY <1>a, <2>2, <2>3 DEF Entry, Intact, Recorded
<1>4. file' = [file EXCEPT ![i] = x]
  BY <1>3, <1>a
<1>5. /\ file' \in Seq(Entry \cup {Garbage})
      /\ Len(file') = Len(file)
      /\ \A j \in 1 .. Len(file) : j # i => file'[j] = file[j]
      /\ file'[i] = x
      /\ x # Garbage
  <2>1. x # Garbage
    BY <1>b, LedgerAssumption
  <2> QED BY <1>1, <1>b, <1>4, <2>1
<1> HIDE DEF L, M
<1>6. Len(M) = Len(L) /\ \A j \in 1 .. Len(L) : M[j] = file'[j]
  <2>1. /\ Len(L) \in 0 .. Len(file')
        /\ \A j \in 1 .. Len(L) : file'[j] # Garbage
        /\ Len(L) < Len(file') => file'[Len(L) + 1] = Garbage
    <3>1. \A j \in 1 .. Len(L) : j \in 1 .. Len(file) /\ file'[j] # Garbage
      BY <1>1, <1>5
    <3>2. Len(L) < Len(file) => Len(L) + 1 \in 1 .. Len(file) /\ Len(L) + 1 # i
      BY <1>1, <1>2
    <3> QED BY <1>1, <1>5, <3>1, <3>2
  <2> QED BY <1>5, <2>1, LoadedIs DEF M
<1>7. M \in Seq(Entry)
  BY <1>5, LoadedPrefix DEF M
<1>8. \A j \in 1 .. Len(L) :
        /\ M[j].id = L[j].id /\ M[j].prev = L[j].prev
        /\ j # i => M[j] = L[j]
        /\ j = i => ~Intact(M[j]) /\ ~Recorded(M[j])
  <2> SUFFICES ASSUME NEW j \in 1 .. Len(L)
               PROVE  /\ M[j].id = L[j].id /\ M[j].prev = L[j].prev
                      /\ j # i => M[j] = L[j]
                      /\ j = i => ~Intact(M[j]) /\ ~Recorded(M[j])
    OBVIOUS
  <2>1. CASE j # i
    BY <1>1, <1>5, <1>6, <2>1
  <2>2. CASE j = i
    <3>1. M[j] = x /\ L[j] = file[i]
      BY <1>1, <1>5, <1>6, <2>2
    <3> QED BY <1>b, <2>2, <3>1
  <2> QED BY <2>1, <2>2
<1>9. Basic' /\ Honest(Loaded(file))'
  BY <1>1, <1>2, <1>5 DEF IInv, Basic, TypeOK, Honest
<1> SUFFICES ASSUME ~forged PROVE Sound(Loaded(file))'
  BY <1>2, <1>9 DEF IInv
<1>10. Ordered(chain)'
  BY <1>2 DEF IInv, Ordered
<1>11. Ordered(L) /\ Numbered(L) /\ Agrees(L)
  BY DEF IInv, L
<1>12. Ordered(Loaded(file))' /\ Numbered(Loaded(file))'
  <2>1. /\ \A j \in 1 .. Len(M) : M[j].prev < M[j].id /\ M[j].id <= minted
        /\ up => \A j \in 1 .. Len(M) : Recorded(M[j]) => M[j].seq <= seq
    BY <1>6, <1>8, <1>11 DEF Ordered, Numbered
  <2>2. \A j \in 1 .. Len(M) : \A k \in 1 .. j - 1 :
          M[k].id <= M[j].prev /\ (Recorded(M[k]) /\ Recorded(M[j]) => M[k].seq < M[j].seq)
    <3> SUFFICES ASSUME NEW j \in 1 .. Len(M), NEW k \in 1 .. j - 1
                 PROVE  /\ M[k].id <= M[j].prev
                        /\ Recorded(M[k]) /\ Recorded(M[j]) => M[k].seq < M[j].seq
      OBVIOUS
    <3>1. /\ j \in 1 .. Len(L) /\ k \in 1 .. Len(L) /\ L[k].id <= L[j].prev
          /\ Recorded(L[k]) /\ Recorded(L[j]) => L[k].seq < L[j].seq
      BY <1>1, <1>6, <1>11 DEF Ordered
    <3> QED BY <1>8, <3>1
  <2> QED BY <1>2, <2>1, <2>2 DEF Ordered, Numbered, M
<1>13. Agrees(Loaded(file))'
  <2>1. ASSUME NEW n \in 0 .. Len(M), \A j \in 1 .. n : Linked(M, j)
        PROVE  n <= Len(chain) /\ \A j \in 1 .. n : chain[j] = M[j]
    <3>1. \A j \in 1 .. n : j \in 1 .. Len(L) /\ j # i /\ M[j] = L[j]
      <4> SUFFICES ASSUME NEW j \in 1 .. n PROVE j \in 1 .. Len(L) /\ j # i /\ M[j] = L[j]
        OBVIOUS
      <4>1. j \in 1 .. Len(L) /\ Intact(M[j])
        BY <1>1, <1>6, <2>1 DEF Linked
      <4> QED BY <1>8, <4>1
    <3>2. \A j \in 1 .. n : Linked(L, j)
      <4> SUFFICES ASSUME NEW j \in 1 .. n PROVE Linked(L, j)
        OBVIOUS
      <4>1. j # 1 => j - 1 \in 1 .. n
        BY <1>6
      <4> QED BY <2>1, <3>1, <4>1 DEF Linked
    <3>3. n \in 0 .. Len(L)
      BY <1>6
    <3> QED BY <1>11, <3>1, <3>2, <3>3 DEF Agrees
  <2>2. \A j \in 1 .. Len(M) : chain # << >> /\ M[j].id <= chain[Len(chain)].id
    BY <1>6, <1>8, <1>11 DEF Agrees
  <2> QED BY <1>2, <2>1, <2>2 DEF Agrees, M
<1> QED BY <1>10, <1>12, <1>13

(* The lines a load finds are the first of those it found before.          *)
LEMMA GarbleKeeps ==
  ASSUME IInv, NEW i \in 1 .. Len(file), Garble(i)
  PROVE  IInv'
<1> USE DEF Sound
<1> DEFINE L == Loaded(file)
           M == Loaded(file')
<1>1. /\ TypeOK /\ file \in Seq(Entry \cup {Garbage})
      /\ L \in Seq(Entry) /\ Len(L) \in 0 .. Len(file)
      /\ \A j \in 1 .. Len(L) : L[j] = file[j] /\ file[j] # Garbage
      /\ Len(L) < Len(file) => file[Len(L) + 1] = Garbage
  BY LoadedPrefix DEF IInv, Basic, TypeOK
<1>2. /\ UNCHANGED <<chain, seq, up, minted, open, forged>> /\ harmed' = TRUE
      /\ harms' \in 0 .. MaxHarms
      /\ file' = [file EXCEPT ![i] = Garbage]
  BY <1>1, LedgerAssumption DEF Garble, Harm, memory, TypeOK
<1>3. /\ file' \in Seq(Entry \cup {Garbage}) /\ Len(file') = Len(file)
      /\ \A j \in 1 .. Len(file) : file'[j] = IF j = i THEN Garbage ELSE file[j]
  BY <1>1, <1>2
<1>4. Basic' /\ Honest(Loaded(file))'
  BY <1>1, <1>2, <1>3 DEF IInv, Basic, TypeOK, Honest
<1> SUFFICES ASSUME ~forged PROVE Sound(Loaded(file))'
  BY <1>2, <1>4 DEF IInv
<1> HIDE DEF L
<1>5. PICK k \in 0 .. Len(L) : k = IF i <= Len(L) THEN i - 1 ELSE Len(L)
  BY <1>1
<1>6. Len(M) = k /\ \A j \in 1 .. k : M[j] = file'[j]
  <2>1. \A j \in 1 .. k : j \in 1 .. Len(L) /\ j \in 1 .. Len(file) /\ j # i
    BY <1>1, <1>5
  <2>2. k < Len(file) => file'[k + 1] = Garbage
    BY <1>1, <1>3, <1>5
  <2>3. /\ k \in 0 .. Len(file')
        /\ \A j \in 1 .. k : file'[j] # Garbage
        /\ k < Len(file') => file'[k + 1] = Garbage
    BY <1>1, <1>3, <1>5, <2>1, <2>2
  <2> QED BY <1>3, <2>3, LoadedIs
<1>7. \A j \in 1 .. k : j \in 1 .. Len(L) /\ M[j] = L[j]
  BY <1>1, <1>3, <1>5, <1>6
<1>8. Ordered(L) /\ Numbered(L) /\ Agrees(L) /\ Ordered(chain)
  BY DEF IInv, L
<1> HIDE DEF M
<1>9. Ordered(chain)' /\ Ordered(Loaded(file))' /\ Numbered(Loaded(file))'
  <2>1. \A j \in 1 .. k : \A m \in 1 .. j - 1 : m \in 1 .. k
    BY <1>1, <1>5
  <2> QED BY <1>2, <1>6, <1>7, <1>8, <2>1 DEF Ordered, Numbered, M
<1>10. Agrees(Loaded(file))'
  <2>1. ASSUME NEW n \in 0 .. Len(M), \A j \in 1 .. n : Linked(M, j)
        PROVE  n <= Len(chain) /\ \A j \in 1 .. n : chain[j] = M[j]
    <3>1. n \in 0 .. Len(L) /\ \A j \in 1 .. n : j \in 1 .. k
      BY <1>1, <1>5, <1>6
    <3>2. ASSUME NEW j \in 1 .. n PROVE Linked(L, j)
      <4>1. j # 1 => j - 1 \in 1 .. n
        BY <3>1
      <4> QED BY <1>7, <2>1, <3>1, <4>1 DEF Linked
    <3> QED BY <1>7, <1>8, <3>1, <3>2 DEF Agrees
  <2>2. \A j \in 1 .. Len(M) : chain # << >> /\ M[j].id <= chain[Len(chain)].id
    BY <1>6, <1>7, <1>8 DEF Agrees
  <2> QED BY <1>2, <2>1, <2>2 DEF Agrees, M
<1> QED BY <1>9, <1>10

LEMMA DeleteKeeps ==
  ASSUME IInv, NEW i \in 1 .. Len(file), Delete(i)
  PROVE  IInv'
<1> USE DEF Sound
<1> DEFINE L == Loaded(file)
           M == Loaded(file')
<1>1. /\ TypeOK /\ file \in Seq(Entry \cup {Garbage})
      /\ L \in Seq(Entry) /\ Len(L) \in 0 .. Len(file)
      /\ \A j \in 1 .. Len(L) : L[j] = file[j] /\ file[j] # Garbage
      /\ Len(L) < Len(file) => file[Len(L) + 1] = Garbage
  BY LoadedPrefix DEF IInv, Basic, TypeOK
<1>2. /\ UNCHANGED <<chain, seq, up, minted>> /\ harmed' = TRUE
      /\ harms' \in 0 .. MaxHarms
      /\ open' = (open /\ i < Len(file))
      /\ forged' = (forged \/ file[i] = Garbage)
  BY <1>1, LedgerAssumption DEF Delete, Harm, memory, TypeOK
<1>3. /\ file' \in Seq(Entry \cup {Garbage})
      /\ Len(file') = Len(file) - 1
      /\ \A j \in 1 .. Len(file) - 1 : file'[j] = IF j < i THEN file[j] ELSE file[j + 1]
  <2> DEFINE a == SubSeq(file, 1, i - 1)
             b == SubSeq(file, i + 1, Len(file))
  <2>1. file' = a \o b
    BY DEF Delete
  <2>2. /\ a \in Seq(Entry \cup {Garbage}) /\ Len(a) = i - 1
        /\ \A j \in 1 .. i - 1 : a[j] = file[j]
    BY <1>1
  <2>3. /\ b \in Seq(Entry \cup {Garbage}) /\ Len(b) = Len(file) - i
        /\ \A j \in 1 .. Len(file) - i : b[j] = file[i + j]
    BY <1>1
  <2> HIDE DEF a, b
  <2>4. /\ a \o b \in Seq(Entry \cup {Garbage})
        /\ Len(a \o b) = Len(a) + Len(b)
        /\ \A j \in 1 .. Len(a) + Len(b) : (a \o b)[j] = IF j <= Len(a) THEN a[j] ELSE b[j - Len(a)]
    BY <2>2, <2>3, ConcatProperties
  <2>5. ASSUME NEW j \in 1 .. Len(file) - 1
        PROVE  (a \o b)[j] = IF j < i THEN file[j] ELSE file[j + 1]
    <3>1. CASE j < i
      BY <2>2, <2>3, <2>4, <3>1
    <3>2. CASE ~(j < i)
      <4>1. /\ j \in 1 .. Len(a) + Len(b) /\ ~(j <= Len(a))
            /\ j - Len(a) \in 1 .. Len(file) - i /\ i + (j - Len(a)) = j + 1
        BY <1>1, <2>2, <2>3, <3>2
      <4>2. b[j - Len(a)] = file[i + (j - Len(a))]
        BY <2>3, <4>1
      <4> QED BY <2>4, <3>2, <4>1, <4>2
    <3> QED BY <3>1, <3>2
  <2> DEFINE c == a \o b
  <2>6. Len(c) = Len(file) - 1
    BY <1>1, <2>2, <2>3, <2>4
  <2>7. /\ file' = c /\ c \in Seq(Entry \cup {Garbage})
        /\ \A j \in 1 .. Len(file) - 1 : c[j] = IF j < i THEN file[j] ELSE file[j + 1]
    BY <2>1, <2>4, <2>5
  <2> HIDE DEF c
  <2> QED BY <2>6, <2>7
<1>a. Basic' /\ Honest(Loaded(file))'
  <2>1. open' \in BOOLEAN /\ forged' \in BOOLEAN
    BY <1>2
  <2> QED BY <1>1, <1>2, <1>3, <2>1 DEF IInv, Basic, TypeOK, Honest
<1> SUFFICES ASSUME ~forged, file[i] # Garbage PROVE Sound(Loaded(file))'
  BY <1>2, <1>a DEF IInv
<1> HIDE DEF L, M
<1>4. PICK k : /\ k = IF i <= Len(L) THEN Len(L) - 1 ELSE Len(L)
               /\ k \in 0 .. Len(file')
  <2>1. CASE i <= Len(L)
    <3>1. Len(L) - 1 \in 0 .. Len(file')
      BY <1>1, <1>3, <2>1
    <3> QED BY <2>1, <3>1
  <2>2. CASE ~(i <= Len(L))
    <3>1. Len(L) \in 0 .. Len(file')
      BY <1>1, <1>3, <2>2
    <3> QED BY <2>2, <3>1
  <2> QED BY <2>1, <2>2
<1>5. Len(M) = k /\ \A j \in 1 .. k : M[j] = IF j < i THEN L[j] ELSE L[j + 1]
  <2>1. ASSUME NEW j \in 1 .. k
        PROVE  file'[j] = (IF j < i THEN L[j] ELSE L[j + 1]) /\ file'[j] # Garbage
    <3>1. j \in 1 .. Len(file) - 1 /\ file'[j] = IF j < i THEN file[j] ELSE file[j + 1]
      BY <1>1, <1>3, <1>4
    <3>2. CASE j < i
      <4>1. j \in 1 .. Len(L)
        BY <1>1, <1>4, <3>2
      <4> QED BY <1>1, <3>1, <3>2, <4>1
    <3>3. CASE ~(j < i)
      <4>1. j + 1 \in 1 .. Len(L)
        BY <1>1, <1>4, <3>3
      <4> QED BY <1>1, <3>1, <3>3, <4>1
    <3> QED BY <3>2, <3>3
  <2>2. k < Len(file') => file'[k + 1] = Garbage
    <3> SUFFICES ASSUME k < Len(file') PROVE file'[k + 1] = Garbage
      OBVIOUS
    <3>1. k + 1 \in 1 .. Len(file) - 1
      BY <1>1, <1>3, <1>4
    <3>2. CASE i <= Len(L)
      BY <1>1, <1>3, <1>4, <3>1, <3>2
    <3>3. CASE ~(i <= Len(L))
      <4>1. k = Len(L) /\ file[k + 1] = Garbage /\ k + 1 < i
        BY <1>1, <1>2, <1>3, <1>4, <3>1, <3>3
      <4> QED BY <1>3, <3>1, <4>1
    <3> QED BY <3>2, <3>3
  <2>3. Len(M) = k /\ \A j \in 1 .. k : M[j] = file'[j]
    BY <1>3, <1>4, <2>1, <2>2, LoadedIs DEF M
  <2> QED BY <2>1, <2>3
<1>6. Ordered(L) /\ Numbered(L) /\ Agrees(L)
  BY DEF IInv, L
<1>8. Ordered(chain)'
  BY <1>2 DEF IInv, Ordered
<1> DEFINE Old(j) == IF j < i THEN j ELSE j + 1
<1>9. \A j \in 1 .. Len(M) : Old(j) \in 1 .. Len(L) /\ M[j] = L[Old(j)]
  BY <1>1, <1>4, <1>5
<1>10. Ordered(Loaded(file))' /\ Numbered(Loaded(file))'
  <2>1. \A j \in 1 .. Len(M) : \A m \in 1 .. j - 1 : Old(m) \in 1 .. Old(j) - 1 /\ m \in 1 .. Len(M)
    BY <1>4, <1>5
  <2>2. \A j \in 1 .. Len(M) : \A m \in 1 .. j - 1 :
          M[m].id <= M[j].prev /\ (Recorded(M[m]) /\ Recorded(M[j]) => M[m].seq < M[j].seq)
    <3> HIDE DEF Old
    <3> QED BY <1>6, <1>9, <2>1 DEF Ordered
  <2>3. /\ \A j \in 1 .. Len(M) : M[j].prev < M[j].id /\ M[j].id <= minted
        /\ up => \A j \in 1 .. Len(M) : Recorded(M[j]) => M[j].seq <= seq
    <3> HIDE DEF Old
    <3> QED BY <1>6, <1>9 DEF Ordered, Numbered
  <2> QED BY <1>2, <2>2, <2>3 DEF Ordered, Numbered, M
<1>11. Agrees(Loaded(file))'
  <2>1. ASSUME NEW n \in 0 .. Len(M), \A j \in 1 .. n : Linked(M, j)
        PROVE  n <= Len(chain) /\ \A j \in 1 .. n : chain[j] = M[j]
    (* What follows the deleted entry is linked to it or to a later one. *)
    <3>1. n < i
      <4> SUFFICES ASSUME i \in 1 .. n PROVE FALSE
        BY <1>4, <1>5
      <4>1. i \in 1 .. Len(M) /\ i + 1 \in 1 .. Len(L) /\ i \in 1 .. Len(L) /\ M[i] = L[i + 1]
        BY <1>1, <1>4, <1>5
      <4>2. L[i].id <= L[i + 1].prev /\ L[i].prev < L[i].id /\ L[i] \in Entry /\ L[i + 1] \in Entry
        BY <1>1, <1>6, <4>1 DEF Ordered
      <4>3. M[i].prev = IF i = 1 THEN 0 ELSE L[i - 1].id
        <5>1. i # 1 => M[i - 1] = L[i - 1]
          BY <1>1, <1>4, <1>5, <4>1
        <5> QED BY <2>1, <5>1 DEF Linked
      <4>4. i # 1 => L[i - 1].id <= L[i].prev /\ L[i - 1] \in Entry
        BY <1>1, <1>6, <4>1 DEF Ordered
      <4> QED BY <4>1, <4>2, <4>3, <4>4, EntryType
    <3>2. \A j \in 1 .. n : j \in 1 .. Len(L) /\ M[j] = L[j]
      <4> SUFFICES ASSUME NEW j \in 1 .. n
                   PROVE  j \in 1 .. Len(L) /\ M[j] = L[j]
        OBVIOUS
      <4>1. j < i /\ j \in 1 .. k
        BY <1>1, <1>4, <1>5, <3>1
      <4>2. j \in 1 .. Len(L)
        BY <1>1, <1>4, <4>1
      <4> QED BY <1>5, <4>1, <4>2
    <3>3. \A j \in 1 .. n : Linked(L, j)
      <4> SUFFICES ASSUME NEW j \in 1 .. n PROVE Linked(L, j)
        OBVIOUS
      <4>1. j # 1 => j - 1 \in 1 .. n
        BY <1>4, <1>5
      <4> QED BY <2>1, <3>2, <4>1 DEF Linked
    <3>4. n \in 0 .. Len(L)
      BY <1>1, <1>4, <1>5
    <3> QED BY <1>6, <3>2, <3>3, <3>4 DEF Agrees
  <2>2. \A j \in 1 .. Len(M) : chain # << >> /\ M[j].id <= chain[Len(chain)].id
    <3> HIDE DEF Old
    <3> QED BY <1>6, <1>9 DEF Agrees
  <2> QED BY <1>2, <2>1, <2>2 DEF Agrees, M
<1> QED BY <1>8, <1>10, <1>11

(* A forged line leaves nothing to keep but the types.                     *)
LEMMA ForgeKeeps ==
  ASSUME IInv, NEW i \in 0 .. Len(file), NEW taken \in {0, 1}, i + taken <= Len(file),
         Forge(i, taken)
  PROVE  IInv'
<1>1. /\ TypeOK /\ file \in Seq(Entry \cup {Garbage})
      /\ UNCHANGED <<chain, seq, up>> /\ harmed' = TRUE /\ forged' = TRUE
      /\ harms' \in 0 .. MaxHarms
      /\ minted \in Nat /\ minted' = minted + 1 /\ minted' \in 0 .. MaxRecords
      /\ open' \in BOOLEAN
  BY LedgerAssumption DEF IInv, Basic, Forge, Harm, memory, TypeOK
<1>2. PICK n \in 1 .. MaxRecords, p \in 0 .. minted :
        file' = SubSeq(file, 1, i) \o <<[id |-> minted + 1, seq |-> n, prev |-> p, seal |-> "forged"]>>
                  \o SubSeq(file, i + taken + 1, Len(file))
  BY DEF Forge
<1>3. PICK x : x = [id |-> minted + 1, seq |-> n, prev |-> p, seal |-> "forged"]
  OBVIOUS
<1>4. x \in Entry
  <2>1. minted + 1 \in Nat /\ n \in Nat /\ p \in Nat /\ "forged" \in Seal
    BY <1>1, <1>2, LedgerAssumption DEF Seal
  <2> QED BY <1>3, <2>1 DEF Entry
<1>5. file' \in Seq(Entry \cup {Garbage})
  <2>1. /\ SubSeq(file, 1, i) \in Seq(Entry \cup {Garbage})
        /\ SubSeq(file, i + taken + 1, Len(file)) \in Seq(Entry \cup {Garbage})
        /\ <<x>> \in Seq(Entry \cup {Garbage})
    BY <1>1, <1>4
  <2>2. file' = SubSeq(file, 1, i) \o <<x>> \o SubSeq(file, i + taken + 1, Len(file))
    BY <1>2, <1>3
  <2> QED BY <2>1, <2>2, ConcatProperties
<1>6. Basic'
  BY <1>1, <1>5 DEF IInv, Basic, TypeOK
<1> QED BY <1>1, <1>6 DEF IInv, Honest

(* A chain is as late as any entry of it.                                  *)
LEMMA LastIsLatest ==
  ASSUME NEW c \in Seq(Entry), Ordered(c), NEW i \in 1 .. Len(c)
  PROVE  c[i].id <= c[Len(c)].id
<1>1. /\ c[i] \in Entry /\ c[Len(c)] \in Entry /\ Len(c) \in 1 .. Len(c)
      /\ c[Len(c)].prev < c[Len(c)].id
  BY DEF Ordered
<1>2. CASE i = Len(c)
  BY <1>1, <1>2, EntryType
<1>3. CASE i # Len(c)
  <2>1. i \in 1 .. Len(c) - 1
    BY <1>3
  <2>2. c[i].id <= c[Len(c)].prev
    BY <1>1, <2>1 DEF Ordered
  <2> QED BY <1>1, <2>2, EntryType
<1> QED BY <1>2, <1>3

(* The sequence numbers of a chain are bounded: else there is a shortest   *)
(* prefix whose numbers are not, and it is one entry longer than a bounded *)
(* one.                                                                    *)
LEMMA SequencesBounded ==
  ASSUME NEW c \in Seq(Entry)
  PROVE  \E n \in Nat : \A i \in 1 .. Len(c) : c[i].seq <= n
<1> DEFINE Bounded(k) == \E n \in Nat : \A i \in 1 .. k : c[i].seq <= n
           T == {k \in 0 .. Len(c) : ~Bounded(k)}
<1>1. \A i \in 1 .. Len(c) : c[i].seq \in Nat
  BY EntryType
<1>2. ASSUME NEW k \in T, \A y \in T : k <= y PROVE FALSE
  <2>1. k # 0
    <3>1. \A i \in 1 .. 0 : c[i].seq <= 0
      OBVIOUS
    <3>2. Bounded(0)
      BY <3>1
    <3> QED BY <3>2
  <2>2. k \in 1 .. Len(c) /\ k - 1 \in 0 .. Len(c) /\ ~(k <= k - 1)
    BY <2>1
  <2>3. Bounded(k - 1)
    BY <1>2, <2>2
  <2> HIDE DEF T
  <2>4. PICK n \in Nat : \A i \in 1 .. k - 1 : c[i].seq <= n
    BY <2>3
  <2>5. PICK m \in Nat : m >= n /\ m >= c[k].seq
    <3>1. c[k].seq \in Nat /\ (n >= c[k].seq \/ c[k].seq >= n)
      BY <1>1, <2>2
    <3> QED BY <3>1
  <2>6. ASSUME NEW i \in 1 .. k PROVE c[i].seq <= m
    <3>1. c[i].seq \in Nat
      BY <1>1, <2>2
    <3>2. CASE i = k
      BY <2>5, <3>2
    <3>3. CASE i # k
      <4>1. i \in 1 .. k - 1
        BY <2>2, <3>3
      <4> QED BY <2>4, <2>5, <3>1, <4>1
    <3> QED BY <3>2, <3>3
  <2>7. Bounded(k)
    BY <2>6
  <2> QED BY <1>2, <2>7 DEF T
<1>3. T = {}
  <2>1. T \subseteq Nat
    OBVIOUS
  <2> HIDE DEF T
  <2> QED BY <1>2, <2>1, LeastElement
<1>4. Bounded(Len(c))
  <2>1. Len(c) \in 0 .. Len(c)
    OBVIOUS
  <2> QED BY <1>3, <2>1
<1> QED BY <1>4

LEMMA RestartKeeps == IInv /\ Restart => IInv'
<1> SUFFICES ASSUME IInv, Restart PROVE IInv'
  OBVIOUS
<1> USE DEF Sound
<1> DEFINE L == Loaded(file)
<1>1. TypeOK /\ L \in Seq(Entry) /\ Honest(L) /\ (forged => harmed)
  BY LoadedPrefix DEF IInv, Basic, TypeOK
<1>2. /\ chain' = L /\ seq' = LastSequence(L) /\ up' = TRUE
      /\ UNCHANGED <<file, open, minted, harms, harmed, forged>>
  BY DEF Restart, disk
<1> HIDE DEF L
<1>4. LastSequence(L) \in Nat /\ \A i \in 1 .. Len(L) : L[i].seq <= LastSequence(L)
  <2> DEFINE T == {0} \cup {L[i].seq : i \in 1 .. Len(L)}
  <2>a. PICK n \in Nat : \A i \in 1 .. Len(L) : L[i].seq <= n
    BY <1>1, SequencesBounded
  <2>1. T \subseteq 0 .. n
    <3>1. \A i \in 1 .. Len(L) : L[i].seq \in Nat
      BY <1>1, EntryType
    <3> QED BY <2>a, <3>1
  <2>2. 0 \in T /\ \A i \in 1 .. Len(L) : L[i].seq \in T
    OBVIOUS
  <2>3. Max(T) \in T /\ \A y \in T : y <= Max(T)
    <3> HIDE DEF T
    <3> QED BY <2>1, <2>2, GreatestElement
  <2>4. LastSequence(L) = Max(T)
    BY DEF LastSequence
  <2> HIDE DEF T
  <2>5. LastSequence(L) \in T /\ \A y \in T : y <= LastSequence(L)
    BY <2>3, <2>4
  <2>6. LastSequence(L) \in Nat
    <3>1. LastSequence(L) \in 0 .. n
      BY <2>1, <2>5
    <3> QED BY <3>1
  <2>7. \A i \in 1 .. Len(L) : L[i].seq <= LastSequence(L)
    BY <2>2, <2>5
  <2> QED BY <2>6, <2>7
<1>5. Basic'
  BY <1>1, <1>2, <1>4 DEF Basic, TypeOK
<1>6. Honest(Loaded(file))'
  BY <1>1, <1>2 DEF Honest, L
<1> SUFFICES ASSUME ~forged PROVE Sound(Loaded(file))'
  BY <1>2, <1>5, <1>6 DEF IInv
<1>7. Ordered(L)
  BY DEF IInv, L
<1>8. Ordered(chain)' /\ Ordered(Loaded(file))' /\ Numbered(Loaded(file))'
  BY <1>1, <1>2, <1>4, <1>7 DEF Ordered, Numbered, L
<1>9. Agrees(Loaded(file))'
  <2>1. \A i \in 1 .. Len(L) : L # << >> /\ L[i].id <= L[Len(L)].id
    BY <1>1, <1>7, LastIsLatest
  <2>2. \A n \in 0 .. Len(L) : n <= Len(L)
    BY <1>1
  <2> QED BY <1>2, <2>1, <2>2 DEF Agrees, L
<1> QED BY <1>8, <1>9

LEMMA CrashKeeps == IInv /\ Crash => IInv'
<1> SUFFICES ASSUME IInv, Crash PROVE IInv'
  OBVIOUS
<1>1. up' = FALSE /\ UNCHANGED <<chain, seq, file, open, minted, harms, harmed, forged>>
  BY DEF Crash, disk
<1>2. Basic'
  BY <1>1 DEF IInv, Basic, TypeOK
<1>3. Sound(Loaded(file)) => Sound(Loaded(file))'
  BY <1>1 DEF Sound, Ordered, Numbered, Agrees
<1>4. Honest(Loaded(file))'
  BY <1>1 DEF IInv, Honest
<1> QED BY <1>1, <1>2, <1>3, <1>4 DEF IInv

(* A record, whatever becomes of its write, with or without the process.   *)
RecordStep == Record \/ RecordCut \/ RecordUnwritten \/ CrashRecording

LEMMA RecordStepWrites == IInv /\ RecordStep => Enter /\ Written
<1> SUFFICES ASSUME IInv, RecordStep PROVE Enter /\ Written
  OBVIOUS
<1>1. open \in BOOLEAN /\ up \in BOOLEAN /\ harmed \in BOOLEAN
  BY DEF IInv, Basic, TypeOK
<1>2. CASE Record
  BY <1>1, <1>2 DEF Record, WriteLine, Written
<1>3. CASE RecordCut
  BY <1>1, <1>3 DEF RecordCut, WriteAllButNewline, WritePart, Written
<1>4. CASE RecordUnwritten
  BY <1>1, <1>4 DEF RecordUnwritten, WriteNothing, Written, disk
<1>5. CASE CrashRecording
  BY <1>1, <1>5 DEF CrashRecording, WriteLine, WriteAllButNewline, WritePart, WriteNothing,
                    Written, disk
<1> QED BY <1>2, <1>3, <1>4, <1>5 DEF RecordStep

LEMMA NextInvariant == IInv /\ [Next]_vars => IInv'
<1> SUFFICES ASSUME IInv, [Next]_vars PROVE IInv'
  OBVIOUS
<1>1. CASE RecordStep
  BY <1>1, RecordStepWrites, EnterKeeps
<1>2. CASE Crash
  BY <1>2, CrashKeeps
<1>3. CASE Restart
  BY <1>3, RestartKeeps
<1>4. ASSUME NEW i \in 1 .. Len(file), Alter(i) PROVE IInv'
  BY <1>4, AlterKeeps
<1>5. ASSUME NEW i \in 1 .. Len(file), Delete(i) PROVE IInv'
  BY <1>5, DeleteKeeps
<1>6. ASSUME NEW i \in 1 .. Len(file), Garble(i) PROVE IInv'
  BY <1>6, GarbleKeeps
<1>7. ASSUME NEW i \in 1 .. Len(file), Forge(i - 1, 1) PROVE IInv'
  <2>1. i - 1 \in 0 .. Len(file) /\ (i - 1) + 1 <= Len(file)
    BY DEF IInv, Basic, TypeOK
  <2> QED BY <1>7, <2>1, ForgeKeeps
<1>8. ASSUME NEW i \in 0 .. Len(file), Forge(i, 0) PROVE IInv'
  BY <1>8, ForgeKeeps
<1>9. CASE UNCHANGED vars
  BY <1>9, StutterKeeps
<1> QED BY <1>1, <1>2, <1>3, <1>4, <1>5, <1>6, <1>7, <1>8, <1>9 DEF Next, RecordStep

THEOREM Invariant == Spec => []IInv
BY InitInvariant, NextInvariant, PTL DEF Spec

----------------------------------------------------------------------------
(* The variables of AuditLedger keep their types, whatever is done to the  *)
(* file and whenever the process dies.                                     *)
THEOREM TypeCorrect == Spec => []TypeOK
<1>1. IInv => TypeOK
  BY DEF IInv, Basic
<1> QED BY <1>1, Invariant, PTL

(* record, _load and verify_chain: the chain breaks only where the file    *)
(* was edited or a write was lost in silence.                              *)
THEOREM BreaksOnlyByHarm == Spec => []OnlyHarmBreaks
<1>1. IInv => OnlyHarmBreaks
  BY DEF IInv, Honest, OnlyHarmBreaks, Broken
<1> QED BY <1>1, Invariant, PTL

(* record and _load: in a chain with no forged line, no two entries that   *)
(* are as they were recorded share a sequence number, whatever numbers     *)
(* others were given in the file.                                          *)
THEOREM SequencesAreUnique == Spec => []SequencesIncrease
<1>1. IInv => SequencesIncrease
  BY DEF IInv, Basic, Sound, Ordered, SequencesIncrease
<1> QED BY <1>1, Invariant, PTL

----------------------------------------------------------------------------
(* The refinement.                                                         *)

LEMMA VouchedIs ==
  ASSUME NEW c \in Seq(Entry), NEW k \in 0 .. Len(c),
         \A i \in 1 .. k : Linked(c, i),
         k < Len(c) => ~Linked(c, k + 1)
  PROVE  VouchedLength(c) = k
<1>1. /\ VouchedLength(c) \in 0 .. Len(c)
      /\ \A i \in 1 .. VouchedLength(c) : Linked(c, i)
      /\ k <= VouchedLength(c)
  BY VouchedPrefix
<1>2. ~(k < VouchedLength(c))
  <2> SUFFICES ASSUME k < VouchedLength(c) PROVE FALSE
    OBVIOUS
  <2>1. k + 1 \in 1 .. VouchedLength(c) /\ k < Len(c)
    BY <1>1
  <2> QED BY <1>1, <2>1
<1> QED BY <1>1, <1>2

(* A recorded entry extends what is vouched for, or is of no account.      *)
LEMMA RecordRefines ==
  ASSUME TypeOK, Enter
  PROVE  Log!Extend(0) \/ UNCHANGED Log!logVars
<1> DEFINE e == Sealed
           k == VouchedLength(chain)
<1>1. chain \in Seq(Entry) /\ e \in Entry /\ Len(chain) \in Nat
  BY SealedType DEF TypeOK
<1>2. Intact(e) /\ e.prev = IF Len(chain) = 0 THEN 0 ELSE chain[Len(chain)].id
  BY SealedIs
<1>3. chain' = Append(chain, e)
  BY DEF Enter
<1> HIDE DEF e
<1>4. /\ chain' \in Seq(Entry) /\ Len(chain') = Len(chain) + 1
      /\ \A i \in 1 .. Len(chain) : chain'[i] = chain[i]
      /\ chain'[Len(chain) + 1] = e
  BY <1>1, <1>3
<1>5. /\ k \in 0 .. Len(chain)
      /\ \A i \in 1 .. k : Linked(chain, i)
      /\ \A n \in 0 .. Len(chain) : (\A i \in 1 .. n : Linked(chain, i)) => n <= k
      /\ Len(Vouched(chain)) = k
      /\ \A i \in 1 .. k : Vouched(chain)[i] = chain[i]
      /\ Vouched(chain) = SubSeq(chain, 1, k)
  BY <1>1, VouchedPrefix
<1> HIDE DEF k
<1>6. \A i \in 1 .. Len(chain) : Linked(chain', i) <=> Linked(chain, i)
  <2> SUFFICES ASSUME NEW i \in 1 .. Len(chain)
               PROVE  Linked(chain', i) <=> Linked(chain, i)
    OBVIOUS
  <2>1. chain'[i] = chain[i] /\ (i # 1 => chain'[i - 1] = chain[i - 1])
    BY <1>1, <1>4
  <2> QED BY <2>1 DEF Linked
<1>7. CASE k = Len(chain)
  <2>1. Linked(chain', Len(chain) + 1)
    <3>1. Len(chain) # 0 => chain'[Len(chain)] = chain[Len(chain)]
      BY <1>1, <1>4
    <3> QED BY <1>1, <1>2, <1>4, <3>1 DEF Linked
  <2>2. PICK m \in Nat : m = Len(chain) + 1
    BY <1>1
  <2>3. /\ m \in 0 .. Len(chain') /\ ~(m < Len(chain'))
        /\ \A i \in 1 .. m : Linked(chain', i)
    BY <1>1, <1>4, <1>5, <1>6, <1>7, <2>1, <2>2
  <2>4. VouchedLength(chain') = m
    BY <1>4, <2>3, VouchedIs
  <2>5. Len(Vouched(chain')) = m /\ \A i \in 1 .. m : Vouched(chain')[i] = chain'[i]
    BY <1>4, <2>4, VouchedPrefix
  <2>6. /\ Len(Vouched(chain')) = Len(Vouched(chain)) - 0 + 1
        /\ \A i \in 1 .. Len(Vouched(chain)) - 0 : Vouched(chain')[i] = Vouched(chain)[0 + i]
    BY <1>1, <1>4, <1>5, <1>7, <2>2, <2>5
  <2> QED BY <2>6 DEF Log!Extend
<1>8. CASE k < Len(chain)
  <2>1. k + 1 \in 1 .. Len(chain) /\ ~Linked(chain, k + 1)
    <3>1. k + 1 \in 0 .. Len(chain) /\ k + 1 \in 1 .. Len(chain) /\ ~(k + 1 <= k)
      BY <1>5, <1>8
    <3>2. \A i \in 1 .. k + 1 : i \in 1 .. k \/ i = k + 1
      BY <1>5
    <3> QED BY <1>5, <3>1, <3>2
  <2>2. /\ k \in 0 .. Len(chain') /\ ~Linked(chain', k + 1)
        /\ \A i \in 1 .. k : Linked(chain', i) /\ chain'[i] = chain[i]
    BY <1>1, <1>4, <1>5, <1>6, <2>1
  <2>3. VouchedLength(chain') = k
    BY <1>4, <2>2, VouchedIs
  <2>4. Vouched(chain') = SubSeq(chain', 1, k)
    BY <1>4, <2>3, VouchedPrefix
  <2>5. SubSeq(chain', 1, k) = SubSeq(chain, 1, k)
    BY <1>1, <1>4, <1>5, <2>2
  <2> QED BY <1>5, <2>4, <2>5 DEF Log!logVars
<1> QED BY <1>1, <1>5, <1>7, <1>8

(* What a restart can vouch for is a prefix of what was vouched for.       *)
LEMMA RestartRefines ==
  ASSUME IInv, ~forged, Restart
  PROVE  Log!Lose
<1> DEFINE L == Loaded(file)
           k == VouchedLength(chain)
           n == VouchedLength(L)
<1>1. chain \in Seq(Entry) /\ L \in Seq(Entry) /\ chain' = L
  BY LoadedPrefix DEF IInv, Basic, TypeOK, Restart
<1>2. Agrees(L)
  BY DEF IInv, Sound
<1> HIDE DEF L
<1>3. /\ k \in 0 .. Len(chain)
      /\ \A m \in 0 .. Len(chain) : (\A i \in 1 .. m : Linked(chain, i)) => m <= k
      /\ Len(Vouched(chain)) = k
      /\ Vouched(chain) \in Seq(Entry)
      /\ \A i \in 1 .. k : Vouched(chain)[i] = chain[i]
  <2>1. /\ k \in 0 .. Len(chain)
        /\ \A m \in 0 .. Len(chain) : (\A i \in 1 .. m : Linked(chain, i)) => m <= k
        /\ Len(Vouched(chain)) = k
        /\ Vouched(chain) = SubSeq(chain, 1, k)
        /\ \A i \in 1 .. k : Vouched(chain)[i] = chain[i]
    BY <1>1, VouchedPrefix
  <2> HIDE DEF k
  <2>2. SubSeq(chain, 1, k) \in Seq(Entry)
    BY <1>1, <2>1
  <2> QED BY <2>1, <2>2
<1>4. /\ n \in 0 .. Len(L)
      /\ \A i \in 1 .. n : Linked(L, i)
      /\ Vouched(L) = SubSeq(L, 1, n)
  BY <1>1, VouchedPrefix
<1> HIDE DEF k, n
<1>5. n <= Len(chain) /\ \A i \in 1 .. n : chain[i] = L[i]
  BY <1>2, <1>4 DEF Agrees
<1>6. n \in 0 .. k
  <2>1. \A i \in 1 .. n : Linked(chain, i)
    <3> SUFFICES ASSUME NEW i \in 1 .. n PROVE Linked(chain, i)
      OBVIOUS
    <3>1. Linked(L, i) /\ chain[i] = L[i] /\ (i # 1 => chain[i - 1] = L[i - 1])
      BY <1>4, <1>5
    <3> QED BY <3>1 DEF Linked
  <2> QED BY <1>1, <1>3, <1>4, <1>5, <2>1
<1>7. SubSeq(L, 1, n) = SubSeq(Vouched(chain), 1, n)
  BY <1>1, <1>3, <1>4, <1>5, <1>6
<1> QED BY <1>1, <1>3, <1>4, <1>6, <1>7 DEF Log!Lose, Log!Cut

(* Crashes and restarts, lost and torn writes, edits of the file: what     *)
(* verify_chain vouches for only grows while the process runs, and loses   *)
(* at most a tail when it is started again, unless an edit has forged a    *)
(* line: one with a hash that fits, which takes no key.                    *)
THEOREM VouchedLogIsAppendOnly == Spec => VouchedIsAppendOnly
<1>1. Init => Log!Init
  <2> SUFFICES ASSUME Init PROVE Vouched(chain) = << >>
    BY DEF Log!Init
  <2>1. chain \in Seq(Entry) /\ chain = << >> /\ Len(chain) = 0
    BY DEF Init
  <2>2. VouchedLength(chain) = 0 /\ Vouched(chain) = SubSeq(chain, 1, VouchedLength(chain))
    <3>1. /\ VouchedLength(chain) \in 0 .. Len(chain)
          /\ Vouched(chain) = SubSeq(chain, 1, VouchedLength(chain))
      BY <2>1, VouchedPrefix
    <3> QED BY <2>1, <3>1
  <2> QED BY <2>1, <2>2
<1>2. IInv /\ [Next]_vars =>
        [Log!Extend(0) \/ (~up /\ (forged \/ Log!Lose))]_(Log!logVars)
  <2> SUFFICES ASSUME IInv, [Next]_vars
               PROVE  \/ Log!Extend(0)
                      \/ ~up /\ (forged \/ Log!Lose)
                      \/ UNCHANGED Log!logVars
    OBVIOUS
  <2>1. CASE RecordStep
    BY <2>1, RecordStepWrites, RecordRefines DEF IInv, Basic
  <2>2. CASE Restart
    BY <2>2, RestartRefines DEF Restart
  <2>3. CASE UNCHANGED chain
    BY <2>3 DEF Log!logVars
  <2>4. Crash => UNCHANGED chain
    BY DEF Crash
  <2>5. /\ \A i \in 1 .. Len(file) :
             Alter(i) \/ Garble(i) \/ Delete(i) \/ Forge(i - 1, 1) => UNCHANGED chain
        /\ \A i \in 0 .. Len(file) : Forge(i, 0) => UNCHANGED chain
    BY DEF Alter, Garble, Delete, Forge, Harm, memory
  <2>6. UNCHANGED vars => UNCHANGED chain
    BY DEF vars, memory
  <2> QED BY <2>1, <2>2, <2>3, <2>4, <2>5, <2>6 DEF Next, RecordStep
<1> QED BY <1>1, <1>2, Invariant, PTL DEF Spec, VouchedIsAppendOnly
=============================================================================
