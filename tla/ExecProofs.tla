----------------------------- MODULE ExecProofs -----------------------------
(***************************************************************************)
(* Proofs about Exec, for any processes, CPUs, address spaces, executables *)
(* and arguments: the new program gets its arguments, no CPU reaches       *)
(* memory of another address space, and every address space has one owner. *)
(***************************************************************************)
EXTENDS Exec, FiniteSetTheorems, WellFoundedInduction, TLAPS

\* Zenon proves the leaves that need no arithmetic; the others name their prover.
USE ZenonT(30)

-----------------------------------------------------------------------------
(* The inductive invariant *)

\* Where a process is: in user mode or on its way there, making a new address
\* space, back in the old one or done with it, or ending.
Resting == {"user", "forked", "exited", "flush"}
Building == {"activate", "filetable", "define", "load", "args"}
Settled == {"undo_activate", "undo_destroy", "release"}
Ending == {"exit", "failed"}
PC == {"none", "count", "undo"} \cup Resting \cup Building \cup Settled \cup Ending

ProcType(r) ==
    /\ DOMAIN r = {"pc", "kind", "as", "other", "args", "i", "argv", "spoiled"}
    /\ r.pc \in PC /\ r.kind \in {"none", "exec", "run"}
    /\ r.as \in AS \cup {None} /\ r.other \in AS \cup {None}
    /\ r.args \in Seq(Nat) /\ r.i \in Nat
    /\ r.argv \in {"none", "right", "wrong"} /\ r.spoiled \in BOOLEAN
ASType(r) ==
    /\ DOMAIN r = {"live", "regions", "ready", "done"}
    /\ r.live \in BOOLEAN /\ r.regions \in Seq(Int) /\ r.ready \in BOOLEAN /\ r.done \in BOOLEAN
TLBEntry == [page : Int, as : AS \cup {None}]

PrType == DOMAIN pr = Proc /\ \A p \in Proc : ProcType(pr[p])
AspType == DOMAIN asp = AS /\ \A a \in AS : ASType(asp[a])

Types ==
    /\ PrType
    /\ kbuf = [w \in 0 .. ARG_WORDS - 1 |-> kbuf[w]]
    /\ AspType
    /\ tlb \in [CPU -> SUBSET TLBEntry]
    /\ run \in [CPU -> Proc \cup {None}]
    /\ file \in Seq(Int)
    /\ panicked \in BOOLEAN /\ strayed \in BOOLEAN

Loaded(a) == a # None /\ asp[a].done /\ SetUp(a)

\* What a process has at each place: an address space to run in, one to go
\* back to, or one to destroy.
Place(p) ==
    LET r == pr[p] IN
    \/ r.pc = "none" /\ r.kind = "none" /\ r.as = None /\ r.other = None
    \/ r.pc \in Resting /\ r.kind = "none" /\ Loaded(r.as) /\ r.other = None
    \/ r.pc = "count" /\ r.kind = "exec" /\ Loaded(r.as) /\ r.other = None
    \/ r.pc = "count" /\ r.kind = "run" /\ r.as = None /\ r.other = None /\ r.args = <<>>
    \/ /\ r.pc \in Building /\ r.kind = "exec" /\ r.as # None /\ Loaded(r.other)
       /\ r.pc = "args" => asp[r.as].done
    \/ /\ r.pc \in Building /\ r.kind = "run" /\ r.as # None /\ r.other = None
       /\ r.pc = "args" => asp[r.as].done
    \/ r.pc = "undo" /\ r.kind = "exec" /\ r.as # None /\ Loaded(r.other)
    \/ r.pc \in Settled /\ r.kind = "exec" /\ Loaded(r.as) /\ r.other # None
    \/ r.pc \in Ending /\ r.kind = "run" /\ r.other = None

\* i counts the arguments, or the headers, from 1.
Counts(p) ==
    pr[p].pc \in {"count", "define", "load"} => pr[p].i >= 1

\* Every address space that is in use has one holder.
Owned ==
    /\ \A p \in Proc : /\ pr[p].as # None => asp[pr[p].as].live
                       /\ pr[p].other # None => asp[pr[p].other].live
    /\ \A p, q \in Proc :
          /\ pr[p].as # None /\ pr[p].as = pr[q].as => p = q
          /\ pr[p].other # None /\ pr[p].other = pr[q].other => p = q
          /\ pr[p].as # None => pr[p].as # pr[q].other
    /\ \A a \in AS : asp[a].live => \E p \in Proc : pr[p].as = a \/ pr[p].other = a

\* A process runs on one CPU, and what the TLB maps there is its own.
Running ==
    /\ \A c \in CPU : run[c] # None => pr[run[c]].pc \notin {"none", "exited", "failed"}
    /\ \A c, d \in CPU : run[c] # None /\ run[c] = run[d] => c = d
MapsOwn(c) ==
    run[c] # None =>
        \/ pr[run[c]].as = None \/ pr[run[c]].pc \in {"activate", "undo_activate"}
        \/ \A e \in tlb[c] : e.as = pr[run[c]].as

\* execv runs with exec_lock held.
Locked == \A p \in Proc : pr[p].kind = "exec" => exec_lock = p

\* kbuf holds the first n arguments of p, and zeroes up to the strings.
Holds(p, args, kb, n) ==
    /\ \A w \in n .. Len(args) : kb[w] = Zero
    /\ \A j \in 1 .. n :
          /\ kb[j - 1] = Offset(StringAt(args, j))
          /\ \A k \in 0 .. padded_length(args[j]) \div 4 - 1 :
                kb[StringAt(args, j) \div 4 + k] = Str(p, j, k)
Fits(args) ==
    /\ StringAt(args, Len(args) + 1) <= 4 * ARG_WORDS
    /\ \A j \in 1 .. Len(args) : StringAt(args, j) < BYTE
Buffered(p) ==
    pr[p].kind = "exec" /\ ~pr[p].spoiled =>
        /\ Fits(pr[p].args)
        /\ pr[p].pc = "count" => pr[p].i <= Len(pr[p].args) + 1 /\ Holds(p, pr[p].args, kbuf, pr[p].i - 1)
        /\ pr[p].pc \in Building => Holds(p, pr[p].args, kbuf, Len(pr[p].args))

ExecInv ==
    /\ Types
    /\ \A p \in Proc : Place(p) /\ Counts(p) /\ Buffered(p)
    /\ Owned
    /\ Running
    /\ \A c \in CPU : MapsOwn(c)
    /\ Locked
    /\ ArgsFaithful
    /\ ~strayed

-----------------------------------------------------------------------------
(* The strings in kbuf *)

\* A set of numbers that is not empty has a least one.
LEMMA LeastNat ==
    ASSUME NEW S, S \subseteq Nat, S # {}
    PROVE  \E n \in S : \A m \in S : n <= m
<1>1. PICK x \in S : \A y \in S : ~(<<y, x>> \in OpToRel(<, Nat))
  BY NatLessThanWellFounded, WFMin
<1>2. \A y \in S : ~(y < x)
  BY <1>1 DEF OpToRel
<1> QED
  BY <1>2, SMTT(30)

\* padded_length: a string and its padding take whole words.
LEMMA PaddedLength ==
    ASSUME NEW len \in Nat
    PROVE  /\ padded_length(len) \in Nat /\ padded_length(len) >= len
           /\ padded_length(len) % 4 = 0
BY SMTT(30) DEF padded_length

Sums(f, args, n) ==
    f = [k \in 0 .. n |-> IF k = 0 THEN 0 ELSE f[k - 1] + padded_length(args[k])]

\* There is a function of the sums over the first strings.
LEMMA SumsExist ==
    ASSUME NEW args \in Seq(Nat)
    PROVE  \E f : Sums(f, args, Len(args))
<1> DEFINE Bad == {n \in 0 .. Len(args) : ~\E f : Sums(f, args, n)}
<1>len. Len(args) \in Nat
  BY SMTT(30)
<1>1. ASSUME Bad # {} PROVE FALSE
  <2>1. PICK n \in Bad : \A m \in Bad : n <= m
    <3>1. Bad \subseteq Nat
      BY SMTT(30)
    <3> QED
      BY <1>1, <3>1, LeastNat
  <2>2. n \in 0 .. Len(args) /\ n \in Nat
    BY <1>len, SMTT(30)
  <2>3. CASE n = 0
    <3> DEFINE f == [k \in 0 .. 0 |-> 0]
    <3>1. Sums(f, args, 0)
      BY SMTT(30) DEF Sums
    <3> QED
      BY <3>1, <2>3, <2>1
  <2>4. CASE n # 0
    <3>1. n - 1 \in 0 .. Len(args) /\ ~(n <= n - 1)
      BY <2>2, <2>4, <1>len, SMTT(30)
    <3>2. n - 1 \notin Bad
      BY <2>1, <3>1
    <3>3. PICK f : Sums(f, args, n - 1)
      BY <3>1, <3>2
    <3> DEFINE g == [k \in 0 .. n |-> IF k = n THEN f[n - 1] + padded_length(args[n]) ELSE f[k]]
    <3>4. \A k \in 0 .. n - 1 : f[k] = IF k = 0 THEN 0 ELSE f[k - 1] + padded_length(args[k])
      BY <3>3 DEF Sums
    <3>5. ASSUME NEW k \in 0 .. n
          PROVE  g[k] = IF k = 0 THEN 0 ELSE g[k - 1] + padded_length(args[k])
      <4>1. CASE k = n
        <5>1. n - 1 \in 0 .. n /\ n - 1 # n
          BY <2>2, <2>4, SMTT(30)
        <5>2. g[n - 1] = f[n - 1]
          BY <5>1
        <5> QED
          BY <4>1, <5>2, <2>4
      <4>2. CASE k # n
        <5>1. /\ k \in 0 .. n - 1
              /\ k # 0 => k - 1 \in 0 .. n /\ k - 1 # n
          BY <4>2, <2>2, SMTT(30)
        <5>2. g[k] = f[k] /\ (k # 0 => g[k - 1] = f[k - 1])
          BY <5>1, <4>2
        <5> QED
          BY <5>1, <5>2, <3>4
      <4> QED
        BY <4>1, <4>2
    <3> HIDE DEF g
    <3>6. DOMAIN g = 0 .. n /\ g = [k \in DOMAIN g |-> g[k]]
      BY DEF g
    <3>7. Sums(g, args, n)
      BY <3>5, <3>6 DEF Sums
    <3> QED
      BY <3>7, <2>1
  <2> QED
    BY <2>3, <2>4
<1>2. Len(args) \in 0 .. Len(args)
  BY <1>len, SMTT(30)
<1> QED
  BY <1>1, <1>2

\* Each string begins where the padding of the one before ends.
LEMMA PaddedStep ==
    ASSUME NEW args \in Seq(Nat)
    PROVE  /\ Padded(args, 0) = 0
           /\ \A k \in 1 .. Len(args) : Padded(args, k) = Padded(args, k - 1) + padded_length(args[k])
<1> DEFINE sum == CHOOSE f : Sums(f, args, Len(args))
<1>1. Sums(sum, args, Len(args))
  BY SumsExist
<1>2. \A n : Padded(args, n) = sum[n]
  BY DEF Padded, Sums
<1> HIDE DEF sum
<1>3. \A k \in 0 .. Len(args) : sum[k] = IF k = 0 THEN 0 ELSE sum[k - 1] + padded_length(args[k])
  BY <1>1 DEF Sums
<1>4. Len(args) \in Nat /\ 0 \in 0 .. Len(args)
  BY SMTT(30)
<1>5. ASSUME NEW k \in 1 .. Len(args)
      PROVE  k \in 0 .. Len(args) /\ k # 0
  BY <1>4, SMTT(30)
<1>6. Padded(args, 0) = 0
  BY <1>2, <1>3, <1>4
<1>7. ASSUME NEW k \in 1 .. Len(args)
      PROVE  Padded(args, k) = Padded(args, k - 1) + padded_length(args[k])
  BY <1>2, <1>3, <1>5
<1> QED
  BY <1>6, <1>7

\* Adding whole words to whole words.
LEMMA WholeWords ==
    ASSUME NEW m \in Nat, NEW n \in Nat, m % 4 = 0, n % 4 = 0
    PROVE  m + n \in Nat /\ m <= m + n /\ (m + n) % 4 = 0
BY SMTT(30)

\* The sums grow, and are whole words.
LEMMA PaddedMono ==
    ASSUME NEW args \in Seq(Nat), NEW n \in 0 .. Len(args)
    PROVE  /\ Padded(args, n) \in Nat /\ Padded(args, n) % 4 = 0
           /\ \A m \in 0 .. n : Padded(args, m) \in Nat /\ Padded(args, m) <= Padded(args, n)
<1> DEFINE Good(k) == /\ Padded(args, k) \in Nat /\ Padded(args, k) % 4 = 0
                      /\ \A m \in 0 .. k : Padded(args, m) \in Nat /\ Padded(args, m) <= Padded(args, k)
           Bad == {k \in 0 .. Len(args) : ~Good(k)}
<1>len. Len(args) \in Nat
  BY SMTT(30)
<1>1. ASSUME Bad # {} PROVE FALSE
  <2>1. PICK k \in Bad : \A m \in Bad : k <= m
    <3>1. Bad \subseteq Nat
      BY <1>len, SMTT(30)
    <3> QED
      BY <1>1, <3>1, LeastNat
  <2>2. k \in 0 .. Len(args) /\ k \in Nat /\ ~Good(k)
    BY <1>len, SMTT(30)
  <2>3. CASE k = 0
    <3>1. Padded(args, k) = 0
      BY <2>3, PaddedStep
    <3>2. Good(k)
      BY <3>1, <2>3, SMTT(30)
    <3> QED
      BY <3>2, <2>2
  <2>4. CASE k # 0
    <3>1. k - 1 \in 0 .. Len(args) /\ k \in 1 .. Len(args) /\ ~(k <= k - 1)
      BY <2>2, <2>4, <1>len, SMTT(30)
    <3>2. Good(k - 1)
      BY <2>1, <3>1
    <3>3. Padded(args, k) = Padded(args, k - 1) + padded_length(args[k])
      BY <3>1, PaddedStep
    <3>4. args[k] \in Nat
      BY <3>1, SMTT(30)
    <3>5. padded_length(args[k]) \in Nat /\ padded_length(args[k]) % 4 = 0
      BY <3>4, PaddedLength
    <3>6. \A m \in 0 .. k : m \in 0 .. k - 1 \/ m = k
      BY <2>2, SMTT(30)
    <3>7. Padded(args, k) \in Nat /\ Padded(args, k - 1) <= Padded(args, k) /\ Padded(args, k) % 4 = 0
      <4>1. Padded(args, k - 1) \in Nat /\ Padded(args, k - 1) % 4 = 0
        BY <3>2
      <4> QED
        BY <4>1, <3>3, <3>5, WholeWords
    <3>8. ASSUME NEW m \in 0 .. k
          PROVE  Padded(args, m) \in Nat /\ Padded(args, m) <= Padded(args, k)
      <4>1. CASE m = k
        BY <4>1, <3>7, SMTT(30)
      <4>2. CASE m \in 0 .. k - 1
        BY <4>2, <3>2, <3>7, SMTT(30)
      <4> QED
        BY <4>1, <4>2, <3>6
    <3> QED
      BY <3>7, <3>8, <2>2
  <2> QED
    BY <2>3, <2>4
<1> QED
  BY <1>1

\* The string of an argument takes whole words, above the vector of offsets and
\* below the next one's.
LEMMA StringWords ==
    ASSUME NEW args \in Seq(Nat)
    PROVE  /\ \A j \in 1 .. Len(args) + 1 :
                 /\ StringAt(args, j) \in Nat
                 /\ StringAt(args, j) \div 4 \in Nat /\ StringAt(args, j) = 4 * (StringAt(args, j) \div 4)
                 /\ StringAt(args, j) \div 4 >= Len(args) + 1
           /\ \A j \in 1 .. Len(args) :
                 /\ padded_length(args[j]) \div 4 \in Nat
                 /\ \A k \in j + 1 .. Len(args) + 1 :
                       StringAt(args, j) \div 4 + padded_length(args[j]) \div 4 <= StringAt(args, k) \div 4
<1>len. Len(args) \in Nat
  BY SMTT(30)
<1>1. ASSUME NEW j \in 1 .. Len(args) + 1
      PROVE  /\ j - 1 \in 0 .. Len(args) /\ Padded(args, j - 1) \in Nat
             /\ StringAt(args, j) \in Nat
             /\ StringAt(args, j) \div 4 \in Nat /\ StringAt(args, j) = 4 * (StringAt(args, j) \div 4)
             /\ StringAt(args, j) \div 4 >= Len(args) + 1
  <2>1. j - 1 \in 0 .. Len(args)
    BY <1>len, SMTT(30)
  <2>2. Padded(args, j - 1) \in Nat /\ Padded(args, j - 1) % 4 = 0
    BY <2>1, PaddedMono
  <2>3. StringAt(args, j) = 4 * (Len(args) + 1) + Padded(args, j - 1)
    BY DEF StringAt
  <2> QED
    BY <2>1, <2>2, <2>3, <1>len, SMTT(30)
<1>2. ASSUME NEW j \in 1 .. Len(args)
      PROVE  /\ padded_length(args[j]) \div 4 \in Nat
             /\ \A k \in j + 1 .. Len(args) + 1 :
                   StringAt(args, j) \div 4 + padded_length(args[j]) \div 4 <= StringAt(args, k) \div 4
  <2>1. args[j] \in Nat
    BY SMTT(30)
  <2>2. padded_length(args[j]) \in Nat /\ padded_length(args[j]) % 4 = 0
    BY <2>1, PaddedLength
  <2>3. padded_length(args[j]) \div 4 \in Nat /\ padded_length(args[j]) = 4 * (padded_length(args[j]) \div 4)
    BY <2>2, SMTT(30)
  <2>4. ASSUME NEW k \in j + 1 .. Len(args) + 1
        PROVE  StringAt(args, j) \div 4 + padded_length(args[j]) \div 4 <= StringAt(args, k) \div 4
    <3>1. /\ j \in 1 .. Len(args) + 1 /\ k \in 1 .. Len(args) + 1 /\ k - 1 \in 0 .. Len(args)
          /\ j \in 0 .. k - 1
      BY <1>len, SMTT(30)
    <3>2. Padded(args, j) \in Nat /\ Padded(args, k - 1) \in Nat /\ Padded(args, j) <= Padded(args, k - 1)
      BY <3>1, PaddedMono
    <3>3. Padded(args, j) = Padded(args, j - 1) + padded_length(args[j])
      BY PaddedStep
    <3>4. /\ StringAt(args, j) = 4 * (Len(args) + 1) + Padded(args, j - 1)
          /\ StringAt(args, k) = 4 * (Len(args) + 1) + Padded(args, k - 1)
      BY DEF StringAt
    <3>5. Padded(args, j - 1) \in Nat
      BY <1>1, <3>1
    <3>6. StringAt(args, j) + padded_length(args[j]) <= StringAt(args, k)
      BY <1>len, <2>2, <3>2, <3>3, <3>4, <3>5, SMTT(30)
    <3>7. /\ StringAt(args, j) \div 4 \in Nat /\ StringAt(args, j) = 4 * (StringAt(args, j) \div 4)
          /\ StringAt(args, k) \div 4 \in Nat /\ StringAt(args, k) = 4 * (StringAt(args, k) \div 4)
      BY <1>1, <3>1
    <3> DEFINE x == StringAt(args, j) \div 4
               y == StringAt(args, k) \div 4
               z == padded_length(args[j]) \div 4
    <3>8. x \in Nat /\ y \in Nat /\ z \in Nat /\ 4 * x + 4 * z <= 4 * y
      BY <2>3, <3>6, <3>7
    <3> HIDE DEF x, y, z
    <3>9. x + z <= y
      BY <3>8, SMTT(30)
    <3> QED
      BY <3>9 DEF x, y, z
  <2> QED
    BY <2>3, <2>4
<1> QED
  BY <1>1, <1>2

\* A number below the modulus is its own remainder: an offset that fits in the
\* byte that is kept of it.
LEMMA SmallMod ==
    ASSUME NEW m \in Nat, NEW n \in Nat \ {0}, m < n
    PROVE  m % n = m
BY SMTT(30)

\* The three alternatives of a CASE, one at a time.
LEMMA ThreeCases ==
    ASSUME NEW x, NEW w, NEW v, NEW S, NEW e, NEW f, NEW g,
           x = CASE w = v -> e [] w \in S -> f [] OTHER -> g
    PROVE  (w = v /\ w \notin S => x = e) /\ (w # v /\ w \in S => x = f) /\ (w # v /\ w \notin S => x = g)
BY SMTT(30)

\* The words of string i lie behind the pointers, and the pointers before i
\* stay.
LEMMA WordsApart ==
    ASSUME NEW len \in Nat, NEW W \in Nat, NEW i \in 1 .. len, NEW at \in Nat, NEW n \in Nat,
           at >= len + 1, at + n <= W
    PROVE  /\ \A w \in 0 .. W - 1 : w < at => w \notin at .. at + n - 1
           /\ \A w \in i .. len : w \in 0 .. W - 1 /\ w # i - 1 /\ w < at /\ w \in i - 1 .. len
           /\ \A j \in 1 .. i :
                 /\ j - 1 \in 0 .. W - 1 /\ j - 1 < at
                 /\ j # i => j - 1 # i - 1 /\ j \in 1 .. i - 1
           /\ \A j \in 1 .. i : j # i =>
                 /\ j \in 1 .. len /\ j \in 1 .. len + 1
                 /\ i \in j + 1 .. len + 1
BY SMTT(30)

\* Word k of the string that is being copied is in kbuf and is no pointer.
LEMMA OwnWord ==
    ASSUME NEW len \in Nat, NEW W \in Nat, NEW i \in Nat, i <= len, NEW at \in Nat, NEW n \in Nat,
           at >= len + 1, at + n <= W, NEW k \in 0 .. n - 1
    PROVE  /\ at + k \in 0 .. W - 1 /\ at + k # i - 1
           /\ at + k \in at .. at + n - 1 /\ (at + k) - at = k
BY SMTT(30)

\* A word of an earlier string lies before the string that is being copied.
LEMMA WordBelow ==
    ASSUME NEW len \in Nat, NEW W \in Nat, NEW i \in Nat, i <= len, NEW at \in Nat, NEW n \in Nat, at + n <= W,
           NEW x \in Nat, NEW m \in Nat, NEW k \in 0 .. m - 1, x >= len + 1, x + m <= at
    PROVE  x + k \in 0 .. W - 1 /\ x + k # i - 1 /\ x + k < at
BY SMTT(30)

\* copy_args_to_kbuf: one more argument is in the buffer, where no other is.
LEMMA KbufStep ==
    ASSUME NEW p, NEW args \in Seq(Nat), args = pr[p].args, NEW i \in 1 .. Len(args),
           DOMAIN kbuf = 0 .. ARG_WORDS - 1, Fits(args), Holds(p, args, kbuf, i - 1)
    PROVE  Holds(p, args, KbufWith(p, i), i)
<1> DEFINE at == StringAt(args, i) \div 4
           n == padded_length(args[i]) \div 4
           top == StringAt(args, Len(args) + 1) \div 4
           kb2 == KbufWith(p, i)
<1>len. Len(args) \in Nat /\ ARG_WORDS \in Nat /\ BYTE \in Nat \ {0} /\ i \in Nat /\ i <= Len(args) /\ i >= 1
  BY ExecAssumption, SMTT(30)
<1>1. /\ \A j \in 1 .. Len(args) + 1 :
           /\ StringAt(args, j) \in Nat
           /\ StringAt(args, j) \div 4 \in Nat /\ StringAt(args, j) = 4 * (StringAt(args, j) \div 4)
           /\ StringAt(args, j) \div 4 >= Len(args) + 1
      /\ \A j \in 1 .. Len(args) :
           /\ padded_length(args[j]) \div 4 \in Nat
           /\ \A k \in j + 1 .. Len(args) + 1 :
                 StringAt(args, j) \div 4 + padded_length(args[j]) \div 4 <= StringAt(args, k) \div 4
  BY StringWords
<1>2. at \in Nat /\ n \in Nat /\ at >= Len(args) + 1 /\ at + n <= top
  <2>1. i \in 1 .. Len(args) + 1 /\ Len(args) + 1 \in i + 1 .. Len(args) + 1
    BY <1>len, SMTT(30)
  <2> QED
    BY <2>1, <1>1
<1>3. top \in Nat /\ top <= ARG_WORDS
  <2>1. Len(args) + 1 \in 1 .. Len(args) + 1
    BY <1>len, SMTT(30)
  <2>2. top \in Nat /\ StringAt(args, Len(args) + 1) = 4 * top
    BY <2>1, <1>1
  <2>3. 4 * top <= 4 * ARG_WORDS
    BY <2>2 DEF Fits
  <2> HIDE DEF top
  <2> QED
    BY <2>2, <2>3, <1>len, SMTT(30)
<1>at. at = StringAt(args, i) \div 4 /\ n = padded_length(args[i]) \div 4
  OBVIOUS
<1>in. args[i] \in Nat /\ i \in 1 .. Len(args)
  BY <1>len, SMTT(30)
<1> HIDE DEF top, at, n, kb2
<1>words. at + n <= ARG_WORDS
  BY <1>2, <1>3, <1>len, SMTT(30)
<1>low. \A w \in 0 .. ARG_WORDS - 1 : w < at => w \notin at .. at + n - 1
  BY <1>len, <1>2, <1>words, WordsApart
<1>zero. \A w \in i .. Len(args) : w \in 0 .. ARG_WORDS - 1 /\ w # i - 1 /\ w < at /\ w \in i - 1 .. Len(args)
  BY <1>len, <1>2, <1>words, WordsApart
<1>vec. \A j \in 1 .. i :
          /\ j - 1 \in 0 .. ARG_WORDS - 1 /\ j - 1 < at
          /\ j # i => j - 1 # i - 1 /\ j \in 1 .. i - 1
  BY <1>len, <1>2, <1>words, WordsApart
<1>held. \A j \in 1 .. i - 1 : \A k \in 0 .. padded_length(args[j]) \div 4 - 1 :
            kbuf[StringAt(args, j) \div 4 + k] = Str(p, j, k)
  BY DEF Holds
<1>before. \A j \in 1 .. i : j # i =>
             /\ j \in 1 .. Len(args) /\ j \in 1 .. Len(args) + 1
             /\ i \in j + 1 .. Len(args) + 1
  BY <1>len, <1>2, <1>words, WordsApart
<1>off. i \in 1 .. i /\ i - 1 \in 0 .. ARG_WORDS - 1 /\ i - 1 < at
  <2>1. i \in 1 .. i
    BY <1>len, SMTT(30)
  <2> QED
    BY <2>1, <1>vec
<1>4. ASSUME NEW w \in 0 .. ARG_WORDS - 1
      PROVE  /\ w = i - 1 => kb2[w] = Offset(StringAt(args, i) % BYTE)
             /\ w # i - 1 /\ w \in at .. at + n - 1 => kb2[w] = Str(p, i, w - at)
             /\ w # i - 1 /\ w \notin at .. at + n - 1 => kb2[w] = kbuf[w]
  <2> DEFINE in == at .. at + n - 1
             offset == Offset(StringAt(args, i) % BYTE)
             string == Str(p, i, w - at)
  <2>1. kb2[w] = CASE w = i - 1 -> offset [] w \in in -> string [] OTHER -> kbuf[w]
    BY DEF KbufWith, at, n, kb2
  <2> HIDE DEF in, offset, string
  <2>a. w = i - 1 => w \notin in
    BY <1>off, <1>low DEF in
  <2>2. /\ w = i - 1 => kb2[w] = offset
        /\ w # i - 1 /\ w \in in => kb2[w] = string
        /\ w # i - 1 /\ w \notin in => kb2[w] = kbuf[w]
    BY <2>1, <2>a, ThreeCases
  <2> QED
    BY <2>2 DEF in, offset, string
<1>5. ASSUME NEW w \in 0 .. ARG_WORDS - 1, w # i - 1, w < at
      PROVE  kb2[w] = kbuf[w]
  <2>1. w \notin at .. at + n - 1
    BY <1>5, <1>low
  <2> QED
    BY <2>1, <1>4, <1>5
<1>6. ASSUME NEW w \in i .. Len(args)
      PROVE  kb2[w] = Zero
  <2>1. w \in 0 .. ARG_WORDS - 1 /\ w # i - 1 /\ w < at /\ w \in i - 1 .. Len(args)
    BY <1>zero
  <2>2. kbuf[w] = Zero
    BY <2>1 DEF Holds
  <2> QED
    BY <2>1, <2>2, <1>5
<1>7. ASSUME NEW j \in 1 .. i
      PROVE  kb2[j - 1] = Offset(StringAt(args, j))
  <2>1. j - 1 \in 0 .. ARG_WORDS - 1 /\ j - 1 < at /\ (j # i => j - 1 # i - 1 /\ j \in 1 .. i - 1)
    BY <1>vec
  <2>2. CASE j = i
    <3>1. i \in 1 .. Len(args) + 1
      BY <1>len, SMTT(30)
    <3>2. StringAt(args, i) \in Nat /\ StringAt(args, i) < BYTE
      BY <3>1, <1>1 DEF Fits
    <3>3. StringAt(args, i) % BYTE = StringAt(args, i)
      BY <3>2, <1>len, SmallMod
    <3> QED
      BY <2>1, <3>3, <1>4, <2>2
  <2>3. CASE j # i
    <3>1. kbuf[j - 1] = Offset(StringAt(args, j))
      BY <2>1, <2>3 DEF Holds
    <3> QED
      BY <2>1, <2>3, <3>1, <1>5
  <2> QED
    BY <2>2, <2>3
<1>8. ASSUME NEW j \in 1 .. i, NEW k \in 0 .. padded_length(args[j]) \div 4 - 1
      PROVE  kb2[StringAt(args, j) \div 4 + k] = Str(p, j, k)
  <2>1. CASE j = i
    <3>1. k \in 0 .. n - 1
      BY <2>1 DEF n
    <3>2. /\ at + k \in 0 .. ARG_WORDS - 1 /\ at + k # i - 1
          /\ at + k \in at .. at + n - 1 /\ (at + k) - at = k
      <4>1. Len(args) \in Nat /\ ARG_WORDS \in Nat /\ i \in Nat /\ i <= Len(args)
        BY <1>len
      <4>2. at \in Nat /\ n \in Nat /\ at >= Len(args) + 1
        BY <1>2
      <4> QED
        BY <3>1, <4>1, <4>2, <1>words, OwnWord, SMTT(30)
    <3>3. kb2[at + k] = Str(p, i, k)
      BY <3>2, <1>4
    <3> QED
      BY <3>3, <2>1 DEF at
  <2>2. CASE j # i
    <3>1. j \in 1 .. i - 1 /\ j \in 1 .. Len(args) /\ j \in 1 .. Len(args) + 1 /\ i \in j + 1 .. Len(args) + 1
      BY <2>2, <1>vec, <1>before
    <3> DEFINE x == StringAt(args, j) \div 4
               m == padded_length(args[j]) \div 4
    <3>2. x \in Nat /\ m \in Nat /\ x + m <= at /\ x >= Len(args) + 1
      BY <3>1, <1>1 DEF at
    <3>3. k \in 0 .. m - 1
      OBVIOUS
    <3>4. kbuf[x + k] = Str(p, j, k)
      BY <3>1, <1>held
    <3> HIDE DEF x, m
    <3>5. x + k \in 0 .. ARG_WORDS - 1 /\ x + k # i - 1 /\ x + k < at
      BY <3>2, <3>3, <1>len, <1>2, <1>words, WordBelow
    <3>6. kb2[x + k] = Str(p, j, k)
      BY <3>4, <3>5, <1>5
    <3> QED
      BY <3>6 DEF x
  <2> QED
    BY <2>1, <2>2
<1> QED
  BY <1>6, <1>7, <1>8 DEF Holds, kb2

\* change_kbuf_for_userstack: a buffer with all the arguments becomes what main()
\* is to find.
LEMMA ChangedRight ==
    ASSUME NEW p, NEW args \in Seq(Nat), args = pr[p].args,
           DOMAIN kbuf = 0 .. ARG_WORDS - 1, Fits(args), Holds(p, args, kbuf, Len(args))
    PROVE  Right(p, Changed(Len(args)))
<1>len. Len(args) \in Nat /\ ARG_WORDS \in Nat
  BY ExecAssumption, SMTT(30)
<1>1. /\ \A j \in 1 .. Len(args) + 1 :
           /\ StringAt(args, j) \div 4 \in Nat /\ StringAt(args, j) = 4 * (StringAt(args, j) \div 4)
           /\ StringAt(args, j) \div 4 >= Len(args) + 1
      /\ \A j \in 1 .. Len(args) :
           /\ padded_length(args[j]) \div 4 \in Nat
           /\ \A k \in j + 1 .. Len(args) + 1 :
                 StringAt(args, j) \div 4 + padded_length(args[j]) \div 4 <= StringAt(args, k) \div 4
  BY StringWords
<1> DEFINE top == StringAt(args, Len(args) + 1) \div 4
           kb == Changed(Len(args))
<1>2. top \in Nat /\ top <= ARG_WORDS /\ top >= Len(args) + 1
  <2>1. Len(args) + 1 \in 1 .. Len(args) + 1
    BY <1>len, SMTT(30)
  <2>2. top \in Nat /\ StringAt(args, Len(args) + 1) = 4 * top /\ top >= Len(args) + 1
    BY <2>1, <1>1
  <2>3. 4 * top <= 4 * ARG_WORDS
    BY <2>2 DEF Fits
  <2> HIDE DEF top
  <2> QED
    BY <2>2, <2>3, <1>len, SMTT(30)
<1>3. ASSUME NEW w \in 0 .. ARG_WORDS - 1
      PROVE  /\ w < Len(args) => kb[w] = Pointer(IF kbuf[w][1] \in {"offset", "pointer"} THEN kbuf[w][3] ELSE 0)
             /\ ~(w < Len(args)) => kb[w] = kbuf[w]
  BY DEF Changed
<1> HIDE DEF kb
<1>4. kb[Len(args)] = Zero
  <2>1. Len(args) \in 0 .. ARG_WORDS - 1 /\ ~(Len(args) < Len(args)) /\ Len(args) \in Len(args) .. Len(args)
    BY <1>len, <1>2, SMTT(30)
  <2> QED
    BY <2>1, <1>3 DEF Holds
<1>5. ASSUME NEW j \in 1 .. Len(args)
      PROVE  kb[j - 1] = Pointer(StringAt(args, j))
  <2>1. j - 1 \in 0 .. ARG_WORDS - 1 /\ j - 1 < Len(args)
    BY <1>len, <1>2, SMTT(30)
  <2>2. kbuf[j - 1] = Offset(StringAt(args, j))
    BY DEF Holds
  <2>3. kbuf[j - 1][1] = "offset" /\ kbuf[j - 1][3] = StringAt(args, j)
    BY <2>2, SMTT(30) DEF Offset
  <2> QED
    BY <2>1, <2>3, <1>3
<1>6. ASSUME NEW j \in 1 .. Len(args), NEW k \in 0 .. padded_length(args[j]) \div 4 - 1
      PROVE  kb[StringAt(args, j) \div 4 + k] = Str(p, j, k)
  <2>1. j \in 1 .. Len(args) + 1 /\ Len(args) + 1 \in j + 1 .. Len(args) + 1
    BY <1>len, SMTT(30)
  <2> DEFINE x == StringAt(args, j) \div 4
             m == padded_length(args[j]) \div 4
  <2>2. x \in Nat /\ m \in Nat /\ x + m <= top /\ x >= Len(args) + 1
    BY <2>1, <1>1
  <2>3. kbuf[x + k] = Str(p, j, k)
    BY DEF Holds
  <2>4. k \in 0 .. m - 1
    OBVIOUS
  <2> HIDE DEF x, m
  <2>5. x + k \in 0 .. ARG_WORDS - 1 /\ ~(x + k < Len(args))
    BY <1>len, <1>2, <2>2, <2>4, SMTT(30)
  <2>6. kb[x + k] = Str(p, j, k)
    BY <2>3, <2>5, <1>3
  <2> QED
    BY <2>6 DEF x
<1> QED
  BY <1>4, <1>5, <1>6 DEF Right, kb

-----------------------------------------------------------------------------
(* The copies stay below USERSPACETOP *)

\* The remainder of a sum that wraps around the address space once.
LEMMA WrappedMod ==
    ASSUME NEW m \in Nat, NEW n \in Nat \ {0}, n <= m, m < n + n
    PROVE  m % n = m - n
BY SMTT(30)

\* copycheck yields a number.
LEMMA CopycheckInt ==
    ASSUME NEW bot \in Int, NEW len \in Int
    PROVE  copycheck(bot, len) \in Int
<1>1. copycheck(bot, len) \in {0, USERSPACETOP - bot, len}
  BY DEF copycheck
<1> QED
  BY <1>1, ExecAssumption, SMTT(30)

\* copycheck: what may be copied ends in user space, also when the last address
\* is past the end of the address range.
LEMMA CopycheckBound ==
    ASSUME NEW bot \in Nat, NEW len \in Nat \ {0}, len <= ADDRSIZE, copycheck(bot, len) > 0
    PROVE  bot + copycheck(bot, len) <= USERSPACETOP
<1> DEFINE x == bot + len - 1
           top == x % ADDRSIZE
<1>1. x \in Nat /\ ADDRSIZE \in Nat \ {0} /\ USERSPACETOP \in Nat
  BY ExecAssumption, SMTT(30)
<1>2. ~(top < bot) /\ ~(bot >= USERSPACETOP)
  <2>1. top < bot \/ bot >= USERSPACETOP => copycheck(bot, len) = 0
    BY DEF copycheck
  <2> QED
    BY <2>1, SMTT(30)
<1>3. copycheck(bot, len) = IF top >= USERSPACETOP THEN USERSPACETOP - bot ELSE len
  BY <1>2 DEF copycheck
<1>4. top \in Nat /\ top < ADDRSIZE
  <2> HIDE DEF x
  <2> QED
    BY <1>1, SMTT(30)
<1>5. CASE x < ADDRSIZE
  <2>1. top = x
    BY <1>1, <1>5, SmallMod
  <2> HIDE DEF top
  <2> QED
    BY <1>1, <1>2, <1>3, <2>1, SMTT(30)
<1>6. CASE ~(x < ADDRSIZE)
  <2>1. CASE bot >= ADDRSIZE
    <3> HIDE DEF top
    <3> QED
      BY <2>1, <1>1, <1>2, <1>4, SMTT(30)
  <2>2. CASE ~(bot >= ADDRSIZE)
    <3>1. ADDRSIZE <= x /\ x < ADDRSIZE + ADDRSIZE
      BY <1>1, <1>6, <2>2, SMTT(30)
    <3>2. top = x - ADDRSIZE
      BY <1>1, <3>1, WrappedMod
    <3> HIDE DEF top
    <3>3. top < bot
      BY <1>1, <3>2, SMTT(30)
    <3> QED
      BY <3>3, <1>2
  <2> QED
    BY <2>1, <2>2
<1> QED
  BY <1>5, <1>6

\* copystr copies no more than the string, the room and the stopping length.
LEMMA CopystrBound ==
    ASSUME NEW slen \in Int, NEW maxlen \in Int, NEW stoplen \in Int
    PROVE  /\ copystr(slen, maxlen, stoplen) \in Int /\ copystr(slen, maxlen, stoplen) <= slen
           /\ copystr(slen, maxlen, stoplen) <= maxlen /\ copystr(slen, maxlen, stoplen) <= stoplen
BY SMTT(30) DEF copystr, Min2

\* copyinstr never leaves user space.
LEMMA CopyinstrBound ==
    ASSUME NEW p, NEW c, NEW page, NEW bot \in UserPtrs, NEW slen \in Nat
    PROVE  copyinstr(p, c, page, bot, slen).stray = FALSE
<1> DEFINE maxlen == 4 * ARG_WORDS
           cc == copycheck(bot, maxlen)
           n == copystr(slen, maxlen, cc)
<1>1. bot \in Nat /\ maxlen \in Nat /\ maxlen <= ADDRSIZE /\ USERSPACETOP \in Nat /\ bot \in Int /\ maxlen \in Int /\ slen \in Int
  BY ExecAssumption, SMTT(30)
<1>2. cc \in Int
  BY <1>1, CopycheckInt
<1> HIDE DEF cc
<1>3. n \in Int /\ n <= maxlen /\ n <= cc
  BY <1>1, <1>2, CopystrBound
<1>4. ASSUME n > 0 PROVE bot + n <= USERSPACETOP
  <2>1. maxlen \in Nat \ {0} /\ cc > 0
    <3> HIDE DEF n, maxlen
    <3> QED
      BY <1>1, <1>2, <1>3, <1>4, SMTT(30)
  <2>2. bot + cc <= USERSPACETOP
    BY <1>1, <2>1, CopycheckBound DEF cc
  <2> HIDE DEF n, maxlen
  <2> QED
    BY <1>1, <1>2, <1>3, <2>2, SMTT(30)
<1>5. ~Strays(bot, n)
  <2> HIDE DEF n, maxlen
  <2> QED
    BY <1>1, <1>3, <1>4, SMTT(30) DEF Strays
<1>6. copyinstr(p, c, page, bot, slen).stray = Strays(bot, n)
  BY DEF copyinstr, cc
<1>7. Strays(bot, n) = FALSE
  BY <1>5 DEF Strays
<1> QED
  BY <1>6, <1>7

\* runprogram's strings end at or below where they start from.
LEMMA CopyoutstrBound ==
    ASSUME NEW p, NEW c, NEW page, NEW args \in Seq(Nat), NEW i \in 1 .. Len(args)
    PROVE  copyoutstr(p, c, page, USERSPACETOP - Padded(args, i), args[i]).stray = FALSE
<1> DEFINE bot == USERSPACETOP - Padded(args, i)
           slen == args[i]
           cc == copycheck(bot, slen)
           n == copystr(slen, slen, cc)
<1>1. i \in 0 .. Len(args) /\ i - 1 \in 0 .. Len(args) /\ slen \in Nat /\ slen \in Int /\ USERSPACETOP \in Nat
  BY ExecAssumption, SMTT(30)
<1>2. Padded(args, i) \in Nat /\ Padded(args, i - 1) \in Nat
  BY <1>1, PaddedMono
<1>3. Padded(args, i) = Padded(args, i - 1) + padded_length(slen)
  BY PaddedStep
<1>4. padded_length(slen) \in Nat /\ padded_length(slen) >= slen
  BY <1>1, PaddedLength
<1> HIDE DEF slen
<1>5. bot \in Int /\ bot + slen <= USERSPACETOP
  BY <1>1, <1>2, <1>3, <1>4, SMTT(30)
<1> HIDE DEF bot
<1>6. cc \in Int
  BY <1>1, <1>5, CopycheckInt
<1> HIDE DEF cc
<1>7. n \in Int /\ n <= slen
  BY <1>1, <1>6, CopystrBound
<1> HIDE DEF n
<1>8. ~Strays(bot, n)
  BY <1>1, <1>5, <1>7, SMTT(30) DEF Strays
<1>9. copyoutstr(p, c, page, bot, slen).stray = Strays(bot, n)
  BY DEF copyoutstr, cc, n
<1>10. Strays(bot, n) = FALSE
  BY <1>8 DEF Strays
<1> QED
  BY <1>9, <1>10 DEF bot, slen

\* copyout of a range that ends in user space never leaves it.
LEMMA CopyoutBound ==
    ASSUME NEW p, NEW c, NEW page, NEW bot \in Int, NEW len \in Int, bot + len <= USERSPACETOP
    PROVE  copyout(p, c, page, bot, len).stray = FALSE
<1>1. ~Strays(bot, len)
  BY ExecAssumption, SMTT(30) DEF Strays
<1> QED
  BY <1>1 DEF copyout

-----------------------------------------------------------------------------
(* A step of one process *)

Dead == {"none", "exited", "failed"}

\* The record of p after a step that leaves the other processes' alone.
Becomes(p, pc, kind, as, other, args, i, argv, spoiled) ==
    /\ PrType'
    /\ \A q \in Proc \ {p} : pr'[q] = pr[q]
    /\ pr'[p].pc = pc /\ pr'[p].kind = kind /\ pr'[p].as = as /\ pr'[p].other = other
    /\ pr'[p].args = args /\ pr'[p].i = i /\ pr'[p].argv = argv /\ pr'[p].spoiled = spoiled

\* The fields of a process's record.
LEMMA Fields ==
    ASSUME Types, NEW p \in Proc
    PROVE  /\ ProcType(pr[p])
           /\ pr[p].as \in AS \cup {None} /\ pr[p].other \in AS \cup {None}
           /\ pr[p].kind \in {"none", "exec", "run"}
           /\ pr[p].args \in Seq(Nat) /\ pr[p].i \in Nat
           /\ pr[p].spoiled \in BOOLEAN /\ pr[p].argv \in {"none", "right", "wrong"}
BY DEF Types, PrType, ProcType

\* What a process has at its place does not depend on the others' memory.
LEMMA PlaceKept ==
    ASSUME NEW q, Place(q), pr'[q] = pr[q],
           \A a : a \in {pr[q].as, pr[q].other} /\ a # None => asp'[a] = asp[a]
    PROVE  Place(q)'
<1>1. Loaded(pr[q].as) => Loaded(pr[q].as)'
  BY DEF Loaded, SetUp
<1>2. Loaded(pr[q].other) => Loaded(pr[q].other)'
  BY DEF Loaded, SetUp
<1>3. pr[q].as # None /\ asp[pr[q].as].done => asp'[pr[q].as].done
  OBVIOUS
<1> QED
  BY <1>1, <1>2, <1>3 DEF Place

\* A step that changes p, and of the memory only what no other process has.
LEMMA OneStep ==
    ASSUME ExecInv, NEW p \in Proc, Types',
           \A q \in Proc \ {p} : pr'[q] = pr[q],
           \A q \in Proc \ {p} : \A a : a \in {pr[q].as, pr[q].other} /\ a # None => asp'[a] = asp[a],
           Place(p)', Counts(p)', Owned', Running', \A d \in CPU : MapsOwn(d)',
           \A q \in Proc \ {p} : exec_lock = q => exec_lock' = q,
           pr'[p].kind = "exec" => exec_lock' = p,
           kbuf' = kbuf \/ pr[p].kind = "exec",
           Buffered(p)',
           pr'[p].argv = "wrong" => pr'[p].spoiled,
           ~strayed'
    PROVE  ExecInv'
<1>1. \A q \in Proc : Place(q)'
  <2>1. ASSUME NEW q \in Proc \ {p} PROVE Place(q)'
    BY <2>1, PlaceKept DEF ExecInv
  <2> QED
    BY <2>1
<1>2. \A q \in Proc : Counts(q)'
  BY DEF ExecInv, Counts
<1>3. \A q \in Proc : Buffered(q)'
  <2>1. ASSUME NEW q \in Proc, q # p PROVE Buffered(q)'
    <3>1. pr'[q] = pr[q] /\ Buffered(q)
      BY <2>1 DEF ExecInv
    <3>2. CASE kbuf' = kbuf
      BY <3>1, <3>2 DEF Buffered
    <3>3. CASE pr[p].kind = "exec"
      <4>1. pr[q].kind # "exec"
        BY <3>3, <2>1 DEF ExecInv, Locked
      <4> QED
        BY <4>1, <3>1 DEF Buffered
    <3> QED
      BY <3>2, <3>3
  <2> QED
    BY <2>1
<1>4. Locked'
  <2>1. ASSUME NEW q \in Proc, q # p, pr'[q].kind = "exec" PROVE exec_lock' = q
    BY <2>1 DEF ExecInv, Locked
  <2> QED
    BY <2>1 DEF Locked
<1>5. ArgsFaithful'
  <2>1. ASSUME NEW q \in Proc, q # p, pr'[q].argv = "wrong" PROVE pr'[q].spoiled
    BY <2>1 DEF ExecInv, ArgsFaithful
  <2> QED
    BY <2>1 DEF ArgsFaithful
<1> QED
  BY <1>1, <1>2, <1>3, <1>4, <1>5 DEF ExecInv

\* ... on the CPU that runs it.
LEMMA LocalStep ==
    ASSUME ExecInv, NEW p \in Proc, NEW c \in CPU, run[c] = p,
           Types', run' = run,
           \A q \in Proc \ {p} : pr'[q] = pr[q],
           \A q \in Proc \ {p} : \A a : a \in {pr[q].as, pr[q].other} /\ a # None => asp'[a] = asp[a],
           pr'[p].pc \notin Dead, Place(p)', Counts(p)',
           Owned',
           \A d \in CPU \ {c} : tlb'[d] = tlb[d] \/ MapsOwn(d)',
           MapsOwn(c)',
           \A q \in Proc \ {p} : exec_lock = q => exec_lock' = q,
           pr'[p].kind = "exec" => exec_lock' = p,
           kbuf' = kbuf \/ pr[p].kind = "exec",
           Buffered(p)',
           pr'[p].argv = "wrong" => pr'[p].spoiled,
           ~strayed'
    PROVE  ExecInv'
<1>none. p # None
  BY ExecAssumption
<1>1. Running'
  <2>1. ASSUME NEW d \in CPU, run'[d] # None
        PROVE  pr'[run'[d]].pc \notin {"none", "exited", "failed"}
    <3>1. CASE run[d] = p
      BY <3>1 DEF Dead
    <3>2. CASE run[d] # p
      <4>1. run[d] \in Proc /\ pr[run[d]].pc \notin {"none", "exited", "failed"}
        BY <2>1 DEF ExecInv, Types, Running
      <4> QED
        BY <4>1, <3>2
    <3> QED
      BY <3>1, <3>2
  <2>2. \A d, e \in CPU : run'[d] # None /\ run'[d] = run'[e] => d = e
    BY DEF ExecInv, Running
  <2> QED
    BY <2>1, <2>2 DEF Running
<1>2. \A d \in CPU : MapsOwn(d)'
  <2>1. ASSUME NEW d \in CPU, d # c, tlb'[d] = tlb[d] PROVE MapsOwn(d)'
    <3>1. MapsOwn(d)
      BY DEF ExecInv
    <3>2. run[d] # p
      BY <2>1, <1>none DEF ExecInv, Running
    <3>3. run[d] # None => pr'[run[d]] = pr[run[d]]
      BY <3>2 DEF ExecInv, Types
    <3> QED
      BY <3>1, <3>3, <2>1 DEF MapsOwn
  <2> QED
    BY <2>1
<1> QED
  BY <1>1, <1>2, OneStep

\* A step that leaves the address spaces alone.
LEMMA AspSame ==
    ASSUME Types, asp' = asp
    PROVE  AspType' /\ \A a \in AS : asp'[a] = asp[a] /\ asp'[a].live = asp[a].live
BY DEF Types, AspType

\* Ownership depends only on who has which address space and which are in use.
LEMMA OwnedKept ==
    ASSUME Owned, Types, \A q \in Proc : pr'[q].as = pr[q].as /\ pr'[q].other = pr[q].other,
           \A a \in AS : asp'[a].live = asp[a].live
    PROVE  Owned'
<1>1. \A q \in Proc : pr[q].as \in AS \cup {None} /\ pr[q].other \in AS \cup {None}
  BY Fields
<1>2. ASSUME NEW q \in Proc
      PROVE  /\ pr'[q].as # None => asp'[pr'[q].as].live
             /\ pr'[q].other # None => asp'[pr'[q].other].live
  BY <1>1 DEF Owned
<1>3. ASSUME NEW q \in Proc, NEW r \in Proc
      PROVE  /\ pr'[q].as # None /\ pr'[q].as = pr'[r].as => q = r
             /\ pr'[q].other # None /\ pr'[q].other = pr'[r].other => q = r
             /\ pr'[q].as # None => pr'[q].as # pr'[r].other
  <2>1. /\ pr[q].as # None /\ pr[q].as = pr[r].as => q = r
        /\ pr[q].other # None /\ pr[q].other = pr[r].other => q = r
        /\ pr[q].as # None => pr[q].as # pr[r].other
    BY DEF Owned
  <2>2. pr'[q].as = pr[q].as /\ pr'[q].other = pr[q].other /\ pr'[r].as = pr[r].as /\ pr'[r].other = pr[r].other
    OBVIOUS
  <2> QED
    BY <2>1, <2>2
<1>4. ASSUME NEW a \in AS, asp'[a].live
      PROVE  \E q \in Proc : pr'[q].as = a \/ pr'[q].other = a
  <2>1. asp[a].live
    BY <1>4
  <2>2. PICK q \in Proc : pr[q].as = a \/ pr[q].other = a
    BY <2>1 DEF Owned
  <2> QED
    BY <2>2
<1> QED
  BY <1>2, <1>3, <1>4 DEF Owned

\* The address spaces of two processes are not the same.
LEMMA OwnApart ==
    ASSUME Types, Owned, NEW p \in Proc, NEW q \in Proc, q # p
    PROVE  /\ pr[q].as # None => pr[q].as \in AS /\ pr[q].as # pr[p].as /\ pr[q].as # pr[p].other
           /\ pr[q].other # None => pr[q].other \in AS /\ pr[q].other # pr[p].as /\ pr[q].other # pr[p].other
<1>1. pr[q].as \in AS \cup {None} /\ pr[q].other \in AS \cup {None}
  BY Fields
<1>2. /\ pr[q].as # None /\ pr[q].as = pr[p].as => q = p
      /\ pr[q].as # None => pr[q].as # pr[p].other
      /\ pr[q].other # None /\ pr[q].other = pr[p].other => q = p
      /\ pr[p].as # None => pr[p].as # pr[q].other
  BY DEF Owned
<1> QED
  BY <1>1, <1>2

\* A step that changes only a process's own address spaces changes nobody
\* else's.
LEMMA OthersMemory ==
    ASSUME Types, Owned, NEW p \in Proc, \A a \in AS : a \notin {pr[p].as, pr[p].other} => asp'[a] = asp[a]
    PROVE  \A q \in Proc \ {p} : \A a : a \in {pr[q].as, pr[q].other} /\ a # None => asp'[a] = asp[a]
<1>1. ASSUME NEW q \in Proc, q # p
      PROVE  /\ pr[q].as # None => asp'[pr[q].as] = asp[pr[q].as]
             /\ pr[q].other # None => asp'[pr[q].other] = asp[pr[q].other]
  <2>1. /\ pr[q].as # None => pr[q].as \in AS /\ pr[q].as # pr[p].as /\ pr[q].as # pr[p].other
        /\ pr[q].other # None => pr[q].other \in AS /\ pr[q].other # pr[p].as /\ pr[q].other # pr[p].other
    BY <1>1, OwnApart
  <2> QED
    BY <2>1
<1> QED
  BY <1>1

\* A step of p that changes at most the contents of its own address space.
LEMMA OwnStep ==
    ASSUME ExecInv, NEW p \in Proc, NEW c \in CPU, run[c] = p,
           PrType', \A q \in Proc \ {p} : pr'[q] = pr[q],
           pr'[p].as = pr[p].as, pr'[p].other = pr[p].other,
           run' = run, file' \in Seq(Int), panicked' \in BOOLEAN, strayed' = FALSE,
           kbuf' = [w \in 0 .. ARG_WORDS - 1 |-> kbuf'[w]], kbuf' = kbuf \/ pr[p].kind = "exec",
           AspType', \A a \in AS : asp'[a].live = asp[a].live,
           \A a \in AS : a # pr[p].as => asp'[a] = asp[a],
           tlb' \in [CPU -> SUBSET TLBEntry], \A d \in CPU \ {c} : tlb'[d] = tlb[d],
           pr'[p].pc \notin Dead, Place(p)', Counts(p)', MapsOwn(c)',
           \A q \in Proc \ {p} : exec_lock = q => exec_lock' = q,
           pr'[p].kind = "exec" => exec_lock' = p,
           Buffered(p)', pr'[p].argv = "wrong" => pr'[p].spoiled
    PROVE  ExecInv'
<1>1. Types'
  BY DEF ExecInv, Types
<1>2. Owned'
  BY OwnedKept DEF ExecInv
<1>3. \A q \in Proc \ {p} : \A a : a \in {pr[q].as, pr[q].other} /\ a # None => asp'[a] = asp[a]
  BY OthersMemory DEF ExecInv
<1>4. \A d \in CPU \ {c} : tlb'[d] = tlb[d] \/ MapsOwn(d)'
  OBVIOUS
<1> QED
  BY <1>1, <1>2, <1>3, <1>4, LocalStep

\* Once the arguments are in kbuf, execv may go on, or give up, with kbuf as it
\* is.
LEMMA BufferedMove ==
    ASSUME NEW p, Buffered(p), kbuf' = kbuf,
           pr'[p].kind = pr[p].kind, pr'[p].args = pr[p].args, pr'[p].spoiled = pr[p].spoiled,
           pr'[p].pc # "count", pr'[p].pc \in Building => pr[p].pc \in Building
    PROVE  Buffered(p)'
BY DEF Buffered

\* as_activate empties the TLB of the CPU, which then maps nothing foreign.
LEMMA Flushed ==
    ASSUME Types, NEW p \in Proc, NEW c \in CPU, run[c] = p, run' = run,
           pr'[p].as = pr[p].as, tlb' = as_activate(c, pr[p].as)
    PROVE  /\ tlb' \in [CPU -> SUBSET TLBEntry] /\ \A d \in CPU \ {c} : tlb'[d] = tlb[d]
           /\ MapsOwn(c)'
<1>1. tlb \in [CPU -> SUBSET TLBEntry]
  BY DEF Types
<1>2. CASE pr[p].as = None
  BY <1>1, <1>2 DEF as_activate, MapsOwn
<1>3. CASE pr[p].as # None
  <2>1. tlb' = [tlb EXCEPT ![c] = {}]
    BY <1>3 DEF as_activate
  <2>2. tlb'[c] = {} /\ tlb' \in [CPU -> SUBSET TLBEntry] /\ \A d \in CPU \ {c} : tlb'[d] = tlb[d]
    BY <1>1, <2>1
  <2> QED
    BY <2>2 DEF MapsOwn
<1> QED
  BY <1>2, <1>3

\* vm_fault puts a page of the process's own address space in the TLB.
LEMMA TouchedOwn ==
    ASSUME ExecInv, NEW p \in Proc, NEW c \in CPU, run[c] = p, run' = run, NEW page \in Int,
           pr'[p].as = pr[p].as, pr[p].pc \notin {"activate", "undo_activate"},
           tlb' = [tlb EXCEPT ![c] = Touched(p, c, page)]
    PROVE  /\ tlb' \in [CPU -> SUBSET TLBEntry] /\ \A d \in CPU \ {c} : tlb'[d] = tlb[d]
           /\ MapsOwn(c)'
<1>1. tlb \in [CPU -> SUBSET TLBEntry] /\ p # None /\ pr[p].as \in AS \cup {None}
  BY ExecAssumption, Fields DEF ExecInv, Types
<1>2. Entry(p, page) \in TLBEntry /\ Entry(p, page).as = pr[p].as
  BY <1>1, SMTT(30) DEF Entry, TLBEntry
<1>3. Touched(p, c, page) \subseteq TLBEntry
  BY <1>1, <1>2 DEF Touched
<1>4. /\ tlb' \in [CPU -> SUBSET TLBEntry] /\ \A d \in CPU \ {c} : tlb'[d] = tlb[d]
      /\ tlb'[c] = Touched(p, c, page)
  BY <1>1, <1>3
<1>5. pr[p].as = None \/ \A e \in tlb[c] : e.as = pr[p].as
  BY <1>1 DEF ExecInv, MapsOwn
<1>6. pr[p].as = None \/ \A e \in tlb'[c] : e.as = pr[p].as
  BY <1>2, <1>4, <1>5 DEF Touched
<1> QED
  BY <1>4, <1>6 DEF MapsOwn

\* A step that changes neither the TLB nor the address space.
LEMMA MapsKept ==
    ASSUME ExecInv, NEW p \in Proc, NEW c \in CPU, run[c] = p, run' = run, tlb' = tlb, pr'[p].as = pr[p].as,
           pr[p].pc \in {"activate", "undo_activate"} => pr'[p].pc = pr[p].pc
    PROVE  /\ tlb' \in [CPU -> SUBSET TLBEntry] /\ \A d \in CPU \ {c} : tlb'[d] = tlb[d]
           /\ MapsOwn(c)'
<1>1. tlb \in [CPU -> SUBSET TLBEntry] /\ MapsOwn(c)
  BY DEF ExecInv, Types
<1> QED
  BY <1>1 DEF MapsOwn

-----------------------------------------------------------------------------
(* The steps that leave the address spaces where they are *)

\* What Place says at each position.
LEMMA Places ==
    ASSUME NEW p, Place(p)
    PROVE  /\ pr[p].pc \in Resting => pr[p].kind = "none" /\ Loaded(pr[p].as) /\ pr[p].other = None
           /\ pr[p].pc = "count" =>
                 /\ pr[p].other = None
                 /\ \/ pr[p].kind = "exec" /\ Loaded(pr[p].as)
                    \/ pr[p].kind = "run" /\ pr[p].as = None /\ pr[p].args = <<>>
           /\ pr[p].pc \in Building =>
                 /\ pr[p].as # None /\ (pr[p].pc = "args" => asp[pr[p].as].done)
                 /\ \/ pr[p].kind = "exec" /\ Loaded(pr[p].other)
                    \/ pr[p].kind = "run" /\ pr[p].other = None
           /\ pr[p].pc = "undo" => pr[p].kind = "exec" /\ pr[p].as # None /\ Loaded(pr[p].other)
           /\ pr[p].pc \in Settled => pr[p].kind = "exec" /\ Loaded(pr[p].as) /\ pr[p].other # None
           /\ pr[p].pc \in Ending => pr[p].kind = "run" /\ pr[p].other = None
           /\ pr[p].pc = "none" => pr[p].kind = "none" /\ pr[p].as = None /\ pr[p].other = None
BY SMTT(30) DEF Place, Resting, Building, Settled, Ending

\* Only the record of the process that takes the step changes.
LEMMA Update ==
    ASSUME Types, NEW p \in Proc, NEW r, ProcType(r), pr' = [pr EXCEPT ![p] = r]
    PROVE  PrType' /\ pr'[p] = r /\ \A q \in Proc \ {p} : pr'[q] = pr[q]
<1>1. DOMAIN pr' = Proc /\ pr'[p] = r /\ \A q \in Proc \ {p} : pr'[q] = pr[q]
  BY DEF Types, PrType
<1>2. PrType'
  BY <1>1 DEF Types, PrType
<1> QED
  BY <1>1, <1>2

\* A step that only moves a process to another position.
LEMMA ToBecomes ==
    ASSUME Types, NEW p \in Proc, NEW pc \in PC, To(p, pc)
    PROVE  Becomes(p, pc, pr[p].kind, pr[p].as, pr[p].other, pr[p].args, pr[p].i, pr[p].argv, pr[p].spoiled)
<1> DEFINE r == [pr[p] EXCEPT !.pc = pc]
<1>1. pr' = [pr EXCEPT ![p] = r] /\ ProcType(pr[p])
  BY Fields DEF To
<1>2. /\ ProcType(r)
      /\ r.pc = pc /\ r.kind = pr[p].kind /\ r.as = pr[p].as /\ r.other = pr[p].other
      /\ r.args = pr[p].args /\ r.i = pr[p].i /\ r.argv = pr[p].argv /\ r.spoiled = pr[p].spoiled
  BY <1>1, SMTT(30) DEF ProcType
<1> HIDE DEF r
<1>3. PrType' /\ pr'[p] = r /\ \A q \in Proc \ {p} : pr'[q] = pr[q]
  BY <1>1, <1>2, Update
<1> QED
  BY <1>2, <1>3 DEF Becomes

\* What the invariant says of one process.
LEMMA Own ==
    ASSUME ExecInv, NEW p \in Proc
    PROVE  /\ Types /\ Owned /\ Place(p) /\ Counts(p) /\ Buffered(p)
           /\ pr[p].kind = "exec" => exec_lock = p
           /\ pr[p].argv = "wrong" => pr[p].spoiled
           /\ strayed = FALSE /\ file \in Seq(Int) /\ panicked \in BOOLEAN
           /\ kbuf = [w \in 0 .. ARG_WORDS - 1 |-> kbuf[w]]
           /\ AspType
BY DEF ExecInv, Types, Locked, ArgsFaithful

\* A step of p that only goes on, and may change its CPU's TLB.
LEMMA PlainStep ==
    ASSUME ExecInv, NEW p \in Proc, NEW c \in CPU, run[c] = p,
           UNCHANGED <<asp, kbuf, run, file, exec_lock, panicked, strayed>>,
           PrType', \A q \in Proc \ {p} : pr'[q] = pr[q],
           pr'[p].as = pr[p].as, pr'[p].other = pr[p].other, pr'[p].kind = pr[p].kind,
           pr'[p].argv = pr[p].argv, pr'[p].spoiled = pr[p].spoiled, pr'[p].pc \notin Dead,
           tlb' \in [CPU -> SUBSET TLBEntry], \A d \in CPU \ {c} : tlb'[d] = tlb[d], MapsOwn(c)',
           Place(p)', Counts(p)', Buffered(p)'
    PROVE  ExecInv'
<1>1. AspType' /\ \A a \in AS : asp'[a] = asp[a] /\ asp'[a].live = asp[a].live
  BY AspSame DEF ExecInv
<1>2. /\ pr'[p].kind = "exec" => exec_lock' = p
      /\ pr'[p].argv = "wrong" => pr'[p].spoiled
      /\ strayed' = FALSE /\ file' \in Seq(Int) /\ panicked' \in BOOLEAN
      /\ kbuf' = [w \in 0 .. ARG_WORDS - 1 |-> kbuf'[w]]
  BY Own
<1> QED
  BY <1>1, <1>2, OwnStep

\* execv's way back: as_activate of the old address space.
LEMMA UndoActivateStep ==
    ASSUME ExecInv, NEW p \in Proc, NEW c \in CPU, undo_activate(p, c)
    PROVE  ExecInv'
<1>1. Becomes(p, "undo_destroy", pr[p].kind, pr[p].as, pr[p].other, pr[p].args, pr[p].i, pr[p].argv, pr[p].spoiled)
  BY Own, ToBecomes DEF undo_activate, PC, Settled
<1>2. /\ tlb' \in [CPU -> SUBSET TLBEntry] /\ \A d \in CPU \ {c} : tlb'[d] = tlb[d]
      /\ MapsOwn(c)'
  BY <1>1, Own, Flushed DEF undo_activate, On, Becomes
<1>3. pr[p].kind = "exec" /\ Loaded(pr[p].as) /\ pr[p].other # None
  BY Own, Places DEF undo_activate, On, Settled
<1>4. Place(p)' /\ Counts(p)'
  BY <1>1, <1>3 DEF Place, Counts, Settled, Becomes, undo_activate, Loaded, SetUp
<1>5. Buffered(p)'
  BY <1>1, Own, BufferedMove DEF Becomes, undo_activate, Building
<1>6. run[c] = p /\ UNCHANGED <<asp, kbuf, run, file, exec_lock, panicked, strayed>>
  BY DEF undo_activate, On
<1> QED
  BY <1>1, <1>2, <1>4, <1>5, <1>6, PlainStep DEF Becomes, Dead

\* as_activate of the new address space.
LEMMA ActivateStep ==
    ASSUME ExecInv, NEW p \in Proc, NEW c \in CPU, activate(p, c)
    PROVE  ExecInv'
<1>1. Becomes(p, "filetable", pr[p].kind, pr[p].as, pr[p].other, pr[p].args, pr[p].i, pr[p].argv, pr[p].spoiled)
  BY Own, ToBecomes DEF activate, PC, Building
<1>2. /\ tlb' \in [CPU -> SUBSET TLBEntry] /\ \A d \in CPU \ {c} : tlb'[d] = tlb[d]
      /\ MapsOwn(c)'
  BY <1>1, Own, Flushed DEF activate, On, Becomes
<1>3. /\ pr[p].as # None
      /\ \/ pr[p].kind = "exec" /\ Loaded(pr[p].other)
         \/ pr[p].kind = "run" /\ pr[p].other = None
  BY Own, Places DEF activate, On, Building
<1>4. Place(p)' /\ Counts(p)'
  BY <1>1, <1>3 DEF Place, Counts, Building, Becomes, activate, Loaded, SetUp
<1>5. Buffered(p)'
  BY <1>1, Own, BufferedMove DEF Becomes, activate, On, Building
<1>6. run[c] = p /\ UNCHANGED <<asp, kbuf, run, file, exec_lock, panicked, strayed>>
  BY DEF activate, On
<1> QED
  BY <1>1, <1>2, <1>4, <1>5, <1>6, PlainStep DEF Becomes, Dead

\* i changes with pc.
LEMMA CountBecomes ==
    ASSUME Types, NEW p \in Proc, NEW pc \in PC, NEW i \in Nat, pr' = [pr EXCEPT ![p].pc = pc, ![p].i = i]
    PROVE  Becomes(p, pc, pr[p].kind, pr[p].as, pr[p].other, pr[p].args, i, pr[p].argv, pr[p].spoiled)
<1> DEFINE r == [pr[p] EXCEPT !.pc = pc, !.i = i]
<1>1. ProcType(pr[p])
  BY Fields
<1>2. /\ ProcType(r)
      /\ r.pc = pc /\ r.kind = pr[p].kind /\ r.as = pr[p].as /\ r.other = pr[p].other
      /\ r.args = pr[p].args /\ r.i = i /\ r.argv = pr[p].argv /\ r.spoiled = pr[p].spoiled
  BY <1>1, SMTT(30) DEF ProcType
<1>3. DOMAIN pr' = Proc /\ pr'[p] = r /\ \A q \in Proc \ {p} : pr'[q] = pr[q]
  BY DEF Types, PrType
<1> HIDE DEF r
<1>4. PrType'
  BY <1>2, <1>3 DEF Types, PrType
<1> QED
  BY <1>2, <1>3, <1>4 DEF Becomes

\* A step that goes on to the next header or argument.
LEMMA NextBecomes ==
    ASSUME Types, NEW p \in Proc, pr' = [pr EXCEPT ![p].i = @ + 1]
    PROVE  Becomes(p, pr[p].pc, pr[p].kind, pr[p].as, pr[p].other, pr[p].args, pr[p].i + 1, pr[p].argv, pr[p].spoiled)
<1> DEFINE r == [pr[p] EXCEPT !.i = pr[p].i + 1]
<1>1. pr' = [pr EXCEPT ![p] = r] /\ ProcType(pr[p])
  BY Fields
<1>2. /\ ProcType(r)
      /\ r.pc = pr[p].pc /\ r.kind = pr[p].kind /\ r.as = pr[p].as /\ r.other = pr[p].other
      /\ r.args = pr[p].args /\ r.i = pr[p].i + 1 /\ r.argv = pr[p].argv /\ r.spoiled = pr[p].spoiled
  BY <1>1, SMTT(30) DEF ProcType
<1> HIDE DEF r
<1>3. PrType' /\ pr'[p] = r /\ \A q \in Proc \ {p} : pr'[q] = pr[q]
  BY <1>1, <1>2, Update
<1> QED
  BY <1>2, <1>3 DEF Becomes

\* proc_start_filetable succeeds.
LEMMA FiletableStep ==
    ASSUME ExecInv, NEW p \in Proc, NEW c \in CPU, proc_start_filetable(p, c)
    PROVE  ExecInv'
<1>0. run[c] = p /\ UNCHANGED <<exec_lock, kbuf, asp, run, file, panicked, strayed>>
  BY DEF proc_start_filetable, On
<1>1. Becomes(p, "define", pr[p].kind, pr[p].as, pr[p].other, pr[p].args, 1, pr[p].argv, pr[p].spoiled)
  BY Own, CountBecomes DEF proc_start_filetable, PC, Building
<1>2. /\ tlb' \in [CPU -> SUBSET TLBEntry] /\ \A d \in CPU \ {c} : tlb'[d] = tlb[d]
      /\ MapsOwn(c)'
  BY <1>1, MapsKept DEF proc_start_filetable, On, Becomes
<1>3. /\ pr[p].as # None
      /\ \/ pr[p].kind = "exec" /\ Loaded(pr[p].other)
         \/ pr[p].kind = "run" /\ pr[p].other = None
  BY Own, Places DEF proc_start_filetable, On, Building
<1>4. Place(p)'
  BY <1>1, <1>3 DEF Place, Building, Becomes, proc_start_filetable, Loaded, SetUp
<1>5. Counts(p)'
  BY <1>1, SMTT(30) DEF Counts, Becomes
<1>6. Buffered(p)'
  BY <1>1, Own, BufferedMove DEF Becomes, proc_start_filetable, On, Building
<1> QED
  BY <1>0, <1>1, <1>2, <1>4, <1>5, <1>6, PlainStep DEF Becomes, Dead

\* A step that only panics, writes to the executable or takes a lock.
LEMMA StillStep ==
    ASSUME ExecInv, NEW p \in Proc, NEW c \in CPU, run[c] = p, pr' = pr, asp' = asp, kbuf' = kbuf, run' = run,
           tlb' \in [CPU -> SUBSET TLBEntry], \A d \in CPU \ {c} : tlb'[d] = tlb[d], MapsOwn(c)',
           file' \in Seq(Int), panicked' \in BOOLEAN, strayed' = strayed,
           \A q \in Proc : exec_lock = q => exec_lock' = q
    PROVE  ExecInv'
<1>1. Place(p)' /\ Counts(p)' /\ Buffered(p)'
  <2>1. Place(p)'
    BY Own, PlaceKept
  <2>2. Counts(p)' /\ Buffered(p)'
    BY Own DEF Counts, Buffered
  <2> QED
    BY <2>1, <2>2
<1>2. p # None /\ pr[p].pc \notin Dead /\ PrType' /\ AspType'
  BY ExecAssumption DEF ExecInv, Running, Dead, Types, PrType, AspType
<1> QED
  BY <1>1, <1>2, Own, OwnStep

\* proc_start_filetable fails: execv returns to an empty address space, which
\* ends in a panic, and runprogram gives up.
LEMMA FiletableFailStep ==
    ASSUME ExecInv, NEW p \in Proc, NEW c \in CPU, proc_start_filetable_fail(p, c)
    PROVE  ExecInv'
<1>1. CASE pr[p].kind = "exec"
  <2>1. /\ tlb' \in [CPU -> SUBSET TLBEntry] /\ \A d \in CPU \ {c} : tlb'[d] = tlb[d]
        /\ MapsOwn(c)'
    BY <1>1, MapsKept DEF proc_start_filetable_fail, On
  <2> QED
    BY <1>1, <2>1, Own, StillStep DEF proc_start_filetable_fail, On
<1>2. CASE pr[p].kind # "exec"
  <2>1. Becomes(p, "exit", pr[p].kind, pr[p].as, pr[p].other, pr[p].args, pr[p].i, pr[p].argv, pr[p].spoiled)
    BY <1>2, Own, ToBecomes DEF proc_start_filetable_fail, PC, Ending
  <2>2. /\ tlb' \in [CPU -> SUBSET TLBEntry] /\ \A d \in CPU \ {c} : tlb'[d] = tlb[d]
        /\ MapsOwn(c)'
    BY <2>1, MapsKept DEF proc_start_filetable_fail, On, Becomes
  <2>3. pr[p].kind = "run" /\ pr[p].other = None
    BY <1>2, Own, Places DEF proc_start_filetable_fail, On, Building
  <2>4. Place(p)' /\ Counts(p)' /\ Buffered(p)'
    BY <2>1, <2>3 DEF Place, Counts, Buffered, Ending, Becomes
  <2>5. run[c] = p /\ UNCHANGED <<asp, kbuf, run, file, exec_lock, panicked, strayed>>
    BY <1>2 DEF proc_start_filetable_fail, On
  <2> QED
    BY <2>1, <2>2, <2>4, <2>5, PlainStep DEF Becomes, Dead
<1> QED
  BY <1>1, <1>2

\* One address space changes.
AspIs(b, r) == DOMAIN asp' = AS /\ asp'[b] = r /\ \A a \in AS : a # b => asp'[a] = asp[a]

\* Only one address space changes.
LEMMA AspUpdate ==
    ASSUME AspType, NEW b \in AS, NEW r, asp' = [asp EXCEPT ![b] = r]
    PROVE  AspIs(b, r)
BY DEF AspType, AspIs

\* A step of load_elf: p changes the contents of the address space it makes.
LEMMA MemoryStep ==
    ASSUME ExecInv, NEW p \in Proc, NEW c \in CPU, run[c] = p, pr[p].pc \in Building, pr[p].pc # "activate",
           UNCHANGED <<tlb, kbuf, run, file, exec_lock, panicked, strayed>>,
           PrType', \A q \in Proc \ {p} : pr'[q] = pr[q],
           pr'[p].as = pr[p].as, pr'[p].other = pr[p].other, pr'[p].kind = pr[p].kind, pr'[p].args = pr[p].args,
           pr'[p].argv = pr[p].argv, pr'[p].spoiled = pr[p].spoiled,
           pr'[p].pc \in Building, pr'[p].i >= 1,
           NEW r, ASType(r), r.live = asp[pr[p].as].live, pr'[p].pc = "args" => r.done,
           AspIs(pr[p].as, r)
    PROVE  ExecInv'
<1>1. /\ Types /\ Owned /\ Place(p) /\ Buffered(p)
      /\ pr[p].kind = "exec" => exec_lock = p
      /\ pr[p].argv = "wrong" => pr[p].spoiled
      /\ strayed = FALSE /\ file \in Seq(Int) /\ panicked \in BOOLEAN
      /\ kbuf = [w \in 0 .. ARG_WORDS - 1 |-> kbuf[w]] /\ AspType
  BY Own
<1>2. /\ pr[p].as # None
      /\ \/ pr[p].kind = "exec" /\ Loaded(pr[p].other)
         \/ pr[p].kind = "run" /\ pr[p].other = None
  BY <1>1, Places
<1>3. pr[p].as \in AS /\ pr[p].as # pr[p].other
  BY <1>1, <1>2, Fields DEF Owned
<1>4. DOMAIN asp' = AS /\ asp'[pr[p].as] = r /\ \A a \in AS : a # pr[p].as => asp'[a] = asp[a]
  BY DEF AspIs
<1>5. AspType' /\ \A a \in AS : asp'[a].live = asp[a].live
  BY <1>1, <1>3, <1>4 DEF AspType
<1>6. Loaded(pr[p].other) => Loaded(pr[p].other)'
  <2>1. pr[p].other \in AS \cup {None}
    BY <1>1, Fields
  <2>2. pr[p].other # None => asp'[pr[p].other] = asp[pr[p].other]
    BY <2>1, <1>3, <1>4
  <2> QED
    BY <2>2 DEF Loaded, SetUp
<1>7. asp'[pr'[p].as] = r
  BY <1>4
<1>8. Place(p)'
  BY <1>2, <1>6, <1>7 DEF Place
<1>9. Counts(p)'
  BY DEF Counts
<1>10. Buffered(p)'
  BY <1>1, BufferedMove DEF Building
<1>11. /\ tlb' \in [CPU -> SUBSET TLBEntry] /\ \A d \in CPU \ {c} : tlb'[d] = tlb[d]
       /\ MapsOwn(c)'
  BY MapsKept DEF Building
<1>12. pr'[p].pc \notin Dead
  BY DEF Building, Dead
<1> QED
  BY <1>1, <1>4, <1>5, <1>8, <1>9, <1>10, <1>11, <1>12, OwnStep

\* load_elf, first pass: as_define_region, or a header to skip.
LEMMA DefineStep ==
    ASSUME ExecInv, NEW p \in Proc, NEW c \in CPU, load_elf_define(p, c)
    PROVE  ExecInv'
<1>0. /\ run[c] = p /\ pr[p].pc = "define" /\ pr[p].i <= Len(file)
      /\ pr' = [pr EXCEPT ![p].i = @ + 1]
      /\ UNCHANGED <<tlb, kbuf, run, file, exec_lock, panicked, strayed>>
  BY DEF load_elf_define, On
<1>1. Becomes(p, pr[p].pc, pr[p].kind, pr[p].as, pr[p].other, pr[p].args, pr[p].i + 1, pr[p].argv, pr[p].spoiled)
  BY <1>0, Own, NextBecomes
<1>2. pr[p].i \in Nat /\ pr[p].i >= 1 /\ file \in Seq(Int) /\ pr[p].as # None /\ pr[p].as \in AS
  BY <1>0, Own, Fields, Places DEF Counts, Building
<1>3. pr'[p].i >= 1
  BY <1>1, <1>2, SMTT(30) DEF Becomes
<1>4. Phdr(p) \in Int
  BY <1>0, <1>2, SMTT(30) DEF Phdr
<1>5. ASType(asp[pr[p].as])
  BY <1>2, Own DEF AspType
<1>6. \E r : /\ ASType(r) /\ r.live = asp[pr[p].as].live
             /\ AspIs(pr[p].as, r)
  <2>1. CASE Phdr(p) > 0
    <3> DEFINE r == [asp[pr[p].as] EXCEPT !.regions = Append(asp[pr[p].as].regions, Phdr(p))]
    <3>0. asp' = [asp EXCEPT ![pr[p].as] = r]
      BY <2>1 DEF load_elf_define, as_define_region
    <3>1. AspIs(pr[p].as, r)
      BY <1>2, <3>0, Own, AspUpdate
    <3>2. Append(asp[pr[p].as].regions, Phdr(p)) \in Seq(Int)
      BY <1>4, <1>5, SMTT(30) DEF ASType
    <3>3. ASType(r) /\ r.live = asp[pr[p].as].live
      BY <1>5, <3>2, SMTT(30) DEF ASType
    <3> QED
      BY <3>1, <3>3
  <2>2. CASE ~(Phdr(p) > 0)
    <3>1. asp' = asp
      BY <2>2 DEF load_elf_define
    <3>2. AspIs(pr[p].as, asp[pr[p].as])
      BY <3>1, Own DEF AspType, AspIs
    <3> QED
      BY <3>2, <1>5
  <2> QED
    BY <2>1, <2>2
<1>7. PICK r : /\ ASType(r) /\ r.live = asp[pr[p].as].live
               /\ AspIs(pr[p].as, r)
  BY <1>6
<1>8. /\ pr[p].pc \in Building /\ pr[p].pc # "activate" /\ pr'[p].pc \in Building
      /\ pr'[p].pc # "args"
  BY <1>0, <1>1 DEF Building, Becomes
<1> QED
  BY <1>0, <1>1, <1>3, <1>7, <1>8, MemoryStep DEF Becomes

\* as_prepare_load gets the memory of the regions.
LEMMA PrepareStep ==
    ASSUME ExecInv, NEW p \in Proc, NEW c \in CPU, as_prepare_load(p, c)
    PROVE  ExecInv'
<1>0. /\ run[c] = p /\ pr[p].pc = "define"
      /\ pr' = [pr EXCEPT ![p].pc = "load", ![p].i = 1]
      /\ UNCHANGED <<tlb, kbuf, run, file, exec_lock, panicked, strayed>>
  BY DEF as_prepare_load, On
<1>1. Becomes(p, "load", pr[p].kind, pr[p].as, pr[p].other, pr[p].args, 1, pr[p].argv, pr[p].spoiled)
  BY <1>0, Own, CountBecomes DEF PC, Building
<1>2. pr[p].as # None /\ pr[p].as \in AS
  BY <1>0, Own, Fields, Places DEF Building
<1>3. pr'[p].i >= 1
  BY <1>1, SMTT(30) DEF Becomes
<1>4. ASType(asp[pr[p].as])
  BY <1>2, Own DEF AspType
<1> DEFINE r == [asp[pr[p].as] EXCEPT !.ready = TRUE]
<1>5. AspIs(pr[p].as, r)
  BY <1>2, Own, AspUpdate DEF as_prepare_load
<1>6. ASType(r) /\ r.live = asp[pr[p].as].live
  BY <1>4, SMTT(30) DEF ASType
<1> HIDE DEF r
<1>7. /\ pr[p].pc \in Building /\ pr[p].pc # "activate" /\ pr'[p].pc \in Building
      /\ pr'[p].pc # "args"
  BY <1>0, <1>1 DEF Building, Becomes
<1> QED
  BY <1>0, <1>1, <1>3, <1>5, <1>6, <1>7, MemoryStep DEF Becomes

\* as_complete_load: the address space is loaded.
LEMMA CompleteStep ==
    ASSUME ExecInv, NEW p \in Proc, NEW c \in CPU, as_complete_load(p, c)
    PROVE  ExecInv'
<1>0. /\ run[c] = p /\ pr[p].pc = "load" /\ To(p, "args")
      /\ UNCHANGED <<tlb, kbuf, run, file, exec_lock, panicked, strayed>>
  BY DEF as_complete_load, On
<1>1. Becomes(p, "args", pr[p].kind, pr[p].as, pr[p].other, pr[p].args, pr[p].i, pr[p].argv, pr[p].spoiled)
  BY <1>0, Own, ToBecomes DEF PC, Building
<1>2. pr[p].as # None /\ pr[p].as \in AS /\ pr'[p].i >= 1
  BY <1>0, <1>1, Own, Fields, Places DEF Building, Counts, Becomes
<1>3. ASType(asp[pr[p].as])
  BY <1>2, Own DEF AspType
<1> DEFINE r == [asp[pr[p].as] EXCEPT !.done = TRUE]
<1>4. AspIs(pr[p].as, r)
  BY <1>2, Own, AspUpdate DEF as_complete_load
<1>5. ASType(r) /\ r.live = asp[pr[p].as].live /\ r.done
  BY <1>3, SMTT(30) DEF ASType
<1> HIDE DEF r
<1>6. pr[p].pc \in Building /\ pr[p].pc # "activate" /\ pr'[p].pc \in Building
  BY <1>0, <1>1 DEF Building, Becomes
<1> QED
  BY <1>0, <1>1, <1>2, <1>4, <1>5, <1>6, MemoryStep DEF Becomes

\* load_elf, second pass: a segment is read to where the header says now.
LEMMA SegmentStep ==
    ASSUME ExecInv, NEW p \in Proc, NEW c \in CPU, load_segment(p, c)
    PROVE  ExecInv'
<1>0. /\ run[c] = p /\ pr[p].pc = "load" /\ pr[p].i <= Len(file)
      /\ pr' = [pr EXCEPT ![p].i = @ + 1]
      /\ tlb' = IF Phdr(p) > 0 THEN [tlb EXCEPT ![c] = Touched(p, c, Phdr(p))] ELSE tlb
      /\ UNCHANGED <<asp, kbuf, run, file, exec_lock, panicked, strayed>>
  BY DEF load_segment, On
<1>1. Becomes(p, pr[p].pc, pr[p].kind, pr[p].as, pr[p].other, pr[p].args, pr[p].i + 1, pr[p].argv, pr[p].spoiled)
  BY <1>0, Own, NextBecomes
<1>2. pr[p].i \in Nat /\ pr[p].i >= 1 /\ file \in Seq(Int)
  BY <1>0, Own, Fields DEF Counts
<1>3. Phdr(p) \in Int
  BY <1>0, <1>2, SMTT(30) DEF Phdr
<1>4. /\ tlb' \in [CPU -> SUBSET TLBEntry] /\ \A d \in CPU \ {c} : tlb'[d] = tlb[d]
      /\ MapsOwn(c)'
  <2>1. CASE Phdr(p) > 0
    BY <2>1, <1>0, <1>1, <1>3, TouchedOwn DEF Becomes
  <2>2. CASE ~(Phdr(p) > 0)
    BY <2>2, <1>0, <1>1, MapsKept DEF Becomes
  <2> QED
    BY <2>1, <2>2
<1>5. /\ pr[p].as # None
      /\ \/ pr[p].kind = "exec" /\ Loaded(pr[p].other)
         \/ pr[p].kind = "run" /\ pr[p].other = None
  BY <1>0, Own, Places DEF Building
<1>6. Place(p)'
  BY <1>0, <1>1, <1>5 DEF Place, Building, Becomes, Loaded, SetUp
<1>7. Counts(p)'
  BY <1>1, <1>2, SMTT(30) DEF Counts, Becomes
<1>8. Buffered(p)'
  BY <1>0, <1>1, Own, BufferedMove DEF Becomes, Building
<1> QED
  BY <1>0, <1>1, <1>4, <1>6, <1>7, <1>8, PlainStep DEF Becomes, Dead

\* load_elf fails at a header or a read.
LEMMA LoadFailStep ==
    ASSUME ExecInv, NEW p \in Proc, NEW c \in CPU, load_elf_fail(p, c)
    PROVE  ExecInv'
<1> DEFINE to == IF pr[p].kind = "exec" THEN "undo" ELSE "exit"
<1>0. /\ run[c] = p /\ pr[p].pc \in {"define", "load"} /\ To(p, to)
      /\ UNCHANGED <<asp, kbuf, run, file, exec_lock, panicked, strayed>> /\ tlb' = tlb
  BY DEF load_elf_fail, Undo, On
<1>1. to \in PC /\ to \in {"undo", "exit"} /\ (pr[p].kind = "exec" <=> to = "undo")
  BY DEF PC, Ending
<1> HIDE DEF to
<1>2. Becomes(p, to, pr[p].kind, pr[p].as, pr[p].other, pr[p].args, pr[p].i, pr[p].argv, pr[p].spoiled)
  BY <1>0, <1>1, Own, ToBecomes
<1>3. /\ tlb' \in [CPU -> SUBSET TLBEntry] /\ \A d \in CPU \ {c} : tlb'[d] = tlb[d]
      /\ MapsOwn(c)'
  BY <1>0, <1>2, MapsKept DEF Becomes
<1>4. /\ pr[p].as # None
      /\ \/ pr[p].kind = "exec" /\ Loaded(pr[p].other)
         \/ pr[p].kind = "run" /\ pr[p].other = None
  BY <1>0, Own, Places DEF Building
<1>5. Place(p)'
  BY <1>0, <1>1, <1>2, <1>4 DEF Place, Ending, Becomes, Loaded, SetUp
<1>6. Counts(p)'
  BY <1>1, <1>2 DEF Counts, Becomes
<1>7. Buffered(p)'
  BY <1>0, <1>1, <1>2, Own, BufferedMove DEF Becomes, Building
<1>8. to \notin Dead
  BY <1>1 DEF Dead
<1> QED
  BY <1>0, <1>2, <1>3, <1>5, <1>6, <1>7, <1>8, PlainStep DEF Becomes

\* vm_fault's assertions about an address space that is not set up.
LEMMA AssertStep ==
    ASSUME ExecInv, NEW p \in Proc, NEW c \in CPU, vm_fault_assert(p, c)
    PROVE  ExecInv'
<1>0. /\ run[c] = p /\ pr' = pr /\ panicked' = TRUE
      /\ UNCHANGED <<exec_lock, kbuf, asp, tlb, run, file, strayed>>
  BY DEF vm_fault_assert, On
<1>1. /\ tlb' \in [CPU -> SUBSET TLBEntry] /\ \A d \in CPU \ {c} : tlb'[d] = tlb[d]
      /\ MapsOwn(c)'
  BY <1>0, MapsKept
<1> QED
  BY <1>0, <1>1, Own, StillStep

\* An access from user mode that vm_fault resolves.
LEMMA AccessStep ==
    ASSUME ExecInv, NEW p \in Proc, NEW c \in CPU, user_access(p, c)
    PROVE  ExecInv'
<1>0. /\ run[c] = p /\ pr[p].pc = "user"
      /\ UNCHANGED <<pr, exec_lock, kbuf, asp, run, file, panicked, strayed>>
  BY DEF user_access, On
<1>1. PICK page \in Pages(pr[p].as) : tlb' = [tlb EXCEPT ![c] = Touched(p, c, page)]
  BY DEF user_access, Copied
<1>2. pr[p].as \in AS
  BY <1>0, Own, Fields, Places DEF Resting, Loaded
<1>3. asp[pr[p].as].regions \in Seq(Int)
  BY <1>2, Own DEF AspType, ASType
<1>4. page \in Int
  BY <1>3, SMTT(30) DEF Pages, StackPages, Stack
<1>5. /\ tlb' \in [CPU -> SUBSET TLBEntry] /\ \A d \in CPU \ {c} : tlb'[d] = tlb[d]
      /\ MapsOwn(c)'
  BY <1>0, <1>1, <1>4, TouchedOwn
<1> QED
  BY <1>0, <1>5, Own, StillStep

\* The child of a fork enters user mode.
LEMMA ForkedStep ==
    ASSUME ExecInv, NEW p \in Proc, NEW c \in CPU, enter_forked_process(p, c)
    PROVE  ExecInv'
<1>0. /\ run[c] = p /\ pr[p].pc = "forked" /\ To(p, "user") /\ tlb' = as_activate(c, pr[p].as)
      /\ UNCHANGED <<asp, kbuf, run, file, exec_lock, panicked, strayed>>
  BY DEF enter_forked_process, On
<1>1. Becomes(p, "user", pr[p].kind, pr[p].as, pr[p].other, pr[p].args, pr[p].i, pr[p].argv, pr[p].spoiled)
  BY <1>0, Own, ToBecomes DEF PC, Resting
<1>2. /\ tlb' \in [CPU -> SUBSET TLBEntry] /\ \A d \in CPU \ {c} : tlb'[d] = tlb[d]
      /\ MapsOwn(c)'
  BY <1>0, <1>1, Own, Flushed DEF Becomes
<1>3. pr[p].kind = "none" /\ Loaded(pr[p].as) /\ pr[p].other = None
  BY <1>0, Own, Places DEF Resting
<1>4. Place(p)' /\ Counts(p)' /\ Buffered(p)'
  BY <1>0, <1>1, <1>3 DEF Place, Counts, Buffered, Resting, Becomes, Loaded, SetUp
<1> QED
  BY <1>0, <1>1, <1>2, <1>4, PlainStep DEF Becomes, Dead

\* The executable is rewritten; an execv with too many arguments is refused.
LEMMA WriteStep ==
    ASSUME ExecInv, NEW p \in Proc, NEW c \in CPU, sys_write(p, c) \/ sys_execv_E2BIG(p, c)
    PROVE  ExecInv'
<1>0. /\ run[c] = p /\ UNCHANGED <<pr, kbuf, asp, tlb, run, panicked, strayed>>
      /\ file' = file \/ file' \in Images
      /\ exec_lock' = exec_lock \/ exec_lock = None
  BY DEF sys_write, sys_execv_E2BIG, On
<1>1. file' \in Seq(Int) /\ None \notin Proc
  BY <1>0, Own, ExecAssumption
<1>2. /\ tlb' \in [CPU -> SUBSET TLBEntry] /\ \A d \in CPU \ {c} : tlb'[d] = tlb[d]
      /\ MapsOwn(c)'
  BY <1>0, MapsKept
<1>3. \A q \in Proc : exec_lock = q => exec_lock' = q
  BY <1>0, <1>1
<1> QED
  BY <1>0, <1>1, <1>2, <1>3, Own, StillStep

\* A call returns to user mode.
LEMMA UserBecomes ==
    ASSUME Types, NEW p \in Proc, pr' = [pr EXCEPT ![p] = ToUser(pr[p])]
    PROVE  Becomes(p, "user", "none", pr[p].as, pr[p].other, <<>>, 0, "none", FALSE)
<1> DEFINE r == ToUser(pr[p])
<1>1. ProcType(pr[p]) /\ "user" \in PC
  BY Fields DEF PC, Resting
<1>2. /\ ProcType(r) /\ r.pc = "user" /\ r.kind = "none" /\ r.as = pr[p].as /\ r.other = pr[p].other
      /\ r.args = <<>> /\ r.i = 0 /\ r.argv = "none" /\ r.spoiled = FALSE
  BY <1>1, SMTT(30) DEF ProcType, ToUser
<1>3. pr' = [pr EXCEPT ![p] = r]
  OBVIOUS
<1> HIDE DEF r
<1> QED
  BY <1>2, <1>3, Update DEF Becomes

\* p goes to user mode in the address space it has, and gives up exec_lock if it
\* was in execv.
LEMMA UserStep ==
    ASSUME ExecInv, NEW p \in Proc, NEW c \in CPU, run[c] = p,
           UNCHANGED <<asp, kbuf, run, file, panicked>>, strayed' = FALSE,
           pr' = [pr EXCEPT ![p] = ToUser(pr[p])],
           Loaded(pr[p].as), pr[p].other = None,
           \A q \in Proc \ {p} : exec_lock = q => exec_lock' = q,
           tlb' \in [CPU -> SUBSET TLBEntry], \A d \in CPU \ {c} : tlb'[d] = tlb[d], MapsOwn(c)'
    PROVE  ExecInv'
<1>1. Becomes(p, "user", "none", pr[p].as, pr[p].other, <<>>, 0, "none", FALSE)
  BY Own, UserBecomes
<1>2. Place(p)' /\ Counts(p)' /\ Buffered(p)'
  BY <1>1 DEF Place, Counts, Buffered, Resting, Becomes, Loaded, SetUp
<1>3. AspType' /\ \A a \in AS : asp'[a] = asp[a] /\ asp'[a].live = asp[a].live
  BY Own, AspSame
<1>4. /\ kbuf' = [w \in 0 .. ARG_WORDS - 1 |-> kbuf'[w]] /\ file' \in Seq(Int) /\ panicked' \in BOOLEAN
      /\ run' = run /\ kbuf' = kbuf
  BY Own
<1> QED
  BY <1>1, <1>2, <1>3, <1>4, OwnStep DEF Becomes, Dead

\* runprogram fails: the thread is about to end.
LEMMA ExitStep ==
    ASSUME ExecInv, NEW p \in Proc, NEW c \in CPU, run[c] = p,
           UNCHANGED <<asp, kbuf, run, tlb, file, exec_lock, panicked, strayed>>,
           pr' = [pr EXCEPT ![p] = [pr[p] EXCEPT !.pc = "exit"]],
           pr[p].kind = "run", pr[p].other = None, pr[p].pc \notin {"activate", "undo_activate"}
    PROVE  ExecInv'
<1>1. To(p, "exit")
  BY DEF To
<1>2. Becomes(p, "exit", pr[p].kind, pr[p].as, pr[p].other, pr[p].args, pr[p].i, pr[p].argv, pr[p].spoiled)
  BY <1>1, Own, ToBecomes DEF PC, Ending
<1>3. /\ tlb' \in [CPU -> SUBSET TLBEntry] /\ \A d \in CPU \ {c} : tlb'[d] = tlb[d]
      /\ MapsOwn(c)'
  BY <1>2, MapsKept DEF Becomes
<1>4. Place(p)' /\ Counts(p)' /\ Buffered(p)'
  BY <1>2 DEF Place, Counts, Buffered, Ending, Becomes
<1> QED
  BY <1>2, <1>3, <1>4, PlainStep DEF Becomes, Dead

\* A call gives up before it has a new address space.
LEMMA RefuseStep ==
    ASSUME ExecInv, NEW p \in Proc, NEW c \in CPU, copy_args_EFAULT(p, c) \/ open_fail(p, c)
    PROVE  ExecInv'
<1>0. /\ run[c] = p /\ pr[p].pc = "count"
      /\ pr' = [pr EXCEPT ![p] = IF pr[p].kind = "exec" THEN ToUser(pr[p]) ELSE [pr[p] EXCEPT !.pc = "exit"]]
      /\ exec_lock' = IF pr[p].kind = "exec" THEN None ELSE exec_lock
      /\ UNCHANGED <<kbuf, asp, tlb, run, file, panicked, strayed>>
  BY DEF copy_args_EFAULT, open_fail, On, Refuse
<1>1. /\ pr[p].other = None
      /\ \/ pr[p].kind = "exec" /\ Loaded(pr[p].as)
         \/ pr[p].kind = "run" /\ pr[p].as = None /\ pr[p].args = <<>>
  BY <1>0, Own, Places
<1>2. CASE pr[p].kind = "exec"
  <2>1. pr' = [pr EXCEPT ![p] = ToUser(pr[p])]
    BY <1>0, <1>2
  <2>2. Loaded(pr[p].as) /\ exec_lock = p /\ strayed' = FALSE
    BY <1>0, <1>1, <1>2, Own
  <2>3. pr'[p].as = pr[p].as
    BY <2>1, Own, UserBecomes DEF Becomes
  <2>4. /\ tlb' \in [CPU -> SUBSET TLBEntry] /\ \A d \in CPU \ {c} : tlb'[d] = tlb[d]
        /\ MapsOwn(c)'
    BY <1>0, <2>3, MapsKept
  <2> QED
    BY <1>0, <1>1, <2>1, <2>2, <2>4, UserStep
<1>3. CASE pr[p].kind # "exec"
  <2>1. pr' = [pr EXCEPT ![p] = [pr[p] EXCEPT !.pc = "exit"]] /\ exec_lock' = exec_lock /\ pr[p].kind = "run"
    BY <1>0, <1>1, <1>3
  <2> QED
    BY <1>0, <1>1, <2>1, ExitStep
<1> QED
  BY <1>2, <1>3

\* runprogram copies its arguments to the stack, or gives up.
LEMMA CopyoutstrStep ==
    ASSUME ExecInv, NEW p \in Proc, NEW c \in CPU, copyoutstr_args(p, c)
    PROVE  ExecInv'
<1>0. /\ run[c] = p /\ pr[p].pc = "args" /\ pr[p].kind = "run" /\ SetUp(pr[p].as)
      /\ UNCHANGED <<exec_lock, kbuf, asp, run, file, panicked>>
  BY DEF copyoutstr_args, On
<1>1. PICK args \in ArgLists \ {<<>>} :
         LET argc == Len(args)
             String(i) == copyoutstr(p, c, Stack, USERSPACETOP - Padded(args, i), args[i])
             argv == copyout(p, c, Stack, USERSPACETOP - Padded(args, argc) - 4 * (argc + 1), 4 * argc)
         IN \E ok \in {FALSE, argv.ok} :
              /\ pr' = [pr EXCEPT ![p] = IF ok THEN enter_new_process(pr[p]) ELSE [pr[p] EXCEPT !.pc = "exit"]]
              /\ tlb' = IF ok THEN [tlb EXCEPT ![c] = Touched(p, c, Stack)] ELSE tlb
              /\ strayed' = (strayed \/ argv.stray \/ \E i \in 1 .. argc : String(i).stray)
  BY DEF copyoutstr_args
<1> DEFINE argc == Len(args)
           bot == USERSPACETOP - Padded(args, argc) - 4 * (argc + 1)
           argv == copyout(p, c, Stack, bot, 4 * argc)
           stray == \E i \in 1 .. argc : copyoutstr(p, c, Stack, USERSPACETOP - Padded(args, i), args[i]).stray
<1>2. args \in Seq(Nat) /\ USERSPACETOP \in Nat
  BY ExecAssumption
<1>3. argc \in Nat /\ argc \in 0 .. Len(args)
  BY <1>2, SMTT(30)
<1>4. Padded(args, argc) \in Nat
  BY <1>2, <1>3, PaddedMono
<1>5. bot \in Int /\ 4 * argc \in Int /\ bot + 4 * argc <= USERSPACETOP
  BY <1>2, <1>3, <1>4, SMTT(30)
<1>6. argv.stray = FALSE
  <2> HIDE DEF bot, argc
  <2> QED
    BY <1>5, CopyoutBound
<1>7. stray = FALSE
  BY <1>2, CopyoutstrBound
<1>8. PICK ok \in {FALSE, argv.ok} :
              /\ pr' = [pr EXCEPT ![p] = IF ok THEN enter_new_process(pr[p]) ELSE [pr[p] EXCEPT !.pc = "exit"]]
              /\ tlb' = IF ok THEN [tlb EXCEPT ![c] = Touched(p, c, Stack)] ELSE tlb
              /\ strayed' = (strayed \/ argv.stray \/ stray)
  BY <1>1
<1> HIDE DEF argv, stray
<1>9. strayed' = FALSE /\ strayed = FALSE
  BY <1>6, <1>7, <1>8, Own
<1>10. pr[p].as # None /\ asp[pr[p].as].done /\ pr[p].other = None /\ pr[p].pc \notin {"activate", "undo_activate"}
  BY <1>0, Own, Places DEF Building
<1>11. CASE ok
  <2>1. pr' = [pr EXCEPT ![p] = ToUser(pr[p])] /\ tlb' = [tlb EXCEPT ![c] = Touched(p, c, Stack)]
    BY <1>8, <1>11 DEF enter_new_process
  <2>2. pr'[p].as = pr[p].as
    BY <2>1, Own, UserBecomes DEF Becomes
  <2>3. Stack \in Int
    BY SMTT(30) DEF Stack
  <2>4. /\ tlb' \in [CPU -> SUBSET TLBEntry] /\ \A d \in CPU \ {c} : tlb'[d] = tlb[d]
        /\ MapsOwn(c)'
    BY <1>0, <1>10, <2>1, <2>2, <2>3, TouchedOwn
  <2>5. Loaded(pr[p].as)
    BY <1>0, <1>10 DEF Loaded
  <2> QED
    BY <1>0, <1>9, <1>10, <2>1, <2>4, <2>5, UserStep
<1>12. CASE ~ok
  <2>1. pr' = [pr EXCEPT ![p] = [pr[p] EXCEPT !.pc = "exit"]] /\ tlb' = tlb
    BY <1>8, <1>12
  <2> QED
    BY <1>0, <1>9, <1>10, <2>1, ExitStep
<1> QED
  BY <1>11, <1>12

\* kbuf is clear when execv takes exec_lock.
LEMMA ClearHolds ==
    ASSUME NEW p, NEW args \in Seq(Nat), StringAt(args, Len(args) + 1) <= 4 * ARG_WORDS,
           DOMAIN kbuf = 0 .. ARG_WORDS - 1, \A w \in DOMAIN kbuf : kbuf[w] = Zero
    PROVE  Holds(p, args, kbuf, 0)
<1>1. Len(args) \in Nat /\ Len(args) + 1 \in 1 .. Len(args) + 1 /\ ARG_WORDS \in Nat
  BY ExecAssumption, SMTT(30)
<1> DEFINE end == StringAt(args, Len(args) + 1)
<1>2. end = 4 * (end \div 4) /\ end \div 4 >= Len(args) + 1 /\ end \div 4 \in Nat
  BY <1>1, StringWords
<1> HIDE DEF end
<1>3. end <= 4 * ARG_WORDS
  BY DEF end
<1>4. \A w \in 0 .. Len(args) : w \in 0 .. ARG_WORDS - 1
  BY <1>1, <1>2, <1>3, SMTT(30)
<1>5. 1 .. 0 = {}
  BY SMTT(30)
<1> QED
  BY <1>4, <1>5 DEF Holds

\* execv takes exec_lock and begins to copy the arguments.
LEMMA ExecvStep ==
    ASSUME ExecInv, NEW p \in Proc, NEW c \in CPU, sys_execv(p, c)
    PROVE  ExecInv'
<1>0. /\ run[c] = p /\ pr[p].pc = "user" /\ exec_lock \in {None, p} /\ exec_lock' = p
      /\ panicked' \in BOOLEAN /\ UNCHANGED <<kbuf, asp, tlb, run, file, strayed>>
  BY DEF sys_execv, On
<1>1. PICK args \in ArgLists :
          /\ StringAt(args, Len(args) + 1) <= 4 * ARG_WORDS
          /\ pr' = [pr EXCEPT ![p] = [pr[p] EXCEPT !.pc = "count", !.kind = "exec", !.args = args, !.i = 1,
                                     !.argv = "none",
                                     !.spoiled = (\E w \in DOMAIN kbuf : kbuf[w] # Zero)
                                                 \/ \E i \in 1 .. Len(args) : StringAt(args, i) >= BYTE]]
  BY DEF sys_execv
<1> DEFINE sp == (\E w \in DOMAIN kbuf : kbuf[w] # Zero) \/ \E i \in 1 .. Len(args) : StringAt(args, i) >= BYTE
           r == [pr[p] EXCEPT !.pc = "count", !.kind = "exec", !.args = args, !.i = 1, !.argv = "none", !.spoiled = sp]
<1>2. pr' = [pr EXCEPT ![p] = r]
  BY <1>1
<1>3. sp \in BOOLEAN /\ args \in Seq(Nat) /\ BYTE \in Nat
  BY ExecAssumption
<1>4. ASSUME ~sp PROVE Fits(args) /\ Holds(p, args, kbuf, 0)
  <2>1. \A j \in 1 .. Len(args) : StringAt(args, j) \in Nat /\ ~(StringAt(args, j) >= BYTE)
    <3>1. \A j \in 1 .. Len(args) : j \in 1 .. Len(args) + 1
      BY <1>3, SMTT(30)
    <3> QED
      BY <1>3, <1>4, <3>1, StringWords
  <2>2. \A j \in 1 .. Len(args) : StringAt(args, j) < BYTE
    BY <1>3, <2>1, SMTT(30)
  <2>3. DOMAIN kbuf = 0 .. ARG_WORDS - 1 /\ \A w \in DOMAIN kbuf : kbuf[w] = Zero
    BY <1>4, Own
  <2> QED
    BY <1>1, <1>3, <2>2, <2>3, ClearHolds DEF Fits
<1> HIDE DEF sp
<1>5. ProcType(pr[p]) /\ "count" \in PC
  BY Own, Fields DEF PC
<1>6. /\ ProcType(r) /\ r.pc = "count" /\ r.kind = "exec" /\ r.as = pr[p].as /\ r.other = pr[p].other
      /\ r.args = args /\ r.i = 1 /\ r.argv = "none" /\ r.spoiled = sp
  BY <1>3, <1>5, SMTT(30) DEF ProcType
<1> HIDE DEF r
<1>7. Becomes(p, "count", "exec", pr[p].as, pr[p].other, args, 1, "none", sp)
  BY <1>2, <1>6, Own, Update DEF Becomes
<1>8. Loaded(pr[p].as) /\ pr[p].other = None
  BY <1>0, Own, Places DEF Resting
<1>9. Place(p)'
  BY <1>0, <1>7, <1>8 DEF Place, Becomes, Loaded, SetUp
<1>10. 1 >= 1 /\ 1 - 1 = 0 /\ 1 <= Len(args) + 1
  BY <1>3, SMTT(30)
<1>11. Counts(p)' /\ Buffered(p)'
  BY <1>0, <1>4, <1>7, <1>10 DEF Counts, Buffered, Becomes, Building
<1>12. AspType' /\ \A a \in AS : asp'[a] = asp[a] /\ asp'[a].live = asp[a].live
  BY <1>0, Own, AspSame
<1>13. /\ kbuf' = [w \in 0 .. ARG_WORDS - 1 |-> kbuf'[w]] /\ file' \in Seq(Int) /\ strayed' = FALSE
       /\ \A q \in Proc \ {p} : exec_lock = q => exec_lock' = q
  BY <1>0, Own, ExecAssumption
<1>14. /\ tlb' \in [CPU -> SUBSET TLBEntry] /\ \A d \in CPU \ {c} : tlb'[d] = tlb[d]
       /\ MapsOwn(c)'
  BY <1>0, <1>7, MapsKept DEF Becomes
<1> QED
  BY <1>0, <1>7, <1>9, <1>11, <1>12, <1>13, <1>14, OwnStep DEF Becomes, Dead

\* The argument that is copied next is one of the list.
LEMMA NextArg ==
    ASSUME NEW args \in Seq(Nat), NEW i \in Nat, i >= 1, i <= Len(args)
    PROVE  /\ i \in 1 .. Len(args) /\ args[i] \in Nat /\ Len(args) # 0
           /\ (i + 1) - 1 = i /\ i + 1 >= 1 /\ i + 1 <= Len(args) + 1
BY SMTT(30)

\* kbuf keeps its words.
LEMMA KbufDomain ==
    ASSUME NEW p, NEW i, NEW W, DOMAIN kbuf = W, kbuf' = KbufWith(p, i)
    PROVE  kbuf' = [w \in W |-> kbuf'[w]]
BY SMTT(30) DEF KbufWith

\* The next argument is copied into kbuf; those before it stay.
LEMMA CopyinStep ==
    ASSUME ExecInv, NEW p \in Proc, NEW c \in CPU, copy_args_to_kbuf(p, c)
    PROVE  ExecInv'
<1> DEFINE args == pr[p].args
           i == pr[p].i
<1>0. /\ run[c] = p /\ pr[p].pc = "count" /\ i <= Len(args)
      /\ kbuf' = KbufWith(p, i) /\ pr' = [pr EXCEPT ![p].i = @ + 1]
      /\ UNCHANGED <<exec_lock, asp, run, file, panicked>>
  BY DEF copy_args_to_kbuf, On
<1>1. PICK bot \in UserPtrs :
          /\ tlb' = [tlb EXCEPT ![c] = Touched(p, c, 1)]
          /\ strayed' = (strayed \/ copyinstr(p, c, 1, bot, args[i]).stray)
  BY DEF copy_args_to_kbuf, Copied
<1>2. args \in Seq(Nat) /\ i \in Nat /\ i >= 1
  BY <1>0, Own, Fields DEF Counts
<1>3. i \in 1 .. Len(args) /\ args[i] \in Nat /\ Len(args) # 0 /\ (i + 1) - 1 = i /\ i + 1 >= 1 /\ i + 1 <= Len(args) + 1
  BY <1>0, <1>2, NextArg
<1>4. strayed' = FALSE
  BY <1>1, <1>3, Own, CopyinstrBound
<1>5. Becomes(p, pr[p].pc, pr[p].kind, pr[p].as, pr[p].other, args, i + 1, pr[p].argv, pr[p].spoiled)
  BY <1>0, Own, NextBecomes
<1>6. Len(<<>>) = 0 /\ 1 \in Int
  BY SMTT(30)
<1>7. pr[p].kind = "exec" /\ Loaded(pr[p].as) /\ pr[p].other = None
  BY <1>0, <1>3, <1>6, Own, Places
<1>8. /\ tlb' \in [CPU -> SUBSET TLBEntry] /\ \A d \in CPU \ {c} : tlb'[d] = tlb[d]
      /\ MapsOwn(c)'
  BY <1>0, <1>1, <1>5, <1>6, TouchedOwn DEF Becomes
<1>9. DOMAIN kbuf = 0 .. ARG_WORDS - 1 /\ kbuf' = [w \in 0 .. ARG_WORDS - 1 |-> kbuf'[w]]
  <2>1. DOMAIN kbuf = 0 .. ARG_WORDS - 1
    BY Own
  <2> QED
    BY <1>0, <2>1, KbufDomain
<1>10. Place(p)' /\ Counts(p)'
  BY <1>0, <1>3, <1>5, <1>7 DEF Place, Counts, Becomes, Loaded, SetUp
<1>11. ASSUME ~pr[p].spoiled PROVE Fits(args) /\ Holds(p, args, kbuf', i)
  <2>1. Fits(args) /\ Holds(p, args, kbuf, i - 1)
    BY <1>0, <1>7, <1>11, Own DEF Buffered
  <2> HIDE DEF i
  <2>2. Holds(p, args, KbufWith(p, i), i)
    BY <1>2, <1>3, <1>9, <2>1, KbufStep
  <2> QED
    BY <1>0, <2>1, <2>2
<1> HIDE DEF i, args
<1>12. Buffered(p)'
  BY <1>0, <1>3, <1>5, <1>11 DEF Buffered, Becomes, Building
<1>13. AspType' /\ \A a \in AS : asp'[a] = asp[a] /\ asp'[a].live = asp[a].live
  BY <1>0, Own, AspSame
<1>14. /\ file' \in Seq(Int) /\ panicked' \in BOOLEAN /\ exec_lock' = exec_lock
       /\ exec_lock = p /\ (pr[p].argv = "wrong" => pr[p].spoiled)
  BY <1>0, <1>7, Own
<1> QED
  BY <1>0, <1>4, <1>5, <1>7, <1>8, <1>9, <1>10, <1>12, <1>13, <1>14, OwnStep DEF Becomes, Dead

\* A step that decides what arguments the program gets.
LEMMA ArgvBecomes ==
    ASSUME Types, NEW p \in Proc, NEW pc \in PC, NEW argv \in {"none", "right", "wrong"},
           pr' = [pr EXCEPT ![p].pc = pc, ![p].argv = argv]
    PROVE  Becomes(p, pc, pr[p].kind, pr[p].as, pr[p].other, pr[p].args, pr[p].i, argv, pr[p].spoiled)
<1> DEFINE r == [pr[p] EXCEPT !.pc = pc, !.argv = argv]
<1>1. ProcType(pr[p])
  BY Fields
<1>2. /\ ProcType(r) /\ r.pc = pc /\ r.kind = pr[p].kind /\ r.as = pr[p].as /\ r.other = pr[p].other
      /\ r.args = pr[p].args /\ r.i = pr[p].i /\ r.argv = argv /\ r.spoiled = pr[p].spoiled
  BY <1>1, SMTT(30) DEF ProcType
<1>3. pr' = [pr EXCEPT ![p] = r]
  BY DEF Types, PrType
<1> HIDE DEF r
<1> QED
  BY <1>2, <1>3, Update DEF Becomes

\* The arguments are copied to the new stack: kbuf holds all of them, so what
\* arrives is right unless it was spoiled.
LEMMA CopyoutStep ==
    ASSUME ExecInv, NEW p \in Proc, NEW c \in CPU, copyout_args(p, c)
    PROVE  ExecInv'
<1> DEFINE args == pr[p].args
           bot == USERSPACETOP - buflen(p)
           copy == copyout(p, c, Stack, bot, buflen(p))
           pc == IF copy.ok THEN "release" ELSE "undo"
           argv == IF ~copy.ok THEN "none" ELSE IF Right(p, kbuf') THEN "right" ELSE "wrong"
<1>0. /\ run[c] = p /\ pr[p].pc = "args" /\ pr[p].kind = "exec" /\ SetUp(pr[p].as)
      /\ kbuf' = Changed(Len(args))
      /\ UNCHANGED <<exec_lock, asp, run, file, panicked>>
  BY DEF copyout_args, On
<1>1. /\ tlb' = IF copy.ok THEN [tlb EXCEPT ![c] = Touched(p, c, Stack)] ELSE tlb
      /\ strayed' = (strayed \/ copy.stray)
      /\ pr' = [pr EXCEPT ![p].pc = pc, ![p].argv = argv]
  BY DEF copyout_args
<1>2. args \in Seq(Nat) /\ USERSPACETOP \in Nat
  BY Own, Fields, ExecAssumption
<1>3. buflen(p) \in Nat
  <2>1. Len(args) + 1 \in 1 .. Len(args) + 1
    BY <1>2, SMTT(30)
  <2> QED
    BY <1>2, <2>1, StringWords DEF buflen
<1>4. bot \in Int /\ buflen(p) \in Int /\ bot + buflen(p) <= USERSPACETOP
  BY <1>2, <1>3, SMTT(30)
<1> HIDE DEF bot
<1>5. copy.stray = FALSE
  BY <1>4, CopyoutBound
<1> HIDE DEF copy
<1>6. strayed' = FALSE
  BY <1>1, <1>5, Own
<1>7. DOMAIN kbuf = 0 .. ARG_WORDS - 1 /\ kbuf' = [w \in 0 .. ARG_WORDS - 1 |-> kbuf'[w]]
  <2>1. DOMAIN kbuf = 0 .. ARG_WORDS - 1
    BY Own
  <2> QED
    BY <1>0, <2>1 DEF Changed
<1>8. ASSUME ~pr[p].spoiled PROVE Right(p, kbuf') /\ Fits(args)
  <2>1. Fits(args) /\ Holds(p, args, kbuf, Len(args))
    BY <1>0, <1>8, Own DEF Buffered, Building
  <2>2. Right(p, Changed(Len(args)))
    BY <1>2, <1>7, <2>1, ChangedRight
  <2> QED
    BY <1>0, <2>1, <2>2
<1>9. /\ pc \in PC /\ argv \in {"none", "right", "wrong"} /\ (copy.ok => pc = "release") /\ (~copy.ok => pc = "undo")
      /\ pc \notin Dead /\ pc \notin Building /\ pc \notin {"count", "define", "load"}
  BY DEF PC, Settled, Dead, Building
<1>10. argv = "wrong" => pr[p].spoiled
  BY <1>8
<1> HIDE DEF pc, argv
<1>11. Becomes(p, pc, pr[p].kind, pr[p].as, pr[p].other, args, pr[p].i, argv, pr[p].spoiled)
  BY <1>1, <1>9, Own, ArgvBecomes
<1>12. pr[p].as # None /\ asp[pr[p].as].done /\ Loaded(pr[p].other)
  BY <1>0, Own, Places DEF Building
<1>13. Place(p)'
  BY <1>0, <1>9, <1>11, <1>12 DEF Place, Settled, Becomes, Loaded, SetUp
<1>14. Counts(p)' /\ Buffered(p)'
  BY <1>8, <1>9, <1>11 DEF Counts, Buffered, Becomes
<1>15. /\ tlb' \in [CPU -> SUBSET TLBEntry] /\ \A d \in CPU \ {c} : tlb'[d] = tlb[d]
       /\ MapsOwn(c)'
  <2>1. Stack \in Int
    BY SMTT(30) DEF Stack
  <2>2. CASE copy.ok
    <3>1. tlb' = [tlb EXCEPT ![c] = Touched(p, c, Stack)]
      BY <1>1, <2>2
    <3> QED
      BY <1>0, <1>11, <2>1, <3>1, TouchedOwn DEF Becomes
  <2>3. CASE ~copy.ok
    BY <2>3, <1>0, <1>1, <1>11, MapsKept DEF Becomes
  <2> QED
    BY <2>2, <2>3
<1>16. AspType' /\ \A a \in AS : asp'[a] = asp[a] /\ asp'[a].live = asp[a].live
  BY <1>0, Own, AspSame
<1>17. /\ file' \in Seq(Int) /\ panicked' \in BOOLEAN /\ exec_lock' = exec_lock /\ exec_lock = p
  BY <1>0, Own
<1> HIDE DEF args
<1> QED
  BY <1>0, <1>6, <1>7, <1>9, <1>10, <1>11, <1>13, <1>14, <1>15, <1>16, <1>17, OwnStep DEF Becomes

\* p takes address spaces nobody has, or gives up or exchanges its own.
Moves(p, as, other) ==
    /\ as \in AS \cup {None} /\ other \in AS \cup {None} /\ (as # None => as # other)
    /\ \A a \in {as, other} : a # None => asp'[a].live /\ (a \in {pr[p].as, pr[p].other} \/ ~asp[a].live)
    /\ \A a \in AS : a \notin {pr[p].as, pr[p].other, as, other} => asp'[a].live = asp[a].live
    /\ \A a \in AS : a \in {pr[p].as, pr[p].other} /\ a \notin {as, other} => ~asp'[a].live

\* A process exchanges its two address spaces, or gives one up or takes a new
\* one.
LEMMA OwnedMove ==
    ASSUME Types, Owned, NEW p \in Proc, \A q \in Proc \ {p} : pr'[q] = pr[q],
           NEW as, NEW other, pr'[p].as = as, pr'[p].other = other, Moves(p, as, other)
    PROVE  Owned'
<1>0. /\ as \in AS \cup {None} /\ other \in AS \cup {None} /\ (as # None => as # other)
      /\ \A a \in {as, other} : a # None => asp'[a].live /\ (a \in {pr[p].as, pr[p].other} \/ ~asp[a].live)
      /\ \A a \in AS : a \notin {pr[p].as, pr[p].other, as, other} => asp'[a].live = asp[a].live
      /\ \A a \in AS : a \in {pr[p].as, pr[p].other} /\ a \notin {as, other} => ~asp'[a].live
  BY DEF Moves
<1>1. ASSUME NEW q \in Proc, q # p, NEW a \in {pr[q].as, pr[q].other}, a # None
      PROVE  a \in AS /\ a \notin {as, other} /\ asp'[a].live
  <2>1. a \in AS /\ a # pr[p].as /\ a # pr[p].other
    BY <1>1, OwnApart
  <2>2. asp[a].live
    <3>1. /\ pr[q].as # None => asp[pr[q].as].live
          /\ pr[q].other # None => asp[pr[q].other].live
      BY DEF Owned
    <3>2. CASE a = pr[q].as
      BY <1>1, <3>1, <3>2
    <3>3. CASE a = pr[q].other
      BY <1>1, <3>1, <3>3
    <3> QED
      BY <1>1, <3>2, <3>3
  <2>3. a \notin {as, other}
    <3>1. ASSUME a \in {as, other} PROVE FALSE
      BY <1>0, <1>1, <2>1, <2>2, <3>1
    <3> QED
      BY <3>1
  <2>4. asp'[a].live = asp[a].live
    BY <1>0, <2>1, <2>3
  <2> QED
    BY <2>1, <2>2, <2>3, <2>4
<1>2. ASSUME NEW q \in Proc
      PROVE  /\ pr'[q].as # None => asp'[pr'[q].as].live
             /\ pr'[q].other # None => asp'[pr'[q].other].live
  BY <1>0, <1>1
<1>3. ASSUME NEW q \in Proc, NEW r \in Proc
      PROVE  /\ pr'[q].as # None /\ pr'[q].as = pr'[r].as => q = r
             /\ pr'[q].other # None /\ pr'[q].other = pr'[r].other => q = r
             /\ pr'[q].as # None => pr'[q].as # pr'[r].other
  <2>1. CASE q # p /\ r # p
    <3>1. /\ pr[q].as # None /\ pr[q].as = pr[r].as => q = r
          /\ pr[q].other # None /\ pr[q].other = pr[r].other => q = r
          /\ pr[q].as # None => pr[q].as # pr[r].other
      BY DEF Owned
    <3>2. pr'[q] = pr[q] /\ pr'[r] = pr[r]
      BY <2>1
    <3> QED
      BY <3>1, <3>2
  <2>2. CASE q = p /\ r # p
    <3>1. pr'[r] = pr[r]
      BY <2>2
    <3>2. /\ pr[r].as # None => pr[r].as \notin {as, other}
          /\ pr[r].other # None => pr[r].other \notin {as, other}
      BY <1>1, <2>2
    <3> QED
      BY <2>2, <3>1, <3>2
  <2>3. CASE q # p /\ r = p
    <3>1. pr'[q] = pr[q]
      BY <2>3
    <3>2. /\ pr[q].as # None => pr[q].as \notin {as, other}
          /\ pr[q].other # None => pr[q].other \notin {as, other}
      BY <1>1, <2>3
    <3> QED
      BY <2>3, <3>1, <3>2
  <2>4. CASE q = p /\ r = p
    BY <1>0, <2>4
  <2> QED
    BY <2>1, <2>2, <2>3, <2>4
<1>4. ASSUME NEW a \in AS, asp'[a].live
      PROVE  \E q \in Proc : pr'[q].as = a \/ pr'[q].other = a
  <2>1. CASE a \in {as, other}
    BY <2>1
  <2>2. CASE a \notin {as, other}
    <3>1. a \notin {pr[p].as, pr[p].other} /\ asp[a].live
      BY <1>0, <1>4, <2>2
    <3>2. PICK q \in Proc : pr[q].as = a \/ pr[q].other = a
      BY <3>1 DEF Owned
    <3>3. q # p
      BY <3>1, <3>2
    <3> QED
      BY <3>2, <3>3
  <2> QED
    BY <2>1, <2>2
<1> QED
  BY <1>2, <1>3, <1>4 DEF Owned

\* execv's way back: proc_setas of the old address space.
LEMMA SetasStep ==
    ASSUME ExecInv, NEW p \in Proc, NEW c \in CPU, undo_setas(p, c)
    PROVE  ExecInv'
<1> DEFINE r == [proc_setas(pr[p], pr[p].other) EXCEPT !.pc = "undo_activate"]
<1>0. /\ run[c] = p /\ pr[p].pc = "undo" /\ pr' = [pr EXCEPT ![p] = r]
      /\ UNCHANGED <<exec_lock, kbuf, asp, tlb, run, file, panicked, strayed>>
  BY DEF undo_setas, On
<1>1. ProcType(pr[p]) /\ "undo_activate" \in PC
  BY Own, Fields DEF PC, Settled
<1>2. /\ ProcType(r) /\ r.pc = "undo_activate" /\ r.kind = pr[p].kind /\ r.as = pr[p].other /\ r.other = pr[p].as
      /\ r.args = pr[p].args /\ r.i = pr[p].i /\ r.argv = pr[p].argv /\ r.spoiled = pr[p].spoiled
  BY <1>1, SMTT(30) DEF ProcType, proc_setas
<1> HIDE DEF r
<1>3. Becomes(p, "undo_activate", pr[p].kind, pr[p].other, pr[p].as, pr[p].args, pr[p].i, pr[p].argv, pr[p].spoiled)
  <2>1. PrType' /\ pr'[p] = r /\ \A q \in Proc \ {p} : pr'[q] = pr[q]
    BY <1>0, <1>2, Own, Update
  <2> QED
    BY <1>2, <2>1 DEF Becomes
<1>4. pr[p].kind = "exec" /\ pr[p].as # None /\ Loaded(pr[p].other)
  BY <1>0, Own, Places
<1>5. pr[p].as \in AS /\ pr[p].other \in AS
  BY <1>4, Own, Fields DEF Loaded
<1>6. pr[p].as # pr[p].other /\ asp[pr[p].as].live /\ asp[pr[p].other].live
  BY <1>4, <1>5, Own, ExecAssumption DEF Owned
<1>7. Types'
  BY <1>0, <1>3, Own DEF Becomes, Types, AspType
<1>8. Owned'
  <2>1. \A a \in AS : asp'[a] = asp[a]
    BY <1>0
  <2>2. Types /\ Owned
    BY Own
  <2>3. \A q \in Proc \ {p} : pr'[q] = pr[q]
    BY <1>3 DEF Becomes
  <2>4. pr'[p].as = pr[p].other /\ pr'[p].other = pr[p].as
    BY <1>3 DEF Becomes
  <2>5. Moves(p, pr[p].other, pr[p].as)
    BY <1>5, <1>6, <2>1 DEF Moves
  <2> QED
    BY <2>2, <2>3, <2>4, <2>5, OwnedMove
<1>9. Place(p)'
  BY <1>0, <1>3, <1>4 DEF Place, Settled, Becomes, Loaded, SetUp
<1>10. Counts(p)' /\ MapsOwn(c)'
  BY <1>0, <1>3 DEF Counts, MapsOwn, Becomes
<1>11. Buffered(p)'
  BY <1>0, <1>3, Own, BufferedMove DEF Becomes, Building
<1>12. /\ exec_lock' = exec_lock /\ (pr[p].kind = "exec" => exec_lock = p) /\ (pr[p].argv = "wrong" => pr[p].spoiled)
       /\ ~strayed' /\ run' = run /\ tlb' = tlb /\ kbuf' = kbuf /\ asp' = asp
  BY <1>0, Own
<1> QED
  BY <1>0, <1>3, <1>7, <1>8, <1>9, <1>10, <1>11, <1>12, LocalStep DEF Becomes, Dead

\* The executable is opened, and proc_setas sets a new address space.
LEMMA OpenStep ==
    ASSUME ExecInv, NEW p \in Proc, NEW c \in CPU, open_and_setas(p, c)
    PROVE  ExecInv'
<1>0. /\ run[c] = p /\ pr[p].pc = "count" /\ pr[p].i > Len(pr[p].args)
      /\ UNCHANGED <<exec_lock, kbuf, tlb, run, file, panicked, strayed>>
  BY DEF open_and_setas, On
<1>1. PICK a \in AS : /\ ~asp[a].live /\ asp' = [asp EXCEPT ![a].live = TRUE]
                      /\ pr' = [pr EXCEPT ![p] = [proc_setas(pr[p], a) EXCEPT !.pc = "activate"]]
  BY DEF open_and_setas, as_create
<1> DEFINE r == [proc_setas(pr[p], a) EXCEPT !.pc = "activate"]
           s == [asp[a] EXCEPT !.live = TRUE]
<1>2. ProcType(pr[p]) /\ "activate" \in PC
  BY Own, Fields DEF PC, Building
<1>3. /\ ProcType(r) /\ r.pc = "activate" /\ r.kind = pr[p].kind /\ r.as = a /\ r.other = pr[p].as
      /\ r.args = pr[p].args /\ r.i = pr[p].i /\ r.argv = pr[p].argv /\ r.spoiled = pr[p].spoiled
  BY <1>2, SMTT(30) DEF ProcType, proc_setas
<1>4. ASType(asp[a])
  BY Own DEF AspType
<1>5. ASType(s) /\ s.live = TRUE
  BY <1>4, SMTT(30) DEF ASType
<1>6. pr' = [pr EXCEPT ![p] = r] /\ asp' = [asp EXCEPT ![a] = s]
  BY <1>1
<1> HIDE DEF r, s
<1>7. Becomes(p, "activate", pr[p].kind, a, pr[p].as, pr[p].args, pr[p].i, pr[p].argv, pr[p].spoiled)
  BY <1>3, <1>6, Own, Update DEF Becomes
<1>8. AspType' /\ asp'[a].live /\ \A b \in AS : b # a => asp'[b] = asp[b]
  BY <1>5, <1>6, Own DEF AspType
<1>9. /\ pr[p].other = None
      /\ \/ pr[p].kind = "exec" /\ Loaded(pr[p].as)
         \/ pr[p].kind = "run" /\ pr[p].as = None /\ pr[p].args = <<>>
  BY <1>0, Own, Places
<1>10. /\ pr[p].as \in AS \cup {None} /\ (pr[p].as # None => asp[pr[p].as].live) /\ None \notin AS
  BY Own, Fields, ExecAssumption DEF Owned
<1>11. pr[p].as # a /\ a # None
  BY <1>1, <1>10
<1>12. Owned'
  <2>1. Moves(p, a, pr[p].as)
    BY <1>1, <1>8, <1>9, <1>10, <1>11 DEF Moves
  <2>2. /\ \A q \in Proc \ {p} : pr'[q] = pr[q]
        /\ pr'[p].as = a /\ pr'[p].other = pr[p].as
    BY <1>7 DEF Becomes
  <2>3. Types /\ Owned
    BY Own
  <2> QED
    BY <2>1, <2>2, <2>3, OwnedMove
<1>13. \A q \in Proc \ {p} : \A b : b \in {pr[q].as, pr[q].other} /\ b # None => asp'[b] = asp[b]
  <2>1. ASSUME NEW q \in Proc, NEW b \in {pr[q].as, pr[q].other}, b # None PROVE asp'[b] = asp[b]
    <3>1. pr[q].as \in AS \cup {None} /\ pr[q].other \in AS \cup {None}
      BY Own, Fields
    <3>2. /\ pr[q].as # None => asp[pr[q].as].live
          /\ pr[q].other # None => asp[pr[q].other].live
      BY Own DEF Owned
    <3>3. b \in AS /\ asp[b].live
      BY <2>1, <3>1, <3>2
    <3> QED
      BY <3>3, <1>1, <1>8
  <2> QED
    BY <2>1
<1>14. Place(p)'
  <2>1. pr[p].as # None => asp'[pr[p].as] = asp[pr[p].as]
    BY <1>8, <1>10, <1>11
  <2> QED
    BY <1>7, <1>9, <1>11, <2>1 DEF Place, Building, Becomes, Loaded, SetUp
<1>15. Counts(p)' /\ MapsOwn(c)'
  BY <1>0, <1>7 DEF Counts, MapsOwn, Becomes
<1>16. Buffered(p)'
  <2>1. pr[p].i \in Nat /\ pr[p].args \in Seq(Nat) /\ Buffered(p)
    BY Own, Fields
  <2>2. pr[p].i <= Len(pr[p].args) + 1 => pr[p].i - 1 = Len(pr[p].args)
    BY <1>0, <2>1, SMTT(30)
  <2> QED
    BY <1>0, <1>7, <2>1, <2>2 DEF Buffered, Becomes
<1>17. /\ exec_lock' = exec_lock /\ (pr[p].kind = "exec" => exec_lock = p) /\ (pr[p].argv = "wrong" => pr[p].spoiled)
       /\ ~strayed' /\ run' = run /\ tlb' = tlb /\ kbuf' = kbuf
  BY <1>0, Own
<1>18. Types'
  BY <1>0, <1>7, <1>8, Own DEF Becomes, Types
<1> QED
  BY <1>0, <1>7, <1>12, <1>13, <1>14, <1>15, <1>16, <1>17, <1>18, LocalStep DEF Becomes, Dead

\* as_destroy: what a TLB maps of the running process's own memory stays mapped.
LEMMA Destroyed ==
    ASSUME ExecInv, NEW a \in AS, as_destroy(a), run' = run,
           \A d \in CPU : run[d] # None =>
               /\ pr'[run[d]].as = pr[run[d]].as /\ pr[run[d]].as # a
               /\ pr[run[d]].pc \in {"activate", "undo_activate"} => pr'[run[d]].pc = pr[run[d]].pc
    PROVE  tlb' \in [CPU -> SUBSET TLBEntry] /\ \A d \in CPU : MapsOwn(d)'
<1> DEFINE f(e) == [e EXCEPT !.as = IF e.as = a THEN None ELSE e.as]
<1>1. tlb' = [d \in CPU |-> {f(e) : e \in tlb[d]}] /\ tlb \in [CPU -> SUBSET TLBEntry]
  BY DEF as_destroy, ExecInv, Types
<1>2. \A e \in TLBEntry : f(e) \in TLBEntry /\ (e.as # a => f(e).as = e.as)
  BY SMTT(30) DEF TLBEntry
<1> HIDE DEF f
<1>3. tlb' \in [CPU -> SUBSET TLBEntry]
  <2>1. ASSUME NEW d \in CPU PROVE {f(e) : e \in tlb[d]} \subseteq TLBEntry
    BY <1>1, <1>2
  <2> QED
    BY <1>1, <2>1
<1>4. ASSUME NEW d \in CPU PROVE MapsOwn(d)'
  <2>1. MapsOwn(d)
    BY DEF ExecInv
  <2>2. SUFFICES ASSUME run[d] # None, \A e \in tlb[d] : e.as = pr[run[d]].as
                 PROVE  \A e \in tlb'[d] : e.as = pr[run[d]].as
    BY <2>1, <2>2 DEF MapsOwn
  <2>3. ASSUME NEW e \in tlb[d] PROVE f(e).as = pr[run[d]].as
    BY <1>1, <1>2, <2>2, <2>3
  <2> QED
    BY <1>1, <2>3
<1> QED
  BY <1>3, <1>4

WithoutOther(u, pc, r) ==
    r = [u EXCEPT !.pc = pc, !.other = None] \/ (u.pc = pc /\ r = [u EXCEPT !.other = None])

\* The record of a process that has destroyed its other address space.
LEMMA Dropped ==
    ASSUME NEW u, ProcType(u), NEW pc \in PC, NEW r, WithoutOther(u, pc, r)
    PROVE  /\ ProcType(r) /\ r.pc = pc /\ r.kind = u.kind /\ r.as = u.as /\ r.other = None
           /\ r.args = u.args /\ r.i = u.i /\ r.argv = u.argv /\ r.spoiled = u.spoiled
<1>1. CASE r = [u EXCEPT !.pc = pc, !.other = None]
  BY <1>1, SMTT(30) DEF ProcType
<1>2. CASE u.pc = pc /\ r = [u EXCEPT !.other = None]
  BY <1>2, SMTT(30) DEF ProcType
<1> QED
  BY <1>1, <1>2 DEF WithoutOther

\* p's other address space is destroyed, and execv is over but for kbuf.
LEMMA DropStep ==
    ASSUME ExecInv, NEW p \in Proc, NEW c \in CPU, undo_destroy(p, c) \/ execv_release(p, c)
    PROVE  ExecInv'
<1>0. /\ run[c] = p /\ pr[p].pc \in {"undo_destroy", "release"} /\ exec_lock' = None
      /\ as_destroy(pr[p].other)
      /\ UNCHANGED <<kbuf, run, file, panicked, strayed>>
  BY DEF undo_destroy, execv_release, On
<1> DEFINE u == ToUser(pr[p])
           b == pr[p].other
<1>1. ProcType(pr[p]) /\ "user" \in PC
  BY Own, Fields DEF PC, Resting
<1>u. /\ ProcType(u) /\ u.pc = "user" /\ u.kind = "none" /\ u.as = pr[p].as
      /\ u.args = <<>> /\ u.i = 0 /\ u.argv = "none" /\ u.spoiled = FALSE
  BY <1>1, SMTT(30) DEF ProcType, ToUser
<1>v. PICK pc \in {"user", "flush"} : \E r : pr' = [pr EXCEPT ![p] = r] /\ WithoutOther(u, pc, r)
  BY <1>u DEF undo_destroy, execv_release, WithoutOther
<1>2. PICK r : pr' = [pr EXCEPT ![p] = r] /\ WithoutOther(u, pc, r)
  BY <1>v
<1> HIDE DEF u
<1>3. pc \in PC
  BY DEF PC, Resting
<1>4. /\ ProcType(r) /\ r.pc = pc /\ r.kind = "none" /\ r.as = pr[p].as /\ r.other = None
      /\ r.args = <<>> /\ r.i = 0 /\ r.argv = "none" /\ r.spoiled = FALSE
  <2>1. ProcType(u)
    BY <1>u
  <2>2. /\ ProcType(r) /\ r.pc = pc /\ r.kind = u.kind /\ r.as = u.as /\ r.other = None
        /\ r.args = u.args /\ r.i = u.i /\ r.argv = u.argv /\ r.spoiled = u.spoiled
    BY <1>2, <1>3, <2>1, Dropped
  <2> QED
    BY <1>u, <2>2
<1>5. Becomes(p, pc, "none", pr[p].as, None, <<>>, 0, "none", FALSE)
  BY <1>2, <1>4, Own, Update DEF Becomes
<1>6. pr[p].kind = "exec" /\ Loaded(pr[p].as) /\ b # None
  BY <1>0, Own, Places DEF Settled
<1>7. b \in AS /\ pr[p].as \in AS /\ pr[p].as # None
  BY <1>6, Own, Fields DEF Loaded
<1>8. pr[p].as # b /\ asp[pr[p].as].live
  BY <1>7, Own DEF Owned
<1>9. AspType' /\ ~asp'[b].live /\ \A a \in AS : a # b => asp'[a] = asp[a]
  <2>1. asp' = [asp EXCEPT ![b] = NoAS]
    BY <1>0 DEF as_destroy
  <2>2. ASType(NoAS) /\ ~NoAS.live
    BY SMTT(30) DEF ASType, NoAS
  <2> QED
    BY <1>7, <2>1, <2>2, Own DEF AspType
<1>10. Owned'
  <2>1. Moves(p, pr[p].as, None)
    BY <1>7, <1>8, <1>9 DEF Moves
  <2>2. /\ \A q \in Proc \ {p} : pr'[q] = pr[q]
        /\ pr'[p].as = pr[p].as /\ pr'[p].other = None
    BY <1>5 DEF Becomes
  <2>3. Types /\ Owned
    BY Own
  <2> QED
    BY <2>1, <2>2, <2>3, OwnedMove
<1>11. \A q \in Proc \ {p} : \A a : a \in {pr[q].as, pr[q].other} /\ a # None => asp'[a] = asp[a]
  <2>1. \A a \in AS : a \notin {pr[p].as, pr[p].other} => asp'[a] = asp[a]
    BY <1>9
  <2> QED
    BY <2>1, Own, OthersMemory
<1>12. tlb' \in [CPU -> SUBSET TLBEntry] /\ \A d \in CPU : MapsOwn(d)'
  <2>1. ASSUME NEW d \in CPU, run[d] # None
        PROVE  /\ pr'[run[d]].as = pr[run[d]].as /\ pr[run[d]].as # b
               /\ pr[run[d]].pc \in {"activate", "undo_activate"} => pr'[run[d]].pc = pr[run[d]].pc
    <3>1. run[d] \in Proc
      BY <2>1 DEF ExecInv, Types
    <3>2. CASE run[d] = p
      BY <1>0, <1>5, <1>8, <3>2 DEF Becomes
    <3>3. CASE run[d] # p
      <4>1. pr'[run[d]] = pr[run[d]]
        BY <1>5, <3>1, <3>3 DEF Becomes
      <4>2. pr[run[d]].as # b
        BY <1>6, <3>1, <3>3, Own, OwnApart
      <4> QED
        BY <4>1, <4>2
    <3> QED
      BY <3>2, <3>3
  <2> HIDE DEF b
  <2>2. as_destroy(b) /\ run' = run
    BY <1>0 DEF b
  <2> QED
    BY <1>7, <2>1, <2>2, Destroyed
<1>13. asp'[pr[p].as] = asp[pr[p].as]
  BY <1>7, <1>8, <1>9
<1>14. Place(p)' /\ Counts(p)' /\ Buffered(p)'
  BY <1>5, <1>6, <1>13 DEF Place, Counts, Buffered, Resting, Becomes, Loaded, SetUp
<1>15. /\ \A q \in Proc \ {p} : exec_lock = q => exec_lock' = q
       /\ ~strayed' /\ run' = run /\ kbuf' = kbuf
  BY <1>0, <1>6, Own
<1>16. Types'
  BY <1>0, <1>5, <1>9, <1>12, Own DEF Becomes, Types
<1> QED
  BY <1>0, <1>5, <1>10, <1>11, <1>12, <1>14, <1>15, <1>16, LocalStep DEF Becomes, Dead

\* A process that ends leaves its CPU.
LEMMA OffStep ==
    ASSUME ExecInv, NEW p \in Proc, NEW c \in CPU, sys__exit(p, c) \/ cmd_progthread(p, c)
    PROVE  ExecInv'
<1>0. PICK pc \in {"exited", "failed"} :
         /\ run[c] = p /\ pr[p].pc = IF pc = "exited" THEN "user" ELSE "exit"
         /\ To(p, pc) /\ run' = [run EXCEPT ![c] = None]
         /\ UNCHANGED <<kbuf, asp, tlb, file, panicked, strayed>>
         /\ exec_lock' = exec_lock \/ exec_lock = p
  BY DEF sys__exit, cmd_progthread, Off, On
<1>1. Becomes(p, pc, pr[p].kind, pr[p].as, pr[p].other, pr[p].args, pr[p].i, pr[p].argv, pr[p].spoiled)
  BY <1>0, Own, ToBecomes DEF PC, Resting, Ending
<1>2. /\ run \in [CPU -> Proc \cup {None}] /\ tlb \in [CPU -> SUBSET TLBEntry] /\ None \notin Proc
  BY ExecAssumption DEF ExecInv, Types
<1>3. run' \in [CPU -> Proc \cup {None}] /\ run'[c] = None /\ \A d \in CPU \ {c} : run'[d] = run[d]
  BY <1>0, <1>2
<1>4. ASSUME NEW d \in CPU, run'[d] # None
      PROVE  d # c /\ run'[d] = run[d] /\ run[d] \in Proc /\ pr'[run[d]] = pr[run[d]]
  <2>1. d # c /\ run'[d] = run[d]
    BY <1>3, <1>4
  <2>2. run[d] \in Proc /\ run[d] # p
    BY <1>0, <1>2, <1>4, <2>1 DEF ExecInv, Running
  <2> QED
    BY <1>1, <2>1, <2>2 DEF Becomes
<1>5. Running'
  <2>1. ASSUME NEW d \in CPU, run'[d] # None PROVE pr'[run'[d]].pc \notin {"none", "exited", "failed"}
    BY <1>4, <2>1 DEF ExecInv, Running
  <2>2. ASSUME NEW d \in CPU, NEW e \in CPU, run'[d] # None, run'[d] = run'[e] PROVE d = e
    BY <1>4, <2>2 DEF ExecInv, Running
  <2> QED
    BY <2>1, <2>2 DEF Running
<1>6. \A d \in CPU : MapsOwn(d)'
  <2>1. ASSUME NEW d \in CPU, run'[d] # None PROVE MapsOwn(d)'
    <3>1. MapsOwn(d)
      BY DEF ExecInv
    <3> QED
      BY <1>0, <1>4, <2>1, <3>1 DEF MapsOwn
  <2> QED
    BY <2>1 DEF MapsOwn
<1>7. AspType' /\ \A a \in AS : asp'[a] = asp[a] /\ asp'[a].live = asp[a].live
  BY <1>0, Own, AspSame
<1>8. Owned'
  BY <1>1, <1>7, Own, OwnedKept DEF Becomes
<1>9. pr[p].kind # "exec" /\ Place(p)' /\ Counts(p)' /\ Buffered(p)'
  <2>1. CASE pc = "exited"
    <3>1. pr[p].kind = "none" /\ Loaded(pr[p].as) /\ pr[p].other = None
      BY <1>0, <2>1, Own, Places DEF Resting
    <3> QED
      BY <1>0, <1>1, <2>1, <3>1 DEF Place, Counts, Buffered, Resting, Becomes, Loaded, SetUp
  <2>2. CASE pc = "failed"
    <3>1. pr[p].kind = "run" /\ pr[p].other = None
      BY <1>0, <2>2, Own, Places DEF Ending
    <3> QED
      BY <1>1, <2>2, <3>1 DEF Place, Counts, Buffered, Ending, Becomes
  <2> QED
    BY <2>1, <2>2
<1>10. Types'
  BY <1>0, <1>1, <1>2, <1>3, <1>7, Own DEF Becomes, Types
<1>11. /\ ~strayed' /\ kbuf' = kbuf /\ asp' = asp /\ (pr[p].argv = "wrong" => pr[p].spoiled)
       /\ \A q \in Proc \ {p} : exec_lock = q => exec_lock' = q
  BY <1>0, Own
<1> QED
  BY <1>1, <1>5, <1>6, <1>8, <1>9, <1>10, <1>11, OneStep DEF Becomes

\* What execv_flush makes of a process's record.
LEMMA FlushRecord ==
    ASSUME NEW r, ProcType(r), NEW s, s = [r EXCEPT !.spoiled = TRUE]
    PROVE  /\ ProcType(s) /\ s.pc = r.pc /\ s.kind = r.kind /\ s.as = r.as /\ s.other = r.other
           /\ s.args = r.args /\ s.i = r.i /\ s.argv = r.argv /\ s.spoiled = TRUE
BY SMTT(30) DEF ProcType

\* The record of a process that goes on to the next header or argument.
LEMMA CountRecord ==
    ASSUME NEW r, ProcType(r), NEW s, s = [r EXCEPT !.i = @ + 1]
    PROVE  /\ ProcType(s) /\ s.pc = r.pc /\ s.kind = r.kind /\ s.as = r.as /\ s.other = r.other
           /\ s.argv = r.argv /\ s.spoiled = r.spoiled
BY SMTT(30) DEF ProcType

\* The record of a process that returns to user mode.
LEMMA UserRecord ==
    ASSUME NEW r, ProcType(r), NEW s, s = ToUser(r)
    PROVE  /\ ProcType(s) /\ s.pc = "user" /\ s.kind = "none" /\ s.as = r.as /\ s.other = r.other
           /\ s.argv = "none" /\ s.spoiled = FALSE
<1>1. "user" \in PC
  BY DEF PC, Resting
<1> QED
  BY <1>1, SMTT(30) DEF ProcType, ToUser

\* execv clears kbuf after it has released exec_lock; whoever has the lock by
\* then is marked spoiled.
LEMMA FlushStep ==
    ASSUME ExecInv, NEW p \in Proc, NEW c \in CPU, execv_flush(p, c)
    PROVE  ExecInv'
<1>0. /\ run[c] = p /\ pr[p].pc = "flush"
      /\ kbuf' = [kbuf EXCEPT ![pr[p].i] = Zero]
      /\ pr' = [q \in Proc |->
                 IF q = p THEN IF pr[p].i = ARG_WORDS - 1 THEN ToUser(pr[p]) ELSE [pr[p] EXCEPT !.i = @ + 1]
                 ELSE IF q = exec_lock THEN [pr[q] EXCEPT !.spoiled = TRUE] ELSE pr[q]]
      /\ UNCHANGED <<exec_lock, asp, tlb, run, file, panicked, strayed>>
  BY DEF execv_flush, On, enter_new_process
<1>1. /\ DOMAIN pr' = Proc
      /\ pr'[p] = ToUser(pr[p]) \/ pr'[p] = [pr[p] EXCEPT !.i = @ + 1]
      /\ \A q \in Proc \ {p} : /\ q = exec_lock => pr'[q] = [pr[q] EXCEPT !.spoiled = TRUE]
                               /\ q # exec_lock => pr'[q] = pr[q]
  BY <1>0
<1>2. \A q \in Proc : ProcType(pr[q])
  BY Own, Fields
<1>3. pr[p].kind = "none" /\ Loaded(pr[p].as) /\ pr[p].other = None
  BY <1>0, Own, Places DEF Resting
<1>4. /\ ProcType(pr'[p]) /\ pr'[p].pc \in {"user", "flush"} /\ pr'[p].kind = "none"
      /\ pr'[p].as = pr[p].as /\ pr'[p].other = pr[p].other
      /\ pr'[p].argv = "wrong" => pr'[p].spoiled
  <2> DEFINE s == pr'[p]
  <2>p. ProcType(pr[p])
    BY <1>2
  <2>1. CASE s = ToUser(pr[p])
    <3> HIDE DEF s
    <3>1. /\ ProcType(s) /\ s.pc = "user" /\ s.kind = "none" /\ s.as = pr[p].as /\ s.other = pr[p].other
          /\ s.argv = "none" /\ s.spoiled = FALSE
      BY <2>p, <2>1, UserRecord
    <3> QED
      BY <3>1 DEF s
  <2>2. CASE s = [pr[p] EXCEPT !.i = @ + 1]
    <3> HIDE DEF s
    <3>1. /\ ProcType(s) /\ s.pc = pr[p].pc /\ s.kind = pr[p].kind /\ s.as = pr[p].as /\ s.other = pr[p].other
          /\ s.argv = pr[p].argv /\ s.spoiled = pr[p].spoiled
      BY <2>p, <2>2, CountRecord
    <3> QED
      BY <1>0, <1>3, <3>1, Own DEF s
  <2> QED
    BY <1>1, <2>1, <2>2
<1>5. ASSUME NEW q \in Proc \ {p}
      PROVE  /\ ProcType(pr'[q]) /\ pr'[q].pc = pr[q].pc /\ pr'[q].kind = pr[q].kind
             /\ pr'[q].as = pr[q].as /\ pr'[q].other = pr[q].other
             /\ pr'[q].args = pr[q].args /\ pr'[q].i = pr[q].i /\ pr'[q].argv = pr[q].argv
             /\ pr[q].spoiled => pr'[q].spoiled
             /\ q = exec_lock => pr'[q].spoiled
  <2>1. CASE q = exec_lock
    <3> DEFINE s == pr'[q]
    <3>1. ProcType(pr[q]) /\ s = [pr[q] EXCEPT !.spoiled = TRUE]
      BY <1>1, <1>2, <2>1
    <3> HIDE DEF s
    <3>2. /\ ProcType(s) /\ s.pc = pr[q].pc /\ s.kind = pr[q].kind /\ s.as = pr[q].as /\ s.other = pr[q].other
          /\ s.args = pr[q].args /\ s.i = pr[q].i /\ s.argv = pr[q].argv /\ s.spoiled = TRUE
      BY <3>1, FlushRecord
    <3> QED
      BY <3>2 DEF s
  <2>2. CASE q # exec_lock
    BY <1>1, <1>2, <2>2
  <2> QED
    BY <2>1, <2>2
<1>6. \A q \in Proc : pr'[q].as = pr[q].as /\ pr'[q].other = pr[q].other
  BY <1>4, <1>5
<1>7. AspType' /\ \A a \in AS : asp'[a] = asp[a] /\ asp'[a].live = asp[a].live
  BY <1>0, Own, AspSame
<1>8. Owned'
  BY <1>6, <1>7, Own, OwnedKept
<1>9. Types'
  <2>1. PrType'
    BY <1>1, <1>4, <1>5 DEF PrType
  <2>2. kbuf' = [w \in 0 .. ARG_WORDS - 1 |-> kbuf'[w]]
    BY <1>0, Own
  <2> QED
    BY <1>0, <1>7, <2>1, <2>2 DEF ExecInv, Types
<1>10. \A q \in Proc : Place(q)' /\ Counts(q)' /\ Buffered(q)'
  <2>1. Place(p)' /\ Counts(p)' /\ Buffered(p)'
    BY <1>0, <1>3, <1>4 DEF Place, Counts, Buffered, Resting, Loaded, SetUp
  <2>2. ASSUME NEW q \in Proc \ {p} PROVE Place(q)' /\ Counts(q)' /\ Buffered(q)'
    <3>1. Place(q) /\ Counts(q) /\ (pr[q].kind = "exec" => exec_lock = q)
      BY Own
    <3>2. Place(q)'
      BY <1>0, <1>5, <3>1 DEF Place, Loaded, SetUp
    <3>3. Counts(q)' /\ Buffered(q)'
      BY <1>5, <3>1 DEF Counts, Buffered
    <3> QED
      BY <3>2, <3>3
  <2> QED
    BY <2>1, <2>2
<1>11. Running'
  <2>1. ASSUME NEW d \in CPU, run'[d] # None PROVE pr'[run'[d]].pc \notin {"none", "exited", "failed"}
    <3>1. run'[d] = run[d] /\ run[d] \in Proc /\ pr[run[d]].pc \notin {"none", "exited", "failed"}
      BY <1>0, <2>1 DEF ExecInv, Types, Running
    <3>2. CASE run[d] = p
      BY <1>4, <3>1, <3>2
    <3>3. CASE run[d] # p
      <4>1. pr'[run[d]].pc = pr[run[d]].pc
        BY <1>5, <3>1, <3>3
      <4> QED
        BY <3>1, <4>1
    <3> QED
      BY <3>2, <3>3
  <2> QED
    BY <1>0, <2>1 DEF ExecInv, Running
<1>12. ASSUME NEW d \in CPU PROVE MapsOwn(d)'
  <2>1. MapsOwn(d) /\ run'[d] = run[d] /\ tlb'[d] = tlb[d] /\ (run[d] # None => run[d] \in Proc)
    BY <1>0 DEF ExecInv, Types
  <2>2. run[d] # None => /\ pr'[run[d]].as = pr[run[d]].as
                         /\ pr'[run[d]].pc = pr[run[d]].pc \/ pr[run[d]].pc = "flush"
    BY <1>0, <1>5, <1>6, <2>1
  <2> QED
    BY <2>1, <2>2 DEF MapsOwn
<1>13. Locked' /\ ArgsFaithful' /\ ~strayed'
  <2>1. ASSUME NEW q \in Proc \ {p}
        PROVE  (pr'[q].kind = "exec" => exec_lock' = q) /\ (pr'[q].argv = "wrong" => pr'[q].spoiled)
    BY <1>0, <1>5, Own
  <2> QED
    BY <1>0, <1>4, <2>1, Own DEF Locked, ArgsFaithful
<1> QED
  BY <1>8, <1>9, <1>10, <1>11, <1>12, <1>13 DEF ExecInv

\* A step that changes a process no CPU runs, and that is not in execv.
LEMMA AsideStep ==
    ASSUME ExecInv, NEW p \in Proc, pr[p].pc \in Dead,
           Types', run' = run, kbuf' = kbuf, exec_lock' = exec_lock, ~strayed',
           \A q \in Proc \ {p} : pr'[q] = pr[q],
           \A q \in Proc \ {p} : \A a : a \in {pr[q].as, pr[q].other} /\ a # None => asp'[a] = asp[a],
           Place(p)', Counts(p)', Owned', \A d \in CPU : tlb'[d] = tlb[d] \/ MapsOwn(d)',
           pr'[p].kind # "exec", pr'[p].argv = "none"
    PROVE  ExecInv'
<1>1. ASSUME NEW d \in CPU, run[d] # None
      PROVE  /\ run[d] \in Proc /\ pr'[run[d]] = pr[run[d]]
             /\ pr[run[d]].pc \notin {"none", "exited", "failed"}
  <2>1. run[d] \in Proc /\ pr[run[d]].pc \notin {"none", "exited", "failed"}
    BY <1>1 DEF ExecInv, Types, Running
  <2> QED
    BY <2>1 DEF Dead
<1>2. Running'
  <2>1. ASSUME NEW d \in CPU, run'[d] # None PROVE pr'[run'[d]].pc \notin {"none", "exited", "failed"}
    BY <1>1, <2>1
  <2> QED
    BY <2>1 DEF ExecInv, Running
<1>3. \A d \in CPU : MapsOwn(d)'
  <2>1. ASSUME NEW d \in CPU, tlb'[d] = tlb[d] PROVE MapsOwn(d)'
    <3>1. MapsOwn(d)
      BY DEF ExecInv
    <3> QED
      BY <1>1, <2>1, <3>1 DEF MapsOwn
  <2> QED
    BY <2>1
<1>4. Buffered(p)'
  BY DEF Buffered
<1>5. /\ pr'[p].argv = "wrong" => pr'[p].spoiled
      /\ \A q \in Proc \ {p} : exec_lock = q => exec_lock' = q
  OBVIOUS
<1> QED
  BY <1>2, <1>3, <1>4, <1>5, OneStep

\* The menu starts a program in a process that has no address space yet.
LEMMA RunprogramStep ==
    ASSUME ExecInv, NEW p \in Proc, runprogram(p)
    PROVE  ExecInv'
<1> DEFINE r == [NoProc EXCEPT !.pc = "count", !.kind = "run", !.i = 1]
<1>0. /\ pr[p].pc = "none" /\ pr' = [pr EXCEPT ![p] = r]
      /\ UNCHANGED <<exec_lock, kbuf, asp, tlb, run, file, panicked, strayed>>
  BY DEF runprogram
<1>1. "count" \in PC
  BY DEF PC
<1>2. /\ ProcType(r) /\ r.pc = "count" /\ r.kind = "run" /\ r.as = None /\ r.other = None
      /\ r.args = <<>> /\ r.i = 1 /\ r.argv = "none" /\ r.spoiled = FALSE
  BY <1>1, SMTT(30) DEF ProcType, NoProc
<1> HIDE DEF r
<1>3. Becomes(p, "count", "run", None, None, <<>>, 1, "none", FALSE)
  BY <1>0, <1>2, Own, Update DEF Becomes
<1>4. pr[p].as = None /\ pr[p].other = None
  BY <1>0, Own, Places
<1>5. AspType' /\ \A a \in AS : asp'[a] = asp[a] /\ asp'[a].live = asp[a].live
  BY <1>0, Own, AspSame
<1>6. Owned'
  BY <1>3, <1>4, <1>5, Own, OwnedKept DEF Becomes
<1>7. 1 >= 1
  BY SMTT(30)
<1>8. Place(p)' /\ Counts(p)'
  BY <1>3, <1>7 DEF Place, Counts, Becomes
<1>9. Types'
  BY <1>0, <1>3, <1>5, Own DEF Becomes, Types
<1>10. pr[p].pc \in Dead /\ ~strayed' /\ run' = run /\ kbuf' = kbuf /\ exec_lock' = exec_lock /\ tlb' = tlb /\ asp' = asp
  BY <1>0, Own DEF Dead
<1> QED
  BY <1>3, <1>6, <1>8, <1>9, <1>10, AsideStep DEF Becomes

\* A process, and an address space, that is not in use.
LEMMA NoProcType == ProcType(NoProc) /\ ASType(NoAS) /\ ~NoAS.live
<1>1. "none" \in PC
  BY DEF PC
<1> QED
  BY <1>1, SMTT(30) DEF ProcType, NoProc, ASType, NoAS

\* proc_destroy destroys the address space of a process that has ended.
LEMMA DestroyStep ==
    ASSUME ExecInv, NEW p \in Proc, proc_destroy(p)
    PROVE  ExecInv'
<1> DEFINE b == pr[p].as
<1>0. /\ pr[p].pc = "exited" /\ as_destroy(b) /\ pr' = [pr EXCEPT ![p] = NoProc]
      /\ UNCHANGED <<exec_lock, kbuf, run, file, panicked, strayed>>
  BY DEF proc_destroy
<1>1. /\ PrType' /\ pr'[p] = NoProc /\ \A q \in Proc \ {p} : pr'[q] = pr[q]
  BY <1>0, Own, NoProcType, Update
<1>2. /\ NoProc.pc = "none" /\ NoProc.kind = "none" /\ NoProc.as = None /\ NoProc.other = None /\ NoProc.argv = "none"
  BY DEF NoProc
<1>3. Loaded(b) /\ pr[p].other = None
  BY <1>0, Own, Places DEF Resting
<1>4. b # None /\ b \in AS
  BY <1>3, Own, Fields DEF Loaded
<1>5. AspType' /\ ~asp'[b].live /\ \A a \in AS : a # b => asp'[a] = asp[a]
  <2>1. asp' = [asp EXCEPT ![b] = NoAS]
    BY <1>0 DEF as_destroy
  <2> QED
    BY <1>4, <2>1, NoProcType, Own DEF AspType
<1>6. Owned'
  <2>1. Moves(p, None, None)
    BY <1>3, <1>4, <1>5 DEF Moves
  <2>2. pr'[p].as = None /\ pr'[p].other = None
    BY <1>1, <1>2
  <2>3. Types /\ Owned
    BY Own
  <2> QED
    BY <1>1, <2>1, <2>2, <2>3, OwnedMove
<1>7. \A q \in Proc \ {p} : \A a : a \in {pr[q].as, pr[q].other} /\ a # None => asp'[a] = asp[a]
  <2>1. \A a \in AS : a \notin {pr[p].as, pr[p].other} => asp'[a] = asp[a]
    BY <1>5
  <2> QED
    BY <2>1, Own, OthersMemory
<1>8. tlb' \in [CPU -> SUBSET TLBEntry] /\ \A d \in CPU : MapsOwn(d)'
  <2>1. ASSUME NEW d \in CPU, run[d] # None
        PROVE  /\ pr'[run[d]].as = pr[run[d]].as /\ pr[run[d]].as # b
               /\ pr[run[d]].pc \in {"activate", "undo_activate"} => pr'[run[d]].pc = pr[run[d]].pc
    <3>1. run[d] \in Proc /\ run[d] # p
      BY <1>0, <2>1 DEF ExecInv, Types, Running
    <3>2. pr'[run[d]] = pr[run[d]]
      BY <1>1, <3>1
    <3>3. pr[run[d]].as # b
      BY <1>4, <3>1, Own, OwnApart
    <3> QED
      BY <3>2, <3>3
  <2> HIDE DEF b
  <2>2. as_destroy(b) /\ run' = run
    BY <1>0
  <2> QED
    BY <1>4, <2>1, <2>2, Destroyed
<1>9. Place(p)' /\ Counts(p)'
  BY <1>1, <1>2 DEF Place, Counts
<1>10. Types'
  BY <1>0, <1>1, <1>5, <1>8, Own DEF Types
<1>11. pr[p].pc \in Dead /\ ~strayed' /\ run' = run /\ kbuf' = kbuf /\ exec_lock' = exec_lock
  BY <1>0, Own DEF Dead
<1>12. pr'[p].kind # "exec" /\ pr'[p].argv = "none"
  BY <1>1, <1>2
<1> QED
  BY <1>1, <1>6, <1>7, <1>8, <1>9, <1>10, <1>11, <1>12, AsideStep

\* as_copy: the child of a fork gets an address space of its own.
LEMMA CopyStep ==
    ASSUME ExecInv, NEW p \in Proc, NEW c \in CPU, as_copy(p, c)
    PROVE  ExecInv'
<1>0. pr[p].pc = "user" /\ UNCHANGED <<exec_lock, kbuf, tlb, run, file, panicked, strayed>>
  BY DEF as_copy, On
<1>1. PICK a \in AS, q \in Proc :
         /\ ~asp[a].live /\ pr[q].pc = "none"
         /\ asp' = [asp EXCEPT ![a] = asp[pr[p].as]]
         /\ pr' = [pr EXCEPT ![q] = [NoProc EXCEPT !.pc = "forked", !.as = a]]
  BY DEF as_copy, as_create
<1> DEFINE r == [NoProc EXCEPT !.pc = "forked", !.as = a]
           b == pr[p].as
<1>2. "forked" \in PC
  BY DEF PC, Resting
<1>3. /\ ProcType(r) /\ r.pc = "forked" /\ r.kind = "none" /\ r.as = a /\ r.other = None
      /\ r.args = <<>> /\ r.i = 0 /\ r.argv = "none" /\ r.spoiled = FALSE
  BY <1>2, SMTT(30) DEF ProcType, NoProc
<1>4. pr' = [pr EXCEPT ![q] = r]
  BY <1>1
<1> HIDE DEF r
<1>5. Becomes(q, "forked", "none", a, None, <<>>, 0, "none", FALSE)
  BY <1>3, <1>4, Own, Update DEF Becomes
<1>6. Loaded(b) /\ pr[q].as = None /\ pr[q].other = None
  BY <1>0, <1>1, Own, Places DEF Resting
<1>7. b # None /\ b \in AS /\ asp[b].live /\ None \notin AS /\ a # None
  <2>1. b # None /\ b \in AS
    BY <1>6, Own, Fields DEF Loaded
  <2> QED
    BY <2>1, Own, ExecAssumption DEF Owned
<1>8. AspType' /\ asp'[a] = asp[b] /\ \A d \in AS : d # a => asp'[d] = asp[d]
  BY <1>1, <1>7, Own DEF AspType
<1>9. Owned'
  <2>1. Moves(q, a, None)
    BY <1>1, <1>6, <1>7, <1>8 DEF Moves
  <2>2. /\ \A x \in Proc \ {q} : pr'[x] = pr[x]
        /\ pr'[q].as = a /\ pr'[q].other = None
    BY <1>5 DEF Becomes
  <2>3. Types /\ Owned
    BY Own
  <2> QED
    BY <2>1, <2>2, <2>3, OwnedMove
<1>10. \A x \in Proc \ {q} : \A d : d \in {pr[x].as, pr[x].other} /\ d # None => asp'[d] = asp[d]
  <2>1. ASSUME NEW x \in Proc, NEW d \in {pr[x].as, pr[x].other}, d # None PROVE asp'[d] = asp[d]
    <3>1. pr[x].as \in AS \cup {None} /\ pr[x].other \in AS \cup {None}
      BY Own, Fields
    <3>2. /\ pr[x].as # None => asp[pr[x].as].live
          /\ pr[x].other # None => asp[pr[x].other].live
      BY Own DEF Owned
    <3>3. d \in AS /\ asp[d].live
      BY <2>1, <3>1, <3>2
    <3> QED
      BY <3>3, <1>1, <1>8
  <2> QED
    BY <2>1
<1>11. Place(q)' /\ Counts(q)'
  BY <1>5, <1>6, <1>7, <1>8 DEF Place, Counts, Resting, Becomes, Loaded, SetUp
<1>12. Types'
  BY <1>0, <1>5, <1>8, Own DEF Becomes, Types
<1>13. pr[q].pc \in Dead /\ ~strayed' /\ run' = run /\ kbuf' = kbuf /\ exec_lock' = exec_lock /\ tlb' = tlb
  BY <1>0, <1>1, Own DEF Dead
<1> QED
  BY <1>5, <1>9, <1>10, <1>11, <1>12, <1>13, AsideStep DEF Becomes

\* A step of thread_switch, which changes no process.
LEMMA SwitchStep ==
    ASSUME ExecInv, NEW p \in Proc, UNCHANGED <<pr, exec_lock, kbuf, asp, file, panicked, strayed>>,
           run' \in [CPU -> Proc \cup {None}], tlb' \in [CPU -> SUBSET TLBEntry],
           Running', \A d \in CPU : MapsOwn(d)'
    PROVE  ExecInv'
<1>1. AspType' /\ \A a \in AS : asp'[a] = asp[a] /\ asp'[a].live = asp[a].live
  BY Own, AspSame
<1>2. Types'
  BY <1>1 DEF ExecInv, Types, PrType
<1>3. Owned'
  BY <1>1, Own, OwnedKept
<1>4. Place(p)'
  BY Own, PlaceKept
<1>5. Counts(p)' /\ Buffered(p)'
  BY Own DEF Counts, Buffered
<1>6. /\ pr'[p].kind = "exec" => exec_lock' = p
      /\ pr'[p].argv = "wrong" => pr'[p].spoiled
      /\ ~strayed'
  BY Own
<1> QED
  BY <1>2, <1>3, <1>4, <1>5, <1>6, OneStep

\* A CPU switches to a process, and activates its address space.
LEMMA SwitchInStep ==
    ASSUME ExecInv, NEW p \in Proc, NEW c \in CPU, switch_in(c, p)
    PROVE  ExecInv'
<1>0. /\ pr[p].pc \notin {"none", "exited", "failed"} /\ \A d \in CPU : run[d] # p
      /\ run' = [run EXCEPT ![c] = p] /\ tlb' = as_activate(c, pr[p].as)
      /\ UNCHANGED <<pr, exec_lock, kbuf, asp, file, panicked, strayed>>
  BY DEF switch_in
<1>1. run \in [CPU -> Proc \cup {None}] /\ tlb \in [CPU -> SUBSET TLBEntry]
  BY DEF ExecInv, Types
<1>2. run' \in [CPU -> Proc \cup {None}] /\ run'[c] = p /\ \A d \in CPU \ {c} : run'[d] = run[d]
  BY <1>0, <1>1
<1>3. /\ tlb' \in [CPU -> SUBSET TLBEntry] /\ \A d \in CPU \ {c} : tlb'[d] = tlb[d]
      /\ pr[p].as = None \/ tlb'[c] = {}
  BY <1>0, <1>1 DEF as_activate
<1>4. Running'
  <2>1. ASSUME NEW d \in CPU, run'[d] # None PROVE pr'[run'[d]].pc \notin {"none", "exited", "failed"}
    BY <1>0, <1>2, <2>1 DEF ExecInv, Running
  <2>2. ASSUME NEW d \in CPU, NEW e \in CPU, run'[d] # None, run'[d] = run'[e] PROVE d = e
    BY <1>0, <1>2, <2>2 DEF ExecInv, Running
  <2> QED
    BY <2>1, <2>2 DEF Running
<1>5. \A d \in CPU : MapsOwn(d)'
  <2>1. ASSUME NEW d \in CPU, d # c PROVE MapsOwn(d)'
    <3>1. MapsOwn(d) /\ run'[d] = run[d] /\ tlb'[d] = tlb[d]
      BY <1>2, <1>3, <2>1 DEF ExecInv
    <3> QED
      BY <1>0, <3>1 DEF MapsOwn
  <2>2. MapsOwn(c)'
    BY <1>0, <1>2, <1>3 DEF MapsOwn
  <2> QED
    BY <2>1, <2>2
<1> QED
  BY <1>0, <1>2, <1>3, <1>4, <1>5, SwitchStep

\* A CPU stops running a process.
LEMMA SwitchOutStep ==
    ASSUME ExecInv, NEW c \in CPU, switch_out(c)
    PROVE  ExecInv'
<1>0. /\ run[c] # None /\ run' = [run EXCEPT ![c] = None]
      /\ UNCHANGED <<pr, exec_lock, kbuf, asp, tlb, file, panicked, strayed>>
  BY DEF switch_out
<1>1. run \in [CPU -> Proc \cup {None}] /\ tlb \in [CPU -> SUBSET TLBEntry]
  BY DEF ExecInv, Types
<1>2. run[c] \in Proc
  BY <1>0, <1>1
<1>3. run' \in [CPU -> Proc \cup {None}] /\ \A d \in CPU : run'[d] = None \/ run'[d] = run[d]
  BY <1>0, <1>1
<1>4. Running'
  <2>1. ASSUME NEW d \in CPU, run'[d] # None PROVE pr'[run'[d]].pc \notin {"none", "exited", "failed"}
    BY <1>0, <1>3, <2>1 DEF ExecInv, Running
  <2>2. ASSUME NEW d \in CPU, NEW e \in CPU, run'[d] # None, run'[d] = run'[e] PROVE d = e
    BY <1>3, <2>2 DEF ExecInv, Running
  <2> QED
    BY <2>1, <2>2 DEF Running
<1>5. \A d \in CPU : MapsOwn(d)'
  <2>1. ASSUME NEW d \in CPU PROVE MapsOwn(d)'
    <3>1. MapsOwn(d)
      BY DEF ExecInv
    <3> QED
      BY <1>0, <1>3, <3>1 DEF MapsOwn
  <2> QED
    BY <2>1
<1> QED
  BY <1>0, <1>1, <1>2, <1>3, <1>4, <1>5, SwitchStep

\* Nothing runs, and nobody has an address space.
LEMMA InitExec ==
    ASSUME Init
    PROVE  ExecInv
<1>0. /\ NoProc.pc = "none" /\ NoProc.kind = "none" /\ NoProc.as = None /\ NoProc.other = None /\ NoProc.argv = "none"
      /\ ~NoAS.live
  BY DEF NoProc, NoAS
<1>1. /\ pr = [p \in Proc |-> NoProc] /\ kbuf = [w \in 0 .. ARG_WORDS - 1 |-> Zero]
      /\ asp = [a \in AS |-> NoAS] /\ tlb = [c \in CPU |-> {}] /\ run = [c \in CPU |-> None]
      /\ file \in Seq(Int) /\ panicked = FALSE /\ strayed = FALSE
  BY ExecAssumption DEF Init
<1>2. \A p \in Proc : pr[p] = NoProc
  BY <1>1
<1>3. Types
  BY <1>1, NoProcType DEF Types, PrType, AspType
<1>4. \A p \in Proc : Place(p) /\ Counts(p) /\ Buffered(p)
  BY <1>0, <1>2 DEF Place, Counts, Buffered
<1>5. Owned
  <2>1. \A a \in AS : ~asp[a].live
    BY <1>0, <1>1
  <2> QED
    BY <1>0, <1>2, <2>1 DEF Owned
<1>6. Running /\ \A c \in CPU : MapsOwn(c)
  BY <1>1 DEF Running, MapsOwn
<1>7. Locked /\ ArgsFaithful
  BY <1>0, <1>2 DEF Locked, ArgsFaithful
<1> QED
  BY <1>1, <1>3, <1>4, <1>5, <1>6, <1>7 DEF ExecInv

\* A step that changes nothing.
LEMMA StutterExec ==
    ASSUME ExecInv, UNCHANGED vars
    PROVE  ExecInv'
<1>0. UNCHANGED <<pr, exec_lock, kbuf, asp, tlb, run, file, panicked, strayed>>
  BY DEF vars
<1>1. Types'
  BY <1>0 DEF ExecInv, Types, PrType, AspType
<1>2. Owned'
  BY <1>0 DEF ExecInv, Owned
<1>3. Running' /\ Locked' /\ ArgsFaithful' /\ ~strayed'
  BY <1>0 DEF ExecInv, Running, Locked, ArgsFaithful
<1>4. ASSUME NEW p \in Proc PROVE Place(p)' /\ Counts(p)' /\ Buffered(p)'
  <2>1. Place(p)'
    BY <1>0, Own, PlaceKept
  <2>2. Counts(p)' /\ Buffered(p)'
    BY <1>0, Own DEF Counts, Buffered
  <2> QED
    BY <2>1, <2>2
<1>5. \A c \in CPU : MapsOwn(c)'
  BY <1>0 DEF ExecInv, MapsOwn
<1> QED
  BY <1>1, <1>2, <1>3, <1>4, <1>5 DEF ExecInv

\* Every step keeps the invariant.
LEMMA NextExec ==
    ASSUME ExecInv, [Next]_vars
    PROVE  ExecInv'
<1>1. CASE UNCHANGED vars
  BY <1>1, StutterExec
<1>2. ASSUME NEW p \in Proc, runprogram(p) PROVE ExecInv'
  BY <1>2, RunprogramStep
<1>3. ASSUME NEW p \in Proc, proc_destroy(p) PROVE ExecInv'
  BY <1>3, DestroyStep
<1>4. ASSUME NEW c \in CPU, switch_out(c) PROVE ExecInv'
  BY <1>4, SwitchOutStep
<1>5. ASSUME NEW p \in Proc, NEW c \in CPU, switch_in(c, p) PROVE ExecInv'
  BY <1>5, SwitchInStep
<1>6. ASSUME NEW p \in Proc, NEW c \in CPU, Step(p, c) PROVE ExecInv'
  <2>1. CASE undo_setas(p, c)
    BY <2>1, SetasStep
  <2>2. CASE undo_activate(p, c)
    BY <2>2, UndoActivateStep
  <2>3. CASE undo_destroy(p, c)
    BY <2>3, DropStep
  <2>4. CASE sys_execv(p, c)
    BY <2>4, ExecvStep
  <2>5. CASE sys_execv_E2BIG(p, c)
    BY <2>5, WriteStep
  <2>6. CASE copy_args_to_kbuf(p, c)
    BY <2>6, CopyinStep
  <2>7. CASE copy_args_EFAULT(p, c)
    BY <2>7, RefuseStep
  <2>8. CASE open_and_setas(p, c)
    BY <2>8, OpenStep
  <2>9. CASE open_fail(p, c)
    BY <2>9, RefuseStep
  <2>10. CASE activate(p, c)
    BY <2>10, ActivateStep
  <2>11. CASE proc_start_filetable(p, c)
    BY <2>11, FiletableStep
  <2>12. CASE proc_start_filetable_fail(p, c)
    BY <2>12, FiletableFailStep
  <2>13. CASE load_elf_define(p, c)
    BY <2>13, DefineStep
  <2>14. CASE load_elf_fail(p, c)
    BY <2>14, LoadFailStep
  <2>15. CASE as_prepare_load(p, c)
    BY <2>15, PrepareStep
  <2>16. CASE load_segment(p, c)
    BY <2>16, SegmentStep
  <2>17. CASE as_complete_load(p, c)
    BY <2>17, CompleteStep
  <2>18. CASE vm_fault_assert(p, c)
    BY <2>18, AssertStep
  <2>19. CASE copyout_args(p, c)
    BY <2>19, CopyoutStep
  <2>20. CASE copyoutstr_args(p, c)
    BY <2>20, CopyoutstrStep
  <2>21. CASE execv_release(p, c)
    BY <2>21, DropStep
  <2>22. CASE execv_flush(p, c)
    BY <2>22, FlushStep
  <2>23. CASE user_access(p, c)
    BY <2>23, AccessStep
  <2>24. CASE sys__exit(p, c) \/ cmd_progthread(p, c)
    BY <2>24, OffStep
  <2>25. CASE as_copy(p, c)
    BY <2>25, CopyStep
  <2>26. CASE enter_forked_process(p, c)
    BY <2>26, ForkedStep
  <2>27. CASE sys_write(p, c)
    BY <2>27, WriteStep
  <2> QED
    BY <1>6, <2>1, <2>2, <2>3, <2>4, <2>5, <2>6, <2>7, <2>8, <2>9, <2>10, <2>11, <2>12, <2>13, <2>14,
       <2>15, <2>16, <2>17, <2>18, <2>19, <2>20, <2>21, <2>22, <2>23, <2>24, <2>25, <2>26, <2>27 DEF Step
<1> QED
  BY <1>1, <1>2, <1>3, <1>4, <1>5, <1>6 DEF Next

-----------------------------------------------------------------------------
(* The theorems *)

\* execv.c, runprogram.c, dumbvm.c: the invariant the other theorems rest on.
\* At every step of execv and runprogram a process has the address spaces that
\* step needs and no other process has them; execv holds exec_lock from the
\* first argument to the last; and as long as nobody spoils kbuf it holds the
\* strings copied so far, each behind the others and its offset in its word.
THEOREM ExecInvariance == Spec => []ExecInv
<1>1. Init => ExecInv
  BY InitExec
<1>2. ExecInv /\ [Next]_vars => ExecInv'
  BY NextExec
<1> QED
  BY <1>1, <1>2, PTL DEF Spec

\* sys_execv: whatever the number and the lengths of the arguments, the new
\* program finds every argv[i] at its own string and a NULL behind the last,
\* unless kbuf was not clear, was cleared by another execv, or an offset did
\* not fit in the byte that is kept of it.
THEOREM ArgumentsFaithful == Spec => []ArgsFaithful
<1>1. ExecInv => ArgsFaithful
  BY DEF ExecInv
<1> QED
  BY <1>1, ExecInvariance, PTL

\* as_activate, proc_setas, as_destroy, vm_fault, copycheck: for any number of
\* CPUs and processes, a CPU reaches only the memory of the process it runs,
\* and no copy leaves user space.
THEOREM OwnMemoryOnly == Spec => []ReachesOwnMemory
<1>1. ExecInv => ReachesOwnMemory
  BY DEF ExecInv, ReachesOwnMemory, MapsOwn
<1> QED
  BY <1>1, ExecInvariance, PTL

\* That an address space has exactly one owner, as a cardinality.
LEMMA OneOwner ==
    ASSUME Owned, NEW a \in AS
    PROVE  asp[a].live <=>
             Cardinality({p \in Proc : pr[p].as = a}) + Cardinality({p \in Proc : pr[p].other = a}) = 1
<1> DEFINE A == {p \in Proc : pr[p].as = a}
           B == {p \in Proc : pr[p].other = a}
<1>0. a # None
  BY ExecAssumption
<1>1. Cardinality({}) = 0 /\ \A x : Cardinality({x}) = 1
  BY FS_EmptySet, FS_Singleton
<1>2. CASE ~asp[a].live
  <2>1. A = {} /\ B = {}
    BY <1>0, <1>2 DEF Owned
  <2>2. 0 + 0 # 1
    BY SMTT(30)
  <2> QED
    BY <1>1, <1>2, <2>1, <2>2
<1>3. CASE asp[a].live
  <2>1. PICK p \in Proc : pr[p].as = a \/ pr[p].other = a
    BY <1>3 DEF Owned
  <2>2. (A = {p} /\ B = {}) \/ (A = {} /\ B = {p})
    <3>1. CASE pr[p].as = a
      <4>1. \A q \in Proc : pr[q].other # a /\ (pr[q].as = a => q = p)
        BY <1>0, <3>1 DEF Owned
      <4> QED
        BY <3>1, <4>1
    <3>2. CASE pr[p].other = a
      <4>1. \A q \in Proc : pr[q].as # a /\ (pr[q].other = a => q = p)
        BY <1>0, <3>2 DEF Owned
      <4> QED
        BY <3>2, <4>1
    <3> QED
      BY <2>1, <3>1, <3>2
  <2>3. 1 + 0 = 1 /\ 0 + 1 = 1
    BY SMTT(30)
  <2> QED
    BY <1>1, <1>3, <2>2, <2>3
<1> QED
  BY <1>2, <1>3

\* sys_execv, runprogram, sys_fork, proc_destroy: for any number of processes
\* and address spaces, a process in user mode has one that is loaded, and each
\* address space that is in use has exactly one owner: none is shared, none is
\* lost on a path that fails.
THEOREM AddrspaceOwners == Spec => []AddrspacesOwned
<1>1. ExecInv => AddrspacesOwned
  <2>1. SUFFICES ASSUME ExecInv PROVE AddrspacesOwned
    OBVIOUS
  <2>2. ASSUME NEW p \in Proc, pr[p].pc = "user"
        PROVE  asp[pr[p].as].live /\ asp[pr[p].as].done /\ SetUp(pr[p].as)
    <3>1. Loaded(pr[p].as)
      BY <2>1, <2>2, Own, Places DEF Resting
    <3>2. pr[p].as # None => asp[pr[p].as].live
      BY <2>1, Own DEF Owned
    <3> QED
      BY <3>1, <3>2 DEF Loaded
  <2>3. Owned
    BY <2>1 DEF ExecInv
  <2> QED
    BY <2>2, <2>3, OneOwner DEF AddrspacesOwned
<1> QED
  BY <1>1, ExecInvariance, PTL
=============================================================================
