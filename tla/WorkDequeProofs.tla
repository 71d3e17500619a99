-------------------------- MODULE WorkDequeProofs ---------------------------
(***************************************************************************)
(* Proofs about module WorkDeque, for any size of the ring, any number of  *)
(* thieves, any length of a batch and any width of the counters.           *)
(***************************************************************************)
EXTENDS WorkDeque, FiniteSetTheorems, SequenceTheorems, TLAPS

(* How many jobs are queued, how many left at the front, and how many of   *)
(* the batch that is being pushed are in the buffer already.               *)
Size == Wrap(EffectiveBottom - top)
Gone == Wrap(top - Start)
Written == Wrap(owner.b - bottom)

(* The queued jobs, oldest first, from zero.                               *)
At(i) == buffer[Slot(top + i)]

-----------------------------------------------------------------------------
(* The inductive invariant                                                 *)

(* What the owner's registers say of the queue.                            *)
OwnerInv ==
  /\ owner.pc \in {"idle", "write", "popTop", "popCas", "restore"}
  /\ owner.pc = "write" =>
       /\ Size + Written + owner.todo <= N
       /\ Written + owner.todo > 0
       /\ next + Written + owner.todo - 1 <= MaxPush
       /\ \A i \in 0..(Written - 1) : buffer[Slot(bottom + i)] = next + i
  /\ owner.pc \in {"popTop", "popCas", "restore"} => bottom = owner.b
  /\ owner.pc = "popCas" =>
       /\ owner.t = owner.b
       /\ owner.job = buffer[Slot(owner.b)] /\ owner.job # JobNull
       /\ Size <= 1

(* The queue fits the ring, its jobs are in the order of their pushes, and *)
(* every slot used so far holds a job.                                     *)
BufferInv ==
  /\ Size <= N
  /\ Gone + Size <= next - 1
  /\ \A i \in 0..(Size - 1) : At(i) \in 1..(next - 1)
  /\ \A i, k \in 0..(Size - 1) : i < k => At(i) < At(k)
  /\ \A k \in 0..(Gone + Size - 1) : buffer[Slot(Start + k)] # JobNull

(* Taken is everything pushed that is not queued.                          *)
TakenInv ==
  /\ \A j \in Jobs : taken[j] \in {0, 1}
  /\ \A j \in Jobs : j >= next => taken[j] = 0
  /\ \A j \in 1..(next - 1) : taken[j] = 0 <=> \E i \in 0..(Size - 1) : At(i) = j

(* A thief holds a top of the past; if it is still the top, the queue is   *)
(* not empty and what it read is the oldest job.                           *)
ThiefInv ==
  \A w \in Thieves :
    /\ thief[w].pc \in {"idle", "bottom", "read", "cas"}
    /\ thief[w].pc # "idle" => Wrap(thief[w].t - Start) <= Gone
    /\ thief[w].pc \in {"read", "cas"} /\ thief[w].t = top => Size >= 1
    /\ thief[w].pc \in {"read", "cas"} => buffer[Slot(thief[w].t)] # JobNull
    /\ thief[w].pc = "cas" => thief[w].job # JobNull
    /\ thief[w].pc = "cas" /\ thief[w].t = top => thief[w].job = At(0)

(* The queue.                                                              *)
QueueInv == OwnerInv /\ BufferInv /\ TakenInv /\ ThiefInv

(* All of it.                                                              *)
IInv == CountersTyped /\ QueueInv

-----------------------------------------------------------------------------
(* Counters that wrap, as m_bottom and m_top do (uint32_t)                 *)

(* A multiple of m that is not zero is at least m away from it.            *)
LEMMA MulGrows ==
  ASSUME NEW d \in Int, NEW m \in Nat \ {0}, d # 0
  PROVE  m * d \in Int /\ (m * d >= m \/ m * d <= -m)
  OBVIOUS

(* Quotient and remainder.                                                 *)
LEMMA DivMod ==
  ASSUME NEW a \in Int, NEW m \in Nat \ {0}
  PROVE  /\ a \div m \in Int /\ a % m \in 0..(m - 1)
         /\ m * (a \div m) \in Int
         /\ a = m * (a \div m) + (a % m)
  OBVIOUS

(* Every number has a quotient and a remainder.                            *)
LEMMA Divide ==
  ASSUME NEW a \in Int, NEW m \in Nat \ {0}
  PROVE  \E q \in Int, r \in 0..(m - 1) : a % m = r /\ m * q \in Int /\ a = m * q + r
<1>1. /\ a \div m \in Int /\ a % m \in 0..(m - 1) /\ m * (a \div m) \in Int
      /\ a = m * (a \div m) + (a % m)
  BY DivMod
<1> QED
  BY <1>1, Zenon

(* Two numbers less than m apart that leave the same remainder are equal.  *)
LEMMA ModClose ==
  ASSUME NEW a \in Int, NEW b \in Int, NEW m \in Nat \ {0},
         a % m = b % m, a - b < m, b - a < m
  PROVE  a = b
<1>1. PICK q \in Int : q = a \div m
  BY DivMod
<1>2. PICK r \in Int : r = b \div m
  BY DivMod
<1>3. a = m * q + (a % m) /\ b = m * r + (b % m)
  BY <1>1, <1>2, DivMod
<1>4. PICK d \in Int : d = q - r
  OBVIOUS
<1>5. m * d = m * q - m * r
  BY <1>4
<1>6. m * q \in Int /\ m * r \in Int /\ a % m \in Int
  BY DivMod
<1>7. m * d = a - b
  BY <1>3, <1>5, <1>6
<1>8. d = 0
  BY <1>7, MulGrows
<1> QED
  BY <1>7, <1>8

(* The remainder is the only number below m that differs by a multiple.    *)
LEMMA ModUnique ==
  ASSUME NEW a \in Int, NEW m \in Nat \ {0}, NEW q \in Int,
         NEW r \in 0..(m - 1), a = m * q + r
  PROVE  a % m = r
<1>1. PICK p \in Int, b \in 0..(m - 1) : a % m = b /\ m * p \in Int /\ a = m * p + b
  BY Divide
<1>2. PICK d \in Int : d = q - p
  OBVIOUS
<1>3. m * d = m * q - m * p
  BY <1>2
<1>4. m * d = b - r
  BY <1>1, <1>3
<1>5. d = 0
  BY <1>4, MulGrows
<1> QED
  BY <1>1, <1>4, <1>5

(* A number below the modulus is its own remainder.                        *)
LEMMA ModSmall ==
  ASSUME NEW m \in Nat \ {0}, NEW a \in 0..(m - 1)
  PROVE  a % m = a
  BY ModUnique, a = m * 0 + a

(* Adding to a remainder, or to the number, is the same.                   *)
LEMMA ModAdd ==
  ASSUME NEW a \in Int, NEW k \in Int, NEW m \in Nat \ {0}
  PROVE  ((a % m) + k) % m = (a + k) % m
<1>1. PICK q \in Int, b \in 0..(m - 1) : a % m = b /\ m * q \in Int /\ a = m * q + b
  BY Divide
<1>2. b + k \in Int /\ a + k \in Int
  OBVIOUS
<1>3. PICK p \in Int, r \in 0..(m - 1) :
        (b + k) % m = r /\ m * p \in Int /\ b + k = m * p + r
  BY <1>2, Divide, Zenon
<1>4. PICK s \in Int : s = q + p
  OBVIOUS
<1>5. m * s = m * q + m * p
  BY <1>4
<1>6. a + k = m * s + r
  BY <1>1, <1>3, <1>5
<1>7. (a + k) % m = r
  BY <1>2, <1>6, ModUnique, Zenon
<1> QED
  BY <1>1, <1>3, <1>7, Zenon

(* Subtracting a remainder, or the number, is the same.                    *)
LEMMA ModSub ==
  ASSUME NEW a \in Int, NEW k \in Int, NEW m \in Nat \ {0}
  PROVE  (k - (a % m)) % m = (k - a) % m
<1>1. PICK q \in Int, b \in 0..(m - 1) : a % m = b /\ m * q \in Int /\ a = m * q + b
  BY Divide
<1>2. k - b \in Int /\ k - a \in Int
  OBVIOUS
<1>3. PICK p \in Int, r \in 0..(m - 1) :
        (k - b) % m = r /\ m * p \in Int /\ k - b = m * p + r
  BY <1>2, Divide, Zenon
<1>4. PICK s \in Int : s = p - q
  OBVIOUS
<1>5. m * s = m * p - m * q
  BY <1>4
<1>6. k - a = m * s + r
  BY <1>1, <1>3, <1>5
<1>7. (k - a) % m = r
  BY <1>2, <1>6, ModUnique, Zenon
<1> QED
  BY <1>1, <1>3, <1>7, Zenon

(* A remainder moves along with its number while it stays below m.         *)
LEMMA ModShift ==
  ASSUME NEW a \in Int, NEW k \in Int, NEW m \in Nat \ {0},
         (a % m) + k \in 0..(m - 1)
  PROVE  (a + k) % m = (a % m) + k
<1>1. ((a % m) + k) % m = (a % m) + k
  BY ModSmall, Zenon
<1> QED
  BY <1>1, ModAdd, Zenon

(* ring divides the modulus.                                               *)
LEMMA ModOfMod ==
  ASSUME NEW a \in Int, NEW m \in Nat \ {0}, NEW n \in Nat \ {0}, m % n = 0
  PROVE  (a % m) % n = a % n
<1>1. PICK k \in Int : m = n * k
  <2>1. m \in Int /\ m \div n \in Int /\ m = n * (m \div n) + (m % n)
    BY DivMod
  <2> QED
    BY <2>1
<1>2. PICK q \in Int, b \in 0..(m - 1) : a % m = b /\ m * q \in Int /\ a = m * q + b
  <2>1. /\ a \div m \in Int /\ a % m \in 0..(m - 1) /\ m * (a \div m) \in Int
        /\ a = m * (a \div m) + (a % m)
    BY DivMod
  <2> QED
    BY <2>1, Zenon
<1>3. PICK p \in Int, r \in 0..(n - 1) : b % n = r /\ n * p \in Int /\ b = n * p + r
  BY Divide, b \in Int, Zenon
<1>4. PICK s \in Int : s = k * q + p
  OBVIOUS
<1>5. n * s = n * (k * q) + n * p
  BY <1>4
<1>6. n * (k * q) = m * q
  BY <1>1
<1>7. a = n * s + r
  BY <1>2, <1>3, <1>5, <1>6
<1>8. a % n = r
  BY <1>7, ModUnique, Zenon
<1> QED
  BY <1>2, <1>3, <1>8, Zenon

-----------------------------------------------------------------------------
(* Wrapped counters and slots                                              *)

(* The sizes.                                                              *)
LEMMA Sizes ==
  /\ N \in Nat \ {0} /\ Modulus \in Nat \ {0} /\ Modulus % N = 0
  /\ Modulus > 2 * N /\ N > 1
  BY DequeAssumption

(* A counter is a 32-bit value, a slot is in the buffer.                   *)
LEMMA WrapType ==
  ASSUME NEW a \in Int
  PROVE  Wrap(a) \in 0..(Modulus - 1) /\ Wrap(a) \in Int
         /\ Slot(a) \in 0..(N - 1)
<1>1. a % Modulus \in 0..(Modulus - 1) /\ a % N \in 0..(N - 1)
  BY Sizes, DivMod, Zenon
<1>2. \A x \in 0..(Modulus - 1) : x \in Int
  BY Sizes
<1> QED
  BY <1>1, <1>2, Zenon DEF Wrap, Slot

(* Wrapping a 32-bit value changes nothing.                                *)
LEMMA WrapSmall ==
  ASSUME NEW a \in 0..(Modulus - 1)
  PROVE  Wrap(a) = a
  BY DequeAssumption, ModSmall DEF Wrap

(* Sums and differences of wrapped counters.                               *)
LEMMA WrapAdd ==
  ASSUME NEW a \in Int, NEW k \in Int
  PROVE  Wrap(Wrap(a) + k) = Wrap(a + k)
  BY Sizes, ModAdd, Zenon DEF Wrap

(* The same for a difference.                                              *)
LEMMA WrapSub ==
  ASSUME NEW a \in Int, NEW k \in Int
  PROVE  Wrap(k - Wrap(a)) = Wrap(k - a)
  BY Sizes, ModSub, Zenon DEF Wrap

(* A distance moves along while it does not wrap.                          *)
LEMMA WrapShift ==
  ASSUME NEW a \in Int, NEW k \in Int, Wrap(a) + k \in 0..(Modulus - 1)
  PROVE  Wrap(a + k) = Wrap(a) + k
  BY Sizes, ModShift, Zenon DEF Wrap

(* A counter is found again from another one and the distance to it.       *)
LEMMA WrapBack ==
  ASSUME NEW a \in 0..(Modulus - 1), NEW b \in 0..(Modulus - 1)
  PROVE  a = Wrap(b + Wrap(a - b))
<1>1. a - b \in Int /\ b \in Int /\ Wrap(a - b) \in Int
  BY WrapType, DequeAssumption
<1>2. Wrap(Wrap(a - b) + b) = Wrap((a - b) + b)
  BY <1>1, WrapAdd
<1>3. (a - b) + b = a /\ Wrap(a - b) + b = b + Wrap(a - b)
  BY <1>1
<1> QED
  BY <1>2, <1>3, WrapSmall

(* The slot of a counter does not depend on its wrapping.                  *)
LEMMA SlotAdd ==
  ASSUME NEW a \in Int, NEW k \in Int
  PROVE  Slot(Wrap(a) + k) = Slot(a + k)
<1> DEFINE x == Wrap(a) + k
<1>1. x \in Int /\ a + k \in Int
  BY WrapType
<1>2. Slot(x) = Slot(Wrap(x)) /\ Slot(a + k) = Slot(Wrap(a + k))
  <2> HIDE DEF x
  <2> QED
    BY <1>1, Sizes, ModOfMod, Zenon DEF Slot, Wrap
<1>3. Wrap(x) = Wrap(a + k)
  BY WrapAdd
<1> QED
  BY <1>2, <1>3

(* Counters less than a ring apart have slots of their own.                *)
LEMMA SlotApart ==
  ASSUME NEW a \in Int, NEW b \in Int, a # b, a - b < N, b - a < N
  PROVE  Slot(a) # Slot(b)
  BY DequeAssumption, ModClose DEF Slot

-----------------------------------------------------------------------------
(* The state of the queue                                                  *)

(* Where things are, from where others are.                                *)
LEMMA Positions ==
  ASSUME CountersTyped
  PROVE  /\ EffectiveBottom \in 0..(Modulus - 1)
         /\ Size \in 0..(Modulus - 1) /\ Gone \in 0..(Modulus - 1)
         /\ Written \in 0..(Modulus - 1)
         /\ EffectiveBottom = Wrap(top + Size)
         /\ top = Wrap(Start + Gone)
         /\ owner.b = Wrap(bottom + Written)
<1>1. /\ bottom \in 0..(Modulus - 1) /\ top \in 0..(Modulus - 1)
      /\ Start \in 0..(Modulus - 1) /\ owner.b \in 0..(Modulus - 1)
  BY DequeAssumption DEF CountersTyped, Registers
<1>2. EffectiveBottom \in 0..(Modulus - 1)
  BY <1>1, WrapType, DequeAssumption DEF EffectiveBottom
<1>3. /\ EffectiveBottom - top \in Int /\ top - Start \in Int /\ owner.b - bottom \in Int
  BY <1>1, <1>2, Sizes
<1>4. /\ Size \in 0..(Modulus - 1) /\ Gone \in 0..(Modulus - 1)
      /\ Written \in 0..(Modulus - 1)
  BY <1>3, WrapType DEF Size, Gone, Written
<1>5. /\ EffectiveBottom = Wrap(top + Size) /\ top = Wrap(Start + Gone)
      /\ owner.b = Wrap(bottom + Written)
  BY <1>1, <1>2, WrapBack, Zenon DEF Size, Gone, Written
<1> QED
  BY <1>2, <1>4, <1>5

(* The bounds that the invariant gives.                                    *)
LEMMA Bounds ==
  ASSUME IInv
  PROVE  /\ Size \in 0..N /\ Gone \in Nat /\ Written \in Nat
         /\ Gone + Size <= next - 1 /\ next \in 1..(MaxPush + 1) /\ next \in Int
         /\ top \in Int /\ bottom \in Int /\ owner.b \in Int
         /\ EffectiveBottom \in Int /\ Start \in Int
         /\ MaxPush \in Nat /\ MaxPush < Modulus /\ MaxBatch \in Nat
<1>1. CountersTyped /\ BufferInv
  BY DEF IInv, QueueInv
<1>2. /\ top \in Int /\ bottom \in Int /\ owner.b \in Int /\ Start \in Int
      /\ next \in 1..(MaxPush + 1) /\ next \in Int
      /\ MaxPush \in Nat /\ MaxPush < Modulus /\ MaxBatch \in Nat
  BY <1>1, DequeAssumption DEF CountersTyped, Registers
<1>3. /\ EffectiveBottom \in Int /\ Size \in Nat /\ Gone \in Nat /\ Written \in Nat
  BY <1>1, Positions, Sizes
<1> QED
  BY <1>1, <1>2, <1>3, Sizes DEF BufferInv

(* The slots of queued jobs, of tickets, and of the batch being pushed.    *)
LEMMA SlotsOfTop ==
  ASSUME CountersTyped, NEW k \in Int
  PROVE  /\ Slot(EffectiveBottom + k) = Slot((top + Size) + k)
         /\ Slot(top + k) = Slot((Start + Gone) + k)
         /\ Slot(owner.b + k) = Slot((bottom + Written) + k)
<1>1. /\ top + Size \in Int /\ Start + Gone \in Int /\ bottom + Written \in Int
  <2>1. Size \in Int /\ Gone \in Int /\ Written \in Int
    BY Positions, Sizes
  <2>2. top \in Int /\ Start \in Int /\ bottom \in Int
    BY Sizes, DequeAssumption DEF CountersTyped
  <2> QED
    BY <2>1, <2>2
<1>2. /\ EffectiveBottom = Wrap(top + Size) /\ top = Wrap(Start + Gone)
      /\ owner.b = Wrap(bottom + Written)
  BY Positions
<1>3. /\ Slot(Wrap(top + Size) + k) = Slot((top + Size) + k)
      /\ Slot(Wrap(Start + Gone) + k) = Slot((Start + Gone) + k)
      /\ Slot(Wrap(bottom + Written) + k) = Slot((bottom + Written) + k)
  BY <1>1, SlotAdd, Zenon
<1> QED
  BY <1>2, <1>3, Zenon

(* The queue changes only with top, the effective bottom and the buffer.   *)
LEMMA SameQueue ==
  ASSUME IInv, EffectiveBottom' = EffectiveBottom,
         UNCHANGED <<buffer, top, next, taken>>
  PROVE  Size' = Size /\ Gone' = Gone /\ BufferInv' /\ TakenInv'
<1>1. Size' = Size /\ Gone' = Gone /\ \A i : At(i)' = At(i)
  BY DEF Size, Gone, At
<1> QED
  BY <1>1 DEF IInv, QueueInv, BufferInv, TakenInv

(* While the owner pops, the reserved job counts as queued.                *)
LEMMA PopSize ==
  ASSUME CountersTyped, owner.pc \in {"popTop", "popCas", "restore"}
  PROVE  Size = Wrap(owner.b - top + 1)
<1>1. owner.b \in Int /\ top \in Int
  BY Sizes DEF CountersTyped, Registers
<1>2. Size = Wrap(Wrap(owner.b + 1) - top)
  BY DEF Size, EffectiveBottom
<1>3. Wrap(Wrap(owner.b + 1) + (-top)) = Wrap((owner.b + 1) + (-top))
  <2>1. owner.b + 1 \in Int /\ -top \in Int
    BY <1>1
  <2> QED
    BY <2>1, WrapAdd, Zenon
<1>4. Wrap(owner.b + 1) \in Int
  BY <1>1, WrapType
<1> QED
  BY <1>1, <1>2, <1>3, <1>4

(* What popping finds follows from the size of the queue.                  *)
LEMMA PopTopCases ==
  ASSUME CountersTyped, owner.pc = "popTop", Size <= N
  PROVE  /\ Signed(top, owner.b) > 0 <=> Size = 0
         /\ top = owner.b <=> Size = 1
         /\ Signed(top, owner.b) < 0 <=> Size > 1
<1>1. /\ owner.b \in 0..(Modulus - 1) /\ top \in 0..(Modulus - 1)
      /\ owner.b \in Int /\ top \in Int
  BY Sizes DEF CountersTyped, Registers
<1>2. Size \in 0..N
  BY Positions, Sizes
<1>3. Size = Wrap(owner.b - top + 1)
  BY PopSize
<1>4. Wrap(top - owner.b) = Wrap(1 - Size)
  <2>1. owner.b - top + 1 \in Int /\ 1 - (owner.b - top + 1) = top - owner.b
    BY <1>1
  <2> QED
    BY <1>3, <2>1, WrapSub
<1>5. PICK h \in Int : h = Modulus \div 2 /\ 2 * h <= Modulus /\ Modulus <= 2 * h + 1
  BY Sizes
<1>6. CASE Size = 0
  <2>1. Wrap(1 - Size) = 1
    BY <1>6, WrapSmall, Sizes
  <2> QED
    BY <1>1, <1>4, <1>5, <1>6, <2>1, WrapSmall, Sizes DEF Signed
<1>7. CASE Size = 1
  <2>1. Wrap(top - owner.b) = 0
    BY <1>4, <1>7, WrapSmall, Sizes
  <2>2. top = Wrap(owner.b + 0)
    BY <1>1, <2>1, WrapBack
  <2>3. top = owner.b
    BY <1>1, <2>2, WrapSmall
  <2> QED
    BY <1>5, <1>7, <2>1, <2>3, Sizes DEF Signed
<1>8. CASE Size > 1
  <2>1. Wrap(0) - 0 = 0 /\ Wrap(1 - Size + Modulus) = 1 - Size + Modulus
    BY <1>2, <1>8, WrapSmall, Sizes
  <2>2. Wrap(1 - Size) = 1 - Size + Modulus
    <3>1. Wrap(Modulus) = 0
      BY Sizes, ModUnique, Modulus = Modulus * 1 + 0 DEF Wrap
    <3>2. Wrap((1 - Size) - Wrap(-Modulus)) = Wrap((1 - Size) - (-Modulus))
      BY <1>2, Sizes, WrapSub
    <3>3. Wrap(-Modulus) = 0
      BY Sizes, ModUnique, -Modulus = Modulus * (-1) + 0 DEF Wrap
    <3> QED
      BY <1>2, <2>1, <3>2, <3>3, Sizes
  <2>3. Wrap(top - owner.b) = Modulus + 1 - Size
    BY <1>2, <1>4, <2>2, Sizes
  <2>4. top # owner.b
    BY <1>1, <1>2, <2>3, WrapSmall, Sizes
  <2> QED
    BY <1>2, <1>5, <1>8, <2>3, <2>4, Sizes DEF Signed
<1> QED
  BY <1>2, <1>6, <1>7, <1>8

-----------------------------------------------------------------------------
(* The steps keep the invariant                                            *)

(* A thief that did not move keeps what it knows while the queue does not  *)
(* change.                                                                 *)
LEMMA SameThieves ==
  ASSUME IInv, EffectiveBottom' = EffectiveBottom, UNCHANGED <<buffer, top, thief>>
  PROVE  ThiefInv'
<1>1. Size' = Size /\ Gone' = Gone /\ At(0)' = At(0)
  BY DEF Size, Gone, At
<1> QED
  BY <1>1 DEF IInv, QueueInv, ThiefInv

(* try_push, loading m_top: the part of the batch that fits.               *)
LEMMA PushReadTopKeeps ==
  ASSUME IInv, NEW n \in 1..MaxBatch, PushReadTop(n)
  PROVE  IInv'
<1> USE DEF IInv
<1>1. /\ owner.pc = "idle" /\ next + n - 1 <= MaxPush
      /\ UNCHANGED <<buffer, bottom, top, thief, next, taken>>
  BY DEF PushReadTop
<1>2. EffectiveBottom = bottom /\ Size = Wrap(bottom - top)
  BY <1>1 DEF EffectiveBottom, Size
<1>3. Size \in 0..N
  BY Positions, Sizes DEF QueueInv, BufferInv
<1>4. PICK fit \in 0..n :
        /\ fit <= N - Size
        /\ owner' = IF fit = 0 THEN owner
                    ELSE [Idle EXCEPT !.pc = "write", !.b = bottom, !.todo = fit]
  <2> DEFINE fit == IF n < N - Size THEN n ELSE N - Size
  <2>1. N - Size \in Nat /\ n \in Nat
    BY <1>3, Sizes, DequeAssumption
  <2>2. fit \in 0..n /\ fit <= N - Size
    BY <2>1
  <2>3. owner' = IF fit = 0 THEN owner
                 ELSE [Idle EXCEPT !.pc = "write", !.b = bottom, !.todo = fit]
    BY <1>2, Zenon DEF PushReadTop
  <2> QED
    BY <2>2, <2>3, Zenon
<1>5. CASE fit = 0
  BY <1>1, <1>4, <1>5 DEF CountersTyped, QueueInv, OwnerInv, BufferInv, TakenInv, ThiefInv,
     Size, Gone, Written, At, EffectiveBottom
<1>6. CASE fit # 0
  <2>1. owner' = [pc |-> "write", b |-> bottom, t |-> 0, todo |-> fit, job |-> JobNull]
    BY <1>4, <1>6 DEF Idle
  <2>2. EffectiveBottom' = EffectiveBottom
    BY <1>1, <1>2, <2>1 DEF EffectiveBottom
  <2>3. CountersTyped'
    <3>1. owner' \in Registers
      <4>1. fit \in 0..MaxBatch /\ 0 \in 0..(Modulus - 1)
        BY Sizes, DequeAssumption
      <4>2. bottom \in 0..(Modulus - 1)
        BY DEF CountersTyped
      <4> QED
        BY <2>1, <4>1, <4>2 DEF Registers
    <3> QED
      BY <1>1, <3>1 DEF CountersTyped
  <2>4. Size' = Size /\ BufferInv' /\ TakenInv' /\ ThiefInv'
    BY <1>1, <2>2, SameQueue, SameThieves
  <2>5. Written' = 0
    <3>1. bottom \in Int /\ bottom - bottom = 0
      BY Sizes DEF CountersTyped
    <3> QED
      BY <1>1, <2>1, <3>1, WrapSmall, Sizes DEF Written
  <2>6. OwnerInv'
    <3>1. /\ owner'.pc = "write" /\ owner'.todo = fit /\ next' = next /\ next \in Int
      BY <1>1, <2>1, DequeAssumption DEF CountersTyped
    <3> QED
      BY <1>1, <1>3, <1>4, <1>6, <2>4, <2>5, <3>1, Sizes, DequeAssumption DEF OwnerInv
  <2> QED
    BY <2>3, <2>4, <2>6 DEF QueueInv
<1> QED
  BY <1>5, <1>6

(* try_push, storing a handle: in a slot that no queued job has.           *)
LEMMA WriteElsewhere ==
  ASSUME IInv, PushWrite
  PROVE  /\ Size' = Size /\ Gone' = Gone /\ Written' = Written + 1
         /\ Slot(owner.b) = Slot(bottom + Written)
         /\ Slot(owner.b) \in 0..(N - 1)
         /\ \A s \in 0..(N - 1) : buffer'[s] = IF s = Slot(owner.b) THEN next + Written ELSE buffer[s]
         /\ \A i \in 0..(Size - 1) : At(i)' = At(i)
<1> USE DEF IInv
<1>1. /\ owner.pc = "write" /\ owner.todo > 0
      /\ buffer' = [buffer EXCEPT ![Slot(owner.b)] = next + Written]
      /\ owner' = [owner EXCEPT !.b = Wrap(@ + 1), !.todo = @ - 1]
      /\ UNCHANGED <<bottom, top, thief, next, taken>>
  BY DEF PushWrite, Written
<1>2. /\ Size \in 0..N /\ Written \in 0..N /\ owner.todo \in 1..MaxBatch
      /\ Size + Written + owner.todo <= N
      /\ next \in 1..(MaxPush + 1) /\ next + Written + owner.todo - 1 <= MaxPush
      /\ \A i \in 0..(Written - 1) : buffer[Slot(bottom + i)] = next + i
  <2>1. /\ owner.todo \in 0..MaxBatch /\ MaxBatch \in Nat /\ MaxPush \in Nat
        /\ next \in 1..(MaxPush + 1)
    BY DequeAssumption DEF CountersTyped, Registers
  <2>2. Size \in Nat /\ Written \in Nat
    BY Positions, Sizes
  <2>3. /\ Size + Written + owner.todo <= N /\ next + Written + owner.todo - 1 <= MaxPush
        /\ \A i \in 0..(Written - 1) : buffer[Slot(bottom + i)] = next + i
    BY <1>1 DEF QueueInv, OwnerInv
  <2> QED
    BY <1>1, <2>1, <2>2, <2>3, Sizes
<1>3. /\ owner.b \in 0..(Modulus - 1) /\ owner.b \in Int /\ bottom \in Int /\ top \in Int
      /\ EffectiveBottom = bottom
  BY <1>1, Sizes DEF CountersTyped, Registers, EffectiveBottom
<1>4. next + Written \in Jobs /\ next + Written # JobNull
  BY <1>2, DequeAssumption DEF Jobs
<1>5. owner' = [pc |-> "write", b |-> Wrap(owner.b + 1), t |-> owner.t,
                todo |-> owner.todo - 1, job |-> owner.job]
  BY <1>1 DEF CountersTyped, Registers
<1>6. /\ EffectiveBottom' = EffectiveBottom /\ Size' = Size /\ Gone' = Gone
      /\ owner'.pc = "write" /\ owner'.todo = owner.todo - 1
  BY <1>1, <1>3, <1>5 DEF EffectiveBottom, Size, Gone
<1>7. Written' = Written + 1
  <2>1. Written' = Wrap(Wrap(owner.b + 1) - bottom)
    BY <1>1, <1>5 DEF Written
  <2>2. /\ owner.b + 1 \in Int /\ -bottom \in Int /\ owner.b - bottom \in Int
        /\ (owner.b + 1) + (-bottom) = (owner.b - bottom) + 1
        /\ Wrap(owner.b + 1) \in Int
    BY <1>3, WrapType
  <2>3. Wrap(Wrap(owner.b + 1) + (-bottom)) = Wrap((owner.b - bottom) + 1)
    <3>1. Wrap(Wrap(owner.b + 1) + (-bottom)) = Wrap((owner.b + 1) + (-bottom))
      BY <2>2, WrapAdd, Zenon
    <3> QED
      BY <2>2, <3>1, Zenon
  <2>4. Wrap((owner.b - bottom) + 1) = Written + 1
    BY <2>2, <1>2, WrapShift, Sizes DEF Written
  <2> QED
    BY <1>3, <2>1, <2>2, <2>3, <2>4
<1>8. /\ Slot(owner.b) = Slot(bottom + Written)
      /\ Slot(owner.b) = Slot(top + (Size + Written))
  <2>1. /\ Slot(owner.b + 0) = Slot((bottom + Written) + 0)
        /\ Slot(EffectiveBottom + Written) = Slot((top + Size) + Written)
    BY <1>2, SlotsOfTop
  <2> QED
    BY <1>2, <1>3, <2>1
<1>9. /\ Slot(owner.b) \in 0..(N - 1)
      /\ \A s \in 0..(N - 1) : buffer'[s] = IF s = Slot(owner.b) THEN next + Written ELSE buffer[s]
  BY <1>1, <1>3, WrapType DEF CountersTyped
<1>10. \A i \in 0..(Size - 1) : At(i)' = At(i)
  <2> SUFFICES ASSUME NEW i \in 0..(Size - 1) PROVE At(i)' = At(i)
    OBVIOUS
  <2>1. Slot(top + i) # Slot(top + (Size + Written))
    <3>1. /\ top + i \in Int /\ top + (Size + Written) \in Int
          /\ top + i # top + (Size + Written)
          /\ (top + i) - (top + (Size + Written)) < N
          /\ (top + (Size + Written)) - (top + i) < N
      BY <1>2, <1>3, Sizes
    <3> QED
      BY <3>1, SlotApart, Zenon
  <2>2. Slot(top + i) # Slot(owner.b) /\ Slot(top + i) \in 0..(N - 1)
    BY <1>3, <1>8, <2>1, WrapType
  <2> QED
    BY <1>1, <1>9, <2>2 DEF At
<1> QED
  BY <1>6, <1>7, <1>8, <1>9, <1>10

(* The job written is the next one of the batch; nothing queued moves.     *)
LEMMA PushWriteKeeps ==
  ASSUME IInv, PushWrite
  PROVE  IInv'
<1> USE DEF IInv
<1>1. /\ owner.pc = "write" /\ owner.todo > 0
      /\ buffer' = [buffer EXCEPT ![Slot(owner.b)] = next + Written]
      /\ owner' = [owner EXCEPT !.b = Wrap(@ + 1), !.todo = @ - 1]
      /\ UNCHANGED <<bottom, top, thief, next, taken>>
  BY DEF PushWrite, Written
<1>2. /\ Size \in 0..N /\ Written \in 0..N /\ owner.todo \in 1..MaxBatch
      /\ Size + Written + owner.todo <= N
      /\ next \in 1..(MaxPush + 1) /\ next + Written + owner.todo - 1 <= MaxPush
      /\ \A i \in 0..(Written - 1) : buffer[Slot(bottom + i)] = next + i
  <2>1. /\ owner.todo \in 0..MaxBatch /\ MaxBatch \in Nat /\ MaxPush \in Nat
        /\ next \in 1..(MaxPush + 1)
    BY DequeAssumption DEF CountersTyped, Registers
  <2>2. Size \in Nat /\ Written \in Nat
    BY Positions, Sizes
  <2>3. /\ Size + Written + owner.todo <= N /\ next + Written + owner.todo - 1 <= MaxPush
        /\ \A i \in 0..(Written - 1) : buffer[Slot(bottom + i)] = next + i
    BY <1>1 DEF QueueInv, OwnerInv
  <2> QED
    BY <1>1, <2>1, <2>2, <2>3, Sizes
<1>3. /\ owner.b \in 0..(Modulus - 1) /\ owner.b \in Int /\ bottom \in Int /\ top \in Int
      /\ EffectiveBottom = bottom
  BY <1>1, Sizes DEF CountersTyped, Registers, EffectiveBottom
<1>4. next + Written \in Jobs /\ next + Written # JobNull
  BY <1>2, DequeAssumption DEF Jobs
<1>5. owner' = [pc |-> "write", b |-> Wrap(owner.b + 1), t |-> owner.t,
                todo |-> owner.todo - 1, job |-> owner.job]
  BY <1>1 DEF CountersTyped, Registers
<1>6. /\ EffectiveBottom' = EffectiveBottom /\ Size' = Size /\ Gone' = Gone
      /\ owner'.pc = "write" /\ owner'.todo = owner.todo - 1
  BY <1>1, <1>3, <1>5 DEF EffectiveBottom, Size, Gone
<1>7. Written' = Written + 1 /\ Slot(owner.b) = Slot(bottom + Written)
  BY WriteElsewhere
<1>8. /\ Slot(owner.b) \in 0..(N - 1)
      /\ \A s \in 0..(N - 1) : buffer'[s] = IF s = Slot(owner.b) THEN next + Written ELSE buffer[s]
  BY WriteElsewhere
<1>9. \A i \in 0..(Size - 1) : At(i)' = At(i)
  BY WriteElsewhere
<1>10. \A i \in 0..Written : buffer'[Slot(bottom + i)] = next + i
  <2> SUFFICES ASSUME NEW i \in 0..Written PROVE buffer'[Slot(bottom + i)] = next + i
    OBVIOUS
  <2>1. CASE i = Written
    BY <1>7, <1>8, <2>1
  <2>2. CASE i # Written
    <3>1. /\ bottom + i \in Int /\ bottom + Written \in Int /\ i \in 0..(Written - 1)
          /\ bottom + i # bottom + Written
          /\ (bottom + i) - (bottom + Written) < N
          /\ (bottom + Written) - (bottom + i) < N
      BY <1>2, <1>3, <2>2, Sizes
    <3>2. Slot(bottom + i) # Slot(bottom + Written)
      BY <3>1, SlotApart, Zenon
    <3>3. Slot(bottom + i) # Slot(owner.b) /\ Slot(bottom + i) \in 0..(N - 1)
      BY <1>7, <3>1, <3>2, WrapType
    <3> QED
      BY <1>2, <1>8, <3>1, <3>3
  <2> QED
    BY <2>1, <2>2
<1>11. \A a \in Int : buffer[Slot(a)] # JobNull => buffer'[Slot(a)] # JobNull
  BY <1>4, <1>8, WrapType
<1>12. CountersTyped'
  <2>1. owner' \in Registers
    <3>1. /\ owner.t \in 0..(Modulus - 1) /\ owner.job \in Jobs \cup {JobNull}
          /\ owner.b + 1 \in Int
      BY <1>3 DEF CountersTyped, Registers
    <3>2. Wrap(owner.b + 1) \in 0..(Modulus - 1)
      BY <3>1, WrapType
    <3>3. owner.todo - 1 \in 0..MaxBatch
      BY <1>2, DequeAssumption
    <3> QED
      BY <1>5, <3>1, <3>2, <3>3 DEF Registers
  <2>2. buffer' \in [0..(N - 1) -> Jobs \cup {JobNull}]
    BY <1>1, <1>4 DEF CountersTyped
  <2> QED
    BY <1>1, <2>1, <2>2 DEF CountersTyped
<1>13. OwnerInv'
  <2>1. bottom' = bottom /\ next' = next
    BY <1>1
  <2>2. \A i \in 0..(Written' - 1) : buffer'[Slot(bottom' + i)] = next' + i
    BY <1>2, <1>7, <1>10, <2>1
  <2> QED
    BY <1>2, <1>6, <1>7, <2>1, <2>2 DEF OwnerInv
<1>14. BufferInv'
  <2>1. Gone \in Int /\ Start \in Int /\ next' = next
    BY <1>1, Positions, DequeAssumption
  <2>2. \A k \in 0..(Gone + Size - 1) : buffer'[Slot(Start + k)] # JobNull
    BY <1>11, <2>1 DEF QueueInv, BufferInv
  <2> QED
    BY <1>6, <1>9, <2>1, <2>2 DEF QueueInv, BufferInv
<1>15. TakenInv'
  BY <1>1, <1>6, <1>9 DEF QueueInv, TakenInv
<1>16. ThiefInv'
  <2> SUFFICES ASSUME NEW w \in Thieves
               PROVE  /\ thief[w].pc \in {"idle", "bottom", "read", "cas"}
                      /\ thief[w].pc # "idle" => Wrap(thief[w].t - Start) <= Gone
                      /\ thief[w].pc \in {"read", "cas"} /\ thief[w].t = top => Size >= 1
                      /\ thief[w].pc \in {"read", "cas"} => buffer'[Slot(thief[w].t)] # JobNull
                      /\ thief[w].pc = "cas" => thief[w].job # JobNull
                      /\ thief[w].pc = "cas" /\ thief[w].t = top => thief[w].job = At(0)'
    BY <1>1, <1>6 DEF ThiefInv
  <2>1. thief[w].t \in Int
    BY Sizes DEF CountersTyped, Registers
  <2>2. thief[w].pc = "cas" /\ thief[w].t = top => At(0)' = At(0)
    BY <1>2, <1>9 DEF QueueInv, ThiefInv
  <2> QED
    BY <1>11, <2>1, <2>2 DEF QueueInv, ThiefInv
<1> QED
  BY <1>12, <1>13, <1>14, <1>15, <1>16 DEF QueueInv

(* An idle register block.                                                 *)
LEMMA IdleTyped == Idle \in Registers /\ Idle.pc = "idle"
<1>1. 0 \in 0..(Modulus - 1) /\ 0 \in 0..MaxBatch
  BY Sizes, DequeAssumption
<1> QED
  BY <1>1 DEF Idle, Registers

(* try_push, storing m_bottom: the batch is appended to the queue.         *)
LEMMA PublishAppends ==
  ASSUME IInv, PushPublish
  PROVE  /\ owner.pc = "write" /\ bottom' = owner.b /\ owner' = Idle
         /\ UNCHANGED <<buffer, top, thief, taken>>
         /\ Written \in 1..N /\ Size + Written <= N /\ next' = next + Written
         /\ next' \in 1..(MaxPush + 1)
         /\ Size' = Size + Written /\ Gone' = Gone
         /\ \A i : At(i)' = At(i)
         /\ \A i \in 0..(Written - 1) : At(Size + i) = next + i
<1> USE DEF IInv
<1>1. /\ owner.pc = "write" /\ owner.todo = 0 /\ bottom' = owner.b
      /\ next' = next + Written /\ owner' = Idle
      /\ UNCHANGED <<buffer, top, thief, taken>>
  BY DEF PushPublish, Written
<1>2. /\ Size + Written + owner.todo <= N /\ Written + owner.todo > 0
      /\ next + Written + owner.todo - 1 <= MaxPush
      /\ \A i \in 0..(Written - 1) : buffer[Slot(bottom + i)] = next + i
  BY <1>1 DEF QueueInv, OwnerInv
<1>3. /\ Written \in 1..N /\ Size + Written <= N /\ next' \in 1..(MaxPush + 1)
  BY <1>1, <1>2, Bounds, Sizes
<1>4. EffectiveBottom = bottom /\ EffectiveBottom' = owner.b
  BY <1>1, IdleTyped DEF EffectiveBottom
<1>5. Size' = Size + Written
  <2>1. /\ bottom + Written \in Int /\ -top \in Int /\ bottom - top \in Int
        /\ (bottom + Written) + (-top) = (bottom - top) + Written
        /\ Written \in Int
    BY <1>3, Bounds
  <2>2. Wrap(Wrap(bottom + Written) + (-top)) = Wrap((bottom - top) + Written)
    <3>1. Wrap(Wrap(bottom + Written) + (-top)) = Wrap((bottom + Written) + (-top))
      BY <2>1, WrapAdd, Zenon
    <3> QED
      BY <2>1, <3>1, Zenon
  <2>3. owner.b = Wrap(bottom + Written) /\ owner.b + (-top) = owner.b - top
    BY Positions, Bounds
  <2>4. Size = Wrap(bottom - top) /\ Size' = Wrap(owner.b - top)
    BY <1>1, <1>4 DEF Size
  <2>5. Size + Written \in 0..(Modulus - 1)
    BY <1>3, Bounds, Sizes
  <2>6. Wrap((bottom - top) + Written) = Size + Written
    BY <2>1, <2>4, <2>5, WrapShift, Zenon
  <2> QED
    BY <2>2, <2>3, <2>4, <2>6
<1>6. Gone' = Gone /\ \A i : At(i)' = At(i)
  BY <1>1 DEF Gone, At
<1>7. \A i \in 0..(Written - 1) : At(Size + i) = next + i
  <2> SUFFICES ASSUME NEW i \in 0..(Written - 1) PROVE At(Size + i) = next + i
    OBVIOUS
  <2>1. Slot(EffectiveBottom + i) = Slot((top + Size) + i)
    BY <1>3, SlotsOfTop
  <2>2. (top + Size) + i = top + (Size + i)
    BY <1>3, Bounds
  <2> QED
    BY <1>2, <1>4, <2>1, <2>2 DEF At
<1> QED
  BY <1>1, <1>3, <1>5, <1>6, <1>7

(* The batch goes on in the order of the pushes.                           *)
LEMMA PushPublishKeeps ==
  ASSUME IInv, PushPublish
  PROVE  IInv'
<1> USE DEF IInv
<1>1. /\ owner.pc = "write" /\ bottom' = owner.b /\ owner' = Idle
      /\ UNCHANGED <<buffer, top, thief, taken>>
      /\ Written \in 1..N /\ Size + Written <= N /\ next' = next + Written
      /\ next' \in 1..(MaxPush + 1)
      /\ Size' = Size + Written /\ Gone' = Gone
      /\ \A i : At(i)' = At(i)
      /\ \A i \in 0..(Written - 1) : At(Size + i) = next + i
  BY PublishAppends
<1>2. \A i \in Size..(Size + Written - 1) : At(i) = next + (i - Size)
  <2> SUFFICES ASSUME NEW i \in Size..(Size + Written - 1) PROVE At(i) = next + (i - Size)
    OBVIOUS
  <2>1. i - Size \in 0..(Written - 1) /\ Size + (i - Size) = i
    BY <1>1, Bounds
  <2>2. At(Size + (i - Size)) = next + (i - Size)
    BY <1>1, <2>1, Zenon
  <2> QED
    BY <2>1, <2>2
<1>3. CountersTyped'
  BY <1>1, IdleTyped DEF CountersTyped, Registers
<1>4. OwnerInv'
  BY <1>1, IdleTyped DEF OwnerInv
<1>5. /\ \A i \in 0..(Size - 1) : At(i) \in 1..(next - 1)
      /\ \A i, k \in 0..(Size - 1) : i < k => At(i) < At(k)
      /\ \A k \in 0..(Gone + Size - 1) : buffer[Slot(Start + k)] # JobNull
  BY DEF QueueInv, BufferInv
<1>6. BufferInv'
  <2>1. /\ Size' <= N /\ Gone' + Size' <= next' - 1
    BY <1>1, Bounds
  <2>2. \A i \in 0..(Size' - 1) : At(i) \in 1..(next' - 1)
    BY <1>1, <1>2, <1>5, Bounds
  <2>3. \A i, k \in 0..(Size' - 1) : i < k => At(i) < At(k)
    BY <1>1, <1>2, <1>5, Bounds
  <2>4. \A k \in 0..(Gone' + Size' - 1) : buffer'[Slot(Start + k)] # JobNull
    <3> SUFFICES ASSUME NEW k \in 0..(Gone + Size + Written - 1), k >= Gone + Size
                 PROVE  buffer[Slot(Start + k)] # JobNull
      BY <1>1, <1>5, Bounds
    <3>1. /\ k - Gone \in Size..(Size + Written - 1) /\ k - Gone \in Int
          /\ (Start + Gone) + (k - Gone) = Start + k
      BY <1>1, Bounds
    <3>2. Slot(top + (k - Gone)) = Slot(Start + k)
      BY <3>1, SlotsOfTop
    <3>3. At(k - Gone) \in 1..MaxPush
      BY <1>1, <1>2, <3>1, Bounds
    <3> QED
      BY <3>2, <3>3, DequeAssumption DEF At
  <2> QED
    BY <1>1, <2>1, <2>2, <2>3, <2>4 DEF BufferInv
<1>7. TakenInv'
  <2>1. /\ \A j \in Jobs : taken[j] \in {0, 1}
        /\ \A j \in Jobs : j >= next => taken[j] = 0
        /\ \A j \in 1..(next - 1) : taken[j] = 0 <=> \E i \in 0..(Size - 1) : At(i) = j
    BY DEF QueueInv, TakenInv
  <2>2. \A j \in Jobs : j >= next' => taken[j] = 0
    BY <1>1, <2>1, Bounds DEF Jobs
  <2>3. ASSUME NEW j \in 1..(next' - 1)
        PROVE  taken[j] = 0 <=> \E i \in 0..(Size' - 1) : At(i) = j
    <3>1. CASE j < next
      <4>1. \A i \in Size..(Size + Written - 1) : At(i) # j
        BY <1>1, <1>2, <3>1, Bounds
      <4> QED
        BY <1>1, <2>1, <3>1, <4>1, Bounds
    <3>2. CASE j >= next
      <4>1. Size + (j - next) \in Size..(Size + Written - 1)
        BY <1>1, <3>2, Bounds
      <4>2. At(Size + (j - next)) = j
        BY <1>1, <1>2, <3>2, <4>1, Bounds
      <4>3. taken[j] = 0 /\ Size + (j - next) \in 0..(Size' - 1)
        BY <1>1, <2>1, <3>2, <4>1, Bounds DEF Jobs
      <4> QED
        BY <4>2, <4>3
    <3> QED
      BY <1>1, <3>1, <3>2, Bounds
  <2> QED
    BY <1>1, <2>1, <2>2, <2>3 DEF TakenInv
<1>8. ThiefInv'
  <2>1. Size >= 1 => Size' >= 1
    BY <1>1, Bounds
  <2> QED
    BY <1>1, <2>1 DEF QueueInv, ThiefInv
<1> QED
  BY <1>3, <1>4, <1>6, <1>7, <1>8 DEF QueueInv

(* try_pop, storing the decremented m_bottom: the reserved job still       *)
(* counts as queued.                                                       *)
LEMMA ReserveStutters ==
  ASSUME IInv, PopReserve
  PROVE  EffectiveBottom' = EffectiveBottom
<1>1. /\ owner.pc = "idle" /\ bottom' = Wrap(bottom - 1)
      /\ owner' = [Idle EXCEPT !.pc = "popTop", !.b = Wrap(bottom - 1)]
  BY DEF PopReserve
<1>2. owner'.pc = "popTop" /\ owner'.b = Wrap(bottom - 1)
  BY <1>1 DEF Idle
<1>3. /\ bottom \in 0..(Modulus - 1) /\ bottom - 1 \in Int /\ (bottom - 1) + 1 = bottom
  BY Sizes DEF IInv, CountersTyped
<1>4. Wrap(Wrap(bottom - 1) + 1) = Wrap(bottom)
  <2>1. Wrap(Wrap(bottom - 1) + 1) = Wrap((bottom - 1) + 1)
    BY <1>3, WrapAdd
  <2> QED
    BY <1>3, <2>1
<1>5. Wrap(bottom) = bottom
  BY <1>3, WrapSmall
<1> QED
  BY <1>1, <1>2, <1>4, <1>5 DEF EffectiveBottom

(* Reserving hands nothing out.                                            *)
LEMMA PopReserveKeeps ==
  ASSUME IInv, PopReserve
  PROVE  IInv'
<1>1. /\ owner.pc = "idle" /\ bottom' = Wrap(bottom - 1)
      /\ owner' = [Idle EXCEPT !.pc = "popTop", !.b = Wrap(bottom - 1)]
      /\ UNCHANGED <<buffer, top, thief, next, taken>>
  BY DEF PopReserve
<1>2. owner' = [pc |-> "popTop", b |-> bottom', t |-> 0, todo |-> 0, job |-> JobNull]
  BY <1>1 DEF Idle
<1>3. EffectiveBottom' = EffectiveBottom
  BY ReserveStutters
<1>4. BufferInv' /\ TakenInv' /\ ThiefInv'
  BY <1>1, <1>3, SameQueue, SameThieves
<1>5. OwnerInv'
  BY <1>2 DEF OwnerInv
<1>6. bottom' \in 0..(Modulus - 1)
  <2>1. bottom - 1 \in Int
    BY Bounds
  <2> QED
    BY <1>1, <2>1, WrapType
<1>7. owner' \in Registers
  BY <1>2, <1>6, Sizes, DequeAssumption DEF Registers
<1>8. CountersTyped'
  BY <1>1, <1>6, <1>7 DEF IInv, CountersTyped
<1> QED
  BY <1>4, <1>5, <1>8 DEF IInv, QueueInv

(* try_pop, putting m_bottom back.                                         *)
LEMMA PopRestoreKeeps ==
  ASSUME IInv, PopRestore
  PROVE  IInv' /\ EffectiveBottom' = EffectiveBottom
<1>1. /\ owner.pc = "restore" /\ bottom' = Wrap(owner.b + 1) /\ owner' = Idle
      /\ UNCHANGED <<buffer, top, thief, next, taken>>
  BY DEF PopRestore
<1>2. EffectiveBottom' = EffectiveBottom
  BY <1>1, IdleTyped DEF EffectiveBottom
<1>3. BufferInv' /\ TakenInv' /\ ThiefInv'
  BY <1>1, <1>2, SameQueue, SameThieves
<1>4. OwnerInv'
  BY <1>1, IdleTyped DEF OwnerInv
<1>5. bottom' \in 0..(Modulus - 1)
  <2>1. owner.b + 1 \in Int
    BY Bounds
  <2> QED
    BY <1>1, <2>1, WrapType
<1>6. CountersTyped'
  BY <1>1, <1>5, IdleTyped DEF IInv, CountersTyped
<1> QED
  BY <1>2, <1>3, <1>4, <1>6 DEF IInv, QueueInv

-----------------------------------------------------------------------------
(* Handing a job out                                                       *)

(* Advancing top hands the oldest job out: by the owner's compare_exchange *)
(* or by a thief's.                                                        *)
LEMMA AdvanceTop ==
  ASSUME IInv, Size >= 1, top' = Wrap(top + 1), EffectiveBottom' = EffectiveBottom,
         UNCHANGED <<buffer, next>>, Take(At(0))
  PROVE  /\ Size' = Size - 1 /\ Gone' = Gone + 1
         /\ \A i \in Int : At(i)' = At(i + 1)
         /\ top' \in 0..(Modulus - 1) /\ taken' \in [Jobs -> Nat]
         /\ BufferInv' /\ TakenInv'
         /\ \A t : Wrap(t - Start) <= Gone => t # top'
<1> USE DEF IInv
<1>1. /\ top + 1 \in Int /\ Wrap(top + 1) \in 0..(Modulus - 1) /\ Wrap(top + 1) \in Int
  <2>1. top + 1 \in Int
    BY Bounds
  <2> QED
    BY <2>1, WrapType
<1>2. Size' = Size - 1
  <2>1. /\ EffectiveBottom - (top + 1) = (EffectiveBottom - top) + (-1)
        /\ EffectiveBottom - top \in Int
    BY Bounds
  <2>2. Wrap(EffectiveBottom - Wrap(top + 1)) = Wrap((EffectiveBottom - top) + (-1))
    <3>1. Wrap(EffectiveBottom - Wrap(top + 1)) = Wrap(EffectiveBottom - (top + 1))
      BY <1>1, Bounds, WrapSub, Zenon
    <3> QED
      BY <2>1, <3>1, Zenon
  <2>3. Size = Wrap(EffectiveBottom - top) /\ Size' = Wrap(EffectiveBottom - Wrap(top + 1))
    BY DEF Size
  <2>4. Size + (-1) \in 0..(Modulus - 1) /\ -1 \in Int
    BY Bounds, Sizes
  <2>5. Wrap((EffectiveBottom - top) + (-1)) = Size + (-1)
    BY <2>1, <2>3, <2>4, WrapShift, Zenon
  <2> QED
    BY <2>2, <2>3, <2>5, Bounds
<1>3. Gone' = Gone + 1
  <2>1. /\ (top + 1) + (-Start) = (top - Start) + 1 /\ -Start \in Int
        /\ top - Start \in Int /\ Wrap(top + 1) + (-Start) = Wrap(top + 1) - Start
    BY <1>1, Bounds
  <2>2. Wrap(Wrap(top + 1) + (-Start)) = Wrap((top - Start) + 1)
    <3>1. Wrap(Wrap(top + 1) + (-Start)) = Wrap((top + 1) + (-Start))
      BY <1>1, <2>1, WrapAdd, Zenon
    <3> QED
      BY <2>1, <3>1, Zenon
  <2>3. Gone = Wrap(top - Start) /\ Gone' = Wrap(Wrap(top + 1) - Start)
    BY DEF Gone
  <2>4. Gone + 1 \in 0..(Modulus - 1) /\ 1 \in Int
    BY Bounds, Sizes
  <2>5. Wrap((top - Start) + 1) = Gone + 1
    BY <2>1, <2>3, <2>4, WrapShift, Zenon
  <2> QED
    BY <2>1, <2>2, <2>3, <2>5
<1>4. ASSUME NEW i \in Int PROVE At(i)' = At(i + 1)
  <2>1. Slot(Wrap(top + 1) + i) = Slot((top + 1) + i)
    BY <1>1, SlotAdd
  <2>2. (top + 1) + i = top + (i + 1)
    BY Bounds
  <2> QED
    BY <2>1, <2>2 DEF At
<1>5. /\ Size \in 1..N /\ Gone \in Nat /\ next \in Int
      /\ Gone + Size <= next - 1 /\ next - 1 <= MaxPush /\ MaxPush \in Nat
  BY Bounds
<1>6. /\ \A i \in 0..(Size - 1) : At(i) \in 1..(next - 1)
      /\ \A i, k \in 0..(Size - 1) : i < k => At(i) < At(k)
      /\ \A k \in 0..(Gone + Size - 1) : buffer[Slot(Start + k)] # JobNull
  BY DEF QueueInv, BufferInv
<1>7. BufferInv'
  <2>1. Size' <= N /\ Gone' + Size' <= next' - 1
    BY <1>2, <1>3, <1>5, Sizes
  <2>2. ASSUME NEW i \in 0..(Size' - 1)
        PROVE  i \in Int /\ i + 1 \in 0..(Size - 1) /\ At(i)' = At(i + 1)
    BY <1>2, <1>4, <1>5
  <2>3. \A i \in 0..(Size' - 1) : At(i)' \in 1..(next' - 1)
    BY <1>6, <2>2
  <2>4. \A i, k \in 0..(Size' - 1) : i < k => At(i)' < At(k)'
    <3> SUFFICES ASSUME NEW i \in 0..(Size' - 1), NEW k \in 0..(Size' - 1), i < k
                 PROVE  At(i)' < At(k)'
      OBVIOUS
    <3>1. i + 1 < k + 1
      BY <1>2, <1>5
    <3> QED
      BY <1>6, <2>2, <3>1
  <2>5. \A k \in 0..(Gone' + Size' - 1) : buffer'[Slot(Start + k)] # JobNull
    <3>1. Gone' + Size' - 1 = Gone + Size - 1
      BY <1>2, <1>3, <1>5
    <3> QED
      BY <1>6, <3>1
  <2> QED
    BY <2>1, <2>3, <2>4, <2>5 DEF BufferInv
<1>8. /\ \A j \in Jobs : taken[j] \in {0, 1}
      /\ \A j \in Jobs : j >= next => taken[j] = 0
      /\ \A j \in 1..(next - 1) : taken[j] = 0 <=> \E i \in 0..(Size - 1) : At(i) = j
  BY DEF QueueInv, TakenInv
<1>9. /\ At(0) \in 1..(next - 1) /\ At(0) \in Jobs /\ taken[At(0)] = 0
  BY <1>5, <1>6, <1>8 DEF Jobs
<1>10. /\ taken \in [Jobs -> Nat]
       /\ \A j \in Jobs : taken'[j] = IF j = At(0) THEN 1 ELSE taken[j]
       /\ taken' \in [Jobs -> Nat]
  <2>1. taken \in [Jobs -> Nat] /\ taken' = [taken EXCEPT ![At(0)] = @ + 1]
    BY DEF CountersTyped, Take
  <2> QED
    BY <1>9, <2>1
<1>11. TakenInv'
  <2>1. \A j \in Jobs : taken'[j] \in {0, 1} /\ (j >= next => taken'[j] = 0)
    BY <1>5, <1>8, <1>9, <1>10
  <2>2. ASSUME NEW j \in 1..(next - 1)
        PROVE  taken'[j] = 0 <=> \E i \in 0..(Size' - 1) : At(i)' = j
    <3>1. j \in Jobs
      BY <1>5 DEF Jobs
    <3>2. CASE j = At(0)
      <4>1. ASSUME NEW i \in 0..(Size' - 1) PROVE At(i)' # j
        <5>1. i + 1 \in 0..(Size - 1) /\ At(i)' = At(i + 1) /\ 0 < i + 1 /\ 0 \in 0..(Size - 1)
          BY <1>2, <1>4, <1>5
        <5>2. At(0) < At(i + 1) /\ At(0) \in Int /\ At(i + 1) \in Int
          BY <1>6, <5>1
        <5> QED
          BY <3>2, <5>1, <5>2
      <4> QED
        BY <1>10, <3>1, <3>2, <4>1
    <3>3. CASE j # At(0)
      <4>1. taken'[j] = taken[j]
        BY <1>10, <3>1, <3>3
      <4>2. ASSUME NEW i \in 0..(Size - 1), At(i) = j
            PROVE  \E k \in 0..(Size' - 1) : At(k)' = j
        <5>1. i - 1 \in 0..(Size' - 1) /\ i - 1 \in Int /\ (i - 1) + 1 = i
          BY <1>2, <1>5, <3>3, <4>2
        <5>2. At(i - 1)' = At(i)
          BY <1>4, <5>1
        <5> QED
          BY <4>2, <5>1, <5>2
      <4>3. ASSUME NEW i \in 0..(Size' - 1), At(i)' = j
            PROVE  \E k \in 0..(Size - 1) : At(k) = j
        <5>1. i + 1 \in 0..(Size - 1) /\ At(i)' = At(i + 1)
          BY <1>2, <1>4, <1>5
        <5> QED
          BY <4>3, <5>1
      <4> QED
        BY <1>8, <4>1, <4>2, <4>3
    <3> QED
      BY <3>2, <3>3
  <2> QED
    BY <2>1, <2>2 DEF TakenInv
<1>12. ASSUME NEW t, Wrap(t - Start) <= Gone PROVE t # top'
  <2>1. Wrap(top' - Start) = Gone + 1
    BY <1>3 DEF Gone
  <2> QED
    BY <1>5, <1>12, <2>1
<1> QED
  BY <1>1, <1>2, <1>3, <1>4, <1>7, <1>10, <1>11, <1>12

(* The place the owner reserved is the last one of the queue.              *)
LEMMA ReservedSlot ==
  ASSUME IInv, owner.pc = "popTop", Size >= 1
  PROVE  Wrap(owner.b - top) = Size - 1 /\ Slot(owner.b) = Slot(top + (Size - 1))
<1>1. Wrap(owner.b - top) = Size - 1
  <2>1. /\ owner.b - top + 1 \in Int /\ owner.b - top \in Int /\ -1 \in Int
        /\ (owner.b - top + 1) + (-1) = owner.b - top
    BY Bounds
  <2>2. Size = Wrap(owner.b - top + 1)
    BY PopSize DEF IInv
  <2>3. Size + (-1) \in 0..(Modulus - 1) /\ Size + (-1) = Size - 1
    BY Bounds, Sizes
  <2>4. Wrap((owner.b - top + 1) + (-1)) = Size + (-1)
    BY <2>1, <2>2, <2>3, WrapShift, Zenon
  <2> QED
    BY <2>1, <2>3, <2>4
<1>2. Slot(owner.b) = Slot(top + (Size - 1))
  <2>1. owner.b \in 0..(Modulus - 1) /\ top \in 0..(Modulus - 1)
    BY DEF IInv, CountersTyped, Registers
  <2>2. owner.b = Wrap(top + (Size - 1))
    BY <1>1, <2>1, WrapBack
  <2>3. /\ top + (Size - 1) \in Int /\ Wrap(top + (Size - 1)) \in Int
        /\ (top + (Size - 1)) + 0 = top + (Size - 1)
        /\ Wrap(top + (Size - 1)) + 0 = Wrap(top + (Size - 1))
    BY Bounds, <2>2
  <2>4. Slot(Wrap(top + (Size - 1)) + 0) = Slot((top + (Size - 1)) + 0)
    BY <2>3, SlotAdd
  <2> QED
    BY <2>2, <2>3, <2>4
<1> QED
  BY <1>1, <1>2

(* try_pop hands the newest job out without a race when more than one is   *)
(* queued: the reserved one leaves at the back.                            *)
LEMMA TakeNewest ==
  ASSUME IInv, owner.pc = "popTop", Size > 1, owner' = Idle,
         UNCHANGED <<buffer, bottom, top, next>>, Take(buffer[Slot(owner.b)])
  PROVE  /\ buffer[Slot(owner.b)] = At(Size - 1)
         /\ Size' = Size - 1 /\ Gone' = Gone
         /\ \A i : At(i)' = At(i)
         /\ taken' \in [Jobs -> Nat]
         /\ BufferInv' /\ TakenInv'
<1> USE DEF IInv
<1>1. /\ Size \in 2..N /\ Gone \in Nat /\ next \in Int
      /\ Gone + Size <= next - 1 /\ next - 1 <= MaxPush /\ MaxPush \in Nat
  BY Bounds
<1>2. bottom = owner.b /\ EffectiveBottom' = bottom
  BY IdleTyped DEF QueueInv, OwnerInv, EffectiveBottom
<1>3. Wrap(owner.b - top) = Size - 1
  BY <1>1, ReservedSlot
<1>4. Size' = Size - 1
  BY <1>2, <1>3 DEF Size
<1>5. Gone' = Gone /\ \A i : At(i)' = At(i)
  BY DEF Gone, At
<1>6. buffer[Slot(owner.b)] = At(Size - 1)
  BY <1>1, ReservedSlot DEF At
<1>7. /\ \A i \in 0..(Size - 1) : At(i) \in 1..(next - 1)
      /\ \A i, k \in 0..(Size - 1) : i < k => At(i) < At(k)
      /\ \A k \in 0..(Gone + Size - 1) : buffer[Slot(Start + k)] # JobNull
  BY DEF QueueInv, BufferInv
<1>8. \A i \in 0..(Size' - 1) : i \in 0..(Size - 1)
  BY <1>1, <1>4
<1>9. BufferInv'
  <2>1. \A k \in 0..(Gone' + Size' - 1) : k \in 0..(Gone + Size - 1)
    BY <1>1, <1>4, <1>5
  <2>2. Size' <= N /\ Gone' + Size' <= next' - 1
    BY <1>1, <1>4, <1>5, Sizes
  <2> QED
    BY <1>5, <1>7, <1>8, <2>1, <2>2 DEF BufferInv
<1>10. /\ \A j \in Jobs : taken[j] \in {0, 1}
       /\ \A j \in Jobs : j >= next => taken[j] = 0
       /\ \A j \in 1..(next - 1) : taken[j] = 0 <=> \E i \in 0..(Size - 1) : At(i) = j
  BY DEF QueueInv, TakenInv
<1>11. Size - 1 \in 0..(Size - 1)
  BY <1>1
<1>12. /\ At(Size - 1) \in 1..(next - 1) /\ At(Size - 1) \in Jobs /\ taken[At(Size - 1)] = 0
  BY <1>1, <1>7, <1>10, <1>11 DEF Jobs
<1>13. /\ \A j \in Jobs : taken'[j] = IF j = At(Size - 1) THEN 1 ELSE taken[j]
       /\ taken' \in [Jobs -> Nat]
  <2>1. taken \in [Jobs -> Nat] /\ taken' = [taken EXCEPT ![At(Size - 1)] = @ + 1]
    BY <1>6 DEF CountersTyped, Take
  <2> QED
    BY <1>12, <2>1
<1>14. TakenInv'
  <2>1. \A j \in Jobs : taken'[j] \in {0, 1} /\ (j >= next => taken'[j] = 0)
    BY <1>1, <1>10, <1>12, <1>13
  <2>2. ASSUME NEW j \in 1..(next - 1)
        PROVE  taken'[j] = 0 <=> \E i \in 0..(Size' - 1) : At(i) = j
    <3>1. j \in Jobs
      BY <1>1 DEF Jobs
    <3>2. CASE j = At(Size - 1)
      <4>1. ASSUME NEW i \in 0..(Size' - 1) PROVE At(i) # j
        <5>1. i \in 0..(Size - 1) /\ i < Size - 1
          BY <1>1, <1>4
        <5>2. At(i) < At(Size - 1) /\ At(i) \in Int /\ At(Size - 1) \in Int
          BY <1>7, <1>11, <5>1
        <5> QED
          BY <3>2, <5>2
      <4> QED
        BY <1>13, <3>1, <3>2, <4>1
    <3>3. CASE j # At(Size - 1)
      <4>1. ASSUME NEW i \in 0..(Size - 1), At(i) = j
            PROVE  i \in 0..(Size' - 1)
        BY <1>1, <1>4, <3>3, <4>1
      <4> QED
        BY <1>8, <1>10, <1>13, <3>1, <3>3, <4>1
    <3> QED
      BY <3>2, <3>3
  <2> QED
    BY <1>5, <2>1, <2>2 DEF TakenInv
<1> QED
  BY <1>4, <1>5, <1>6, <1>9, <1>13, <1>14

(* try_pop, loading m_top.                                                 *)
LEMMA PopReadTopKeeps ==
  ASSUME IInv, PopReadTop
  PROVE  IInv'
<1> USE DEF IInv
<1>1. owner.pc = "popTop" /\ UNCHANGED <<buffer, bottom, top, thief, next>>
  BY DEF PopReadTop
<1>2. Size \in 0..N /\ CountersTyped /\ bottom = owner.b
  BY <1>1, Bounds DEF QueueInv, OwnerInv
<1>3. /\ Signed(top, owner.b) > 0 <=> Size = 0
      /\ top = owner.b <=> Size = 1
      /\ Signed(top, owner.b) < 0 <=> Size > 1
  BY <1>1, <1>2, PopTopCases
<1>4. owner \in Registers /\ Slot(owner.b) \in 0..(N - 1) /\ buffer[Slot(owner.b)] \in Jobs \cup {JobNull}
  <2>1. owner \in Registers /\ owner.b \in Int
    BY Bounds DEF CountersTyped
  <2>2. Slot(owner.b) \in 0..(N - 1)
    BY <2>1, WrapType
  <2> QED
    BY <2>1, <2>2 DEF CountersTyped
<1>5. CASE Signed(top, owner.b) > 0
  <2>1. owner' = [owner EXCEPT !.pc = "restore"] /\ UNCHANGED taken
    BY <1>2, <1>3, <1>5 DEF PopReadTop
  <2>2. owner'.pc = "restore" /\ owner'.b = owner.b /\ owner' \in Registers
    BY <1>4, <2>1 DEF Registers
  <2>3. EffectiveBottom' = EffectiveBottom
    BY <1>1, <2>2 DEF EffectiveBottom
  <2>4. BufferInv' /\ TakenInv' /\ ThiefInv'
    BY <1>1, <2>1, <2>3, SameQueue, SameThieves
  <2>5. OwnerInv'
    BY <1>1, <1>2, <2>2 DEF OwnerInv
  <2>6. CountersTyped'
    BY <1>1, <2>1, <2>2 DEF CountersTyped
  <2> QED
    BY <2>4, <2>5, <2>6 DEF QueueInv
<1>6. CASE top = owner.b
  <2>1. /\ owner' = [owner EXCEPT !.pc = "popCas", !.t = top, !.job = buffer[Slot(owner.b)]]
        /\ UNCHANGED taken
    BY <1>2, <1>3, <1>6 DEF PopReadTop
  <2>2. /\ owner'.pc = "popCas" /\ owner'.b = owner.b /\ owner'.t = owner.b
        /\ owner'.job = buffer[Slot(owner.b)] /\ owner' \in Registers
    BY <1>4, <1>6, <2>1 DEF Registers
  <2>3. EffectiveBottom' = EffectiveBottom
    BY <1>1, <2>2 DEF EffectiveBottom
  <2>4. Size' = Size /\ BufferInv' /\ TakenInv' /\ ThiefInv'
    BY <1>1, <2>1, <2>3, SameQueue, SameThieves
  <2>5. buffer[Slot(owner.b)] # JobNull
    <3>1. Size = 1 /\ top + 0 = top /\ MaxPush \in Nat
      BY <1>3, <1>6, Bounds
    <3>2. At(0) \in 1..MaxPush
      BY <3>1, Bounds DEF QueueInv, BufferInv
    <3> QED
      BY <1>6, <3>1, <3>2, DequeAssumption DEF At
  <2>6. OwnerInv'
    BY <1>1, <1>2, <1>3, <1>6, <2>2, <2>4, <2>5 DEF OwnerInv
  <2>7. CountersTyped'
    BY <1>1, <2>1, <2>2 DEF CountersTyped
  <2> QED
    BY <2>4, <2>6, <2>7 DEF QueueInv
<1>7. CASE Signed(top, owner.b) < 0
  <2>1. Take(buffer[Slot(owner.b)]) /\ owner' = Idle /\ Size > 1
    BY <1>2, <1>3, <1>7 DEF PopReadTop
  <2>2. /\ Size' = Size - 1 /\ Gone' = Gone /\ \A i : At(i)' = At(i)
        /\ taken' \in [Jobs -> Nat] /\ BufferInv' /\ TakenInv'
    BY <1>1, <2>1, TakeNewest
  <2>3. Size' >= 1
    BY <1>2, <2>1, <2>2, Sizes
  <2>4. ThiefInv'
    BY <1>1, <2>2, <2>3 DEF QueueInv, ThiefInv
  <2>5. OwnerInv'
    BY <2>1, IdleTyped DEF OwnerInv
  <2>6. CountersTyped'
    BY <1>1, <2>1, <2>2, IdleTyped DEF CountersTyped
  <2> QED
    BY <2>2, <2>4, <2>5, <2>6 DEF QueueInv
<1> QED
  BY <1>2, <1>3, <1>5, <1>6, <1>7, Sizes

(* The owner wins the last job exactly when m_top is where it read it.     *)
LEMMA PopWins ==
  ASSUME IInv, owner.pc = "popCas", top = owner.t
  PROVE  Size = 1 /\ owner.job = At(0)
<1>1. owner.t = owner.b /\ owner.job = buffer[Slot(owner.b)]
  BY DEF IInv, QueueInv, OwnerInv
<1>2. top - top + 1 = 1 /\ top + 0 = top /\ 1 \in 0..(Modulus - 1)
  BY Bounds, Sizes
<1>3. Size = Wrap(top - top + 1)
  BY <1>1, PopSize DEF IInv
<1> QED
  BY <1>1, <1>2, <1>3, WrapSmall DEF At

(* What thieves know after the oldest job is gone: their top is stale.     *)
LEMMA ThievesLate ==
  ASSUME IInv, Gone' = Gone + 1, UNCHANGED buffer,
         \A t : Wrap(t - Start) <= Gone => t # top',
         \A w \in Thieves : thief'[w] \in {thief[w], Idle}
  PROVE  ThiefInv'
<1> SUFFICES ASSUME NEW w \in Thieves
             PROVE  /\ thief'[w].pc \in {"idle", "bottom", "read", "cas"}
                    /\ thief'[w].pc # "idle" => Wrap(thief'[w].t - Start) <= Gone'
                    /\ thief'[w].pc \in {"read", "cas"} /\ thief'[w].t = top' => Size' >= 1
                    /\ thief'[w].pc \in {"read", "cas"} => buffer[Slot(thief'[w].t)] # JobNull
                    /\ thief'[w].pc = "cas" => thief'[w].job # JobNull
                    /\ thief'[w].pc = "cas" /\ thief'[w].t = top' => thief'[w].job = At(0)'
  BY DEF ThiefInv
<1>1. CASE thief'[w] = Idle
  BY <1>1, IdleTyped
<1>2. CASE thief'[w] = thief[w]
  <2>1. /\ thief[w].pc \in {"idle", "bottom", "read", "cas"}
        /\ thief[w].pc # "idle" => Wrap(thief[w].t - Start) <= Gone
        /\ thief[w].pc \in {"read", "cas"} => buffer[Slot(thief[w].t)] # JobNull
        /\ thief[w].pc = "cas" => thief[w].job # JobNull
    BY DEF IInv, QueueInv, ThiefInv
  <2>2. Wrap(thief[w].t - Start) <= Gone => Wrap(thief[w].t - Start) <= Gone'
    <3>1. Wrap(thief[w].t - Start) \in Int /\ Gone \in Nat
      <4>1. thief[w].t \in Int /\ Start \in Int
        BY Sizes, DequeAssumption DEF IInv, CountersTyped, Registers
      <4> QED
        BY <4>1, WrapType, Bounds
    <3> QED
      BY <3>1
  <2> QED
    BY <1>2, <2>1, <2>2
<1> QED
  BY <1>1, <1>2

(* try_pop, compare_exchange on m_top.                                     *)
LEMMA PopCasKeeps ==
  ASSUME IInv, PopCas
  PROVE  IInv'
<1> USE DEF IInv
<1>1. /\ owner.pc = "popCas" /\ owner' = [owner EXCEPT !.pc = "restore"]
      /\ UNCHANGED <<buffer, bottom, thief, next>>
  BY DEF PopCas
<1>2. owner'.pc = "restore" /\ owner'.b = owner.b /\ owner' \in Registers
  BY <1>1 DEF CountersTyped, Registers
<1>3. EffectiveBottom' = EffectiveBottom
  BY <1>1, <1>2 DEF EffectiveBottom
<1>4. OwnerInv'
  BY <1>1, <1>2 DEF QueueInv, OwnerInv
<1>5. CASE top = owner.t
  <2>1. Size = 1 /\ top' = Wrap(top + 1) /\ Take(At(0))
    BY <1>1, <1>5, PopWins DEF PopCas
  <2>2. Size >= 1
    BY <2>1
  <2>3. /\ Gone' = Gone + 1 /\ top' \in 0..(Modulus - 1) /\ taken' \in [Jobs -> Nat]
        /\ BufferInv' /\ TakenInv'
        /\ \A t : Wrap(t - Start) <= Gone => t # top'
    BY <1>1, <1>3, <2>1, <2>2, AdvanceTop
  <2>4. ThiefInv'
    BY <1>1, <2>3, ThievesLate
  <2>5. CountersTyped'
    BY <1>1, <1>2, <2>3 DEF CountersTyped
  <2> QED
    BY <1>4, <2>3, <2>4, <2>5 DEF QueueInv
<1>6. CASE top # owner.t
  <2>1. UNCHANGED <<top, taken>>
    BY <1>6 DEF PopCas
  <2>2. BufferInv' /\ TakenInv' /\ ThiefInv'
    BY <1>1, <1>3, <2>1, SameQueue, SameThieves
  <2>3. CountersTyped'
    BY <1>1, <1>2, <2>1 DEF CountersTyped
  <2> QED
    BY <1>4, <2>2, <2>3 DEF QueueInv
<1> QED
  BY <1>5, <1>6

-----------------------------------------------------------------------------
(* try_steal                                                               *)

(* Steps of a thief alone change nothing but the thief.                    *)
LEMMA OnlyThieves ==
  ASSUME IInv, UNCHANGED <<buffer, bottom, top, owner, next, taken>>
  PROVE  /\ OwnerInv' /\ BufferInv' /\ TakenInv'
         /\ Size' = Size /\ Gone' = Gone /\ At(0)' = At(0)
         /\ EffectiveBottom' = EffectiveBottom
<1>1. EffectiveBottom' = EffectiveBottom /\ Written' = Written /\ At(0)' = At(0)
  BY DEF EffectiveBottom, Written, At
<1>2. Size' = Size /\ Gone' = Gone /\ BufferInv' /\ TakenInv'
  BY <1>1, SameQueue
<1> QED
  BY <1>1, <1>2 DEF IInv, QueueInv, OwnerInv

(* A thief moves to r; the queue and the other thieves stay.               *)
LEMMA OneThief ==
  ASSUME IInv, NEW w \in Thieves, NEW r, UNCHANGED <<buffer, bottom, top, owner, next, taken>>,
         \A u \in Thieves : thief'[u] = IF u = w THEN r ELSE thief[u],
         r.pc \in {"idle", "bottom", "read", "cas"},
         r.pc # "idle" => Wrap(r.t - Start) <= Gone,
         r.pc \in {"read", "cas"} /\ r.t = top => Size >= 1,
         r.pc \in {"read", "cas"} => buffer[Slot(r.t)] # JobNull,
         r.pc = "cas" => r.job # JobNull,
         r.pc = "cas" /\ r.t = top => r.job = At(0)
  PROVE  ThiefInv'
<1>1. Size' = Size /\ Gone' = Gone /\ At(0)' = At(0) /\ UNCHANGED <<buffer, top>>
  BY OnlyThieves
<1> SUFFICES ASSUME NEW u \in Thieves
             PROVE  /\ thief'[u].pc \in {"idle", "bottom", "read", "cas"}
                    /\ thief'[u].pc # "idle" => Wrap(thief'[u].t - Start) <= Gone
                    /\ thief'[u].pc \in {"read", "cas"} /\ thief'[u].t = top => Size >= 1
                    /\ thief'[u].pc \in {"read", "cas"} => buffer[Slot(thief'[u].t)] # JobNull
                    /\ thief'[u].pc = "cas" => thief'[u].job # JobNull
                    /\ thief'[u].pc = "cas" /\ thief'[u].t = top => thief'[u].job = At(0)
  BY <1>1 DEF ThiefInv
<1>2. CASE u = w
  BY <1>2
<1>3. CASE u # w
  <2>1. thief'[u] = thief[u]
    BY <1>3
  <2> QED
    BY <2>1 DEF IInv, QueueInv, ThiefInv
<1> QED
  BY <1>2, <1>3

(* A top that is not ahead of m_top, and not behind an empty queue, is the *)
(* place of a job that was pushed.                                         *)
LEMMA PushedSlot ==
  ASSUME IInv, NEW t \in 0..(Modulus - 1), Wrap(t - Start) <= Gone, t = top => Size >= 1
  PROVE  buffer[Slot(t)] # JobNull
<1>1. PICK k \in Int : k = Wrap(t - Start) /\ k \in Nat
  <2>1. t - Start \in Int
    BY Bounds, Sizes
  <2> QED
    BY <2>1, WrapType, Sizes
<1>2. t = Wrap(Start + k)
  <2>1. Start \in 0..(Modulus - 1)
    BY DequeAssumption
  <2> QED
    BY <1>1, <2>1, WrapBack
<1>3. top = Wrap(Start + Gone)
  BY Positions DEF IInv
<1>4. k \in 0..(Gone + Size - 1)
  BY <1>1, <1>2, <1>3, Bounds
<1>5. Slot(t) = Slot(Start + k)
  <2>1. Slot(Wrap(Start + k) + 0) = Slot((Start + k) + 0)
    BY <1>1, Bounds, SlotAdd
  <2>2. Wrap(Start + k) + 0 = Wrap(Start + k) /\ (Start + k) + 0 = Start + k
    BY <1>1, <1>2, Bounds, Sizes
  <2> QED
    BY <1>2, <2>1, <2>2
<1> QED
  BY <1>4, <1>5 DEF IInv, QueueInv, BufferInv

(* A thief that finds m_bottom ahead of the current m_top sees a job.      *)
LEMMA SeenNotEmpty ==
  ASSUME IInv, Signed(bottom, top) > 0
  PROVE  Size >= 1
<1>1. /\ bottom \in Int /\ top \in Int /\ bottom - top \in Int /\ Size \in 0..N
  BY Bounds
<1>2. Wrap(bottom - top) \in 1..(Modulus - 2)
  <2>1. Wrap(bottom - top) \in 0..(Modulus - 1)
    BY <1>1, WrapType
  <2> QED
    BY <2>1, Sizes DEF Signed
<1>3. CASE owner.pc \in {"popTop", "popCas", "restore"}
  <2>1. Size = Wrap((bottom - top) + 1)
    <3>1. Size = Wrap(owner.b - top + 1) /\ bottom = owner.b
      BY <1>3, PopSize DEF IInv, QueueInv, OwnerInv
    <3> QED
      BY <3>1
  <2>2. Wrap(bottom - top) + 1 \in 0..(Modulus - 1) /\ 1 \in Int
    BY <1>2, Sizes
  <2>3. Wrap((bottom - top) + 1) = Wrap(bottom - top) + 1
    BY <1>1, <2>2, WrapShift, Zenon
  <2> QED
    BY <1>2, <2>1, <2>3, Sizes
<1>4. CASE owner.pc \notin {"popTop", "popCas", "restore"}
  BY <1>2, <1>4, Sizes DEF Size, EffectiveBottom
<1> QED
  BY <1>3, <1>4

(* try_steal, loading m_top.                                               *)
LEMMA StealReadTopKeeps ==
  ASSUME IInv, NEW w \in Thieves, StealReadTop(w)
  PROVE  IInv'
<1>1. /\ thief' = [thief EXCEPT ![w] = [Idle EXCEPT !.pc = "bottom", !.t = top]]
      /\ UNCHANGED <<buffer, bottom, top, owner, next, taken>>
  BY DEF StealReadTop
<1>2. PICK r : r = [Idle EXCEPT !.pc = "bottom", !.t = top]
  OBVIOUS
<1>3. r.pc = "bottom" /\ r.t = top /\ r \in Registers
  <2>1. r = [pc |-> "bottom", b |-> 0, t |-> top, todo |-> 0, job |-> JobNull]
    BY <1>2 DEF Idle
  <2>2. 0 \in 0..(Modulus - 1) /\ 0 \in 0..MaxBatch /\ top \in 0..(Modulus - 1)
    BY Sizes, DequeAssumption DEF IInv, CountersTyped
  <2> QED
    BY <2>1, <2>2 DEF Registers
<1>4. /\ OwnerInv' /\ BufferInv' /\ TakenInv' /\ Size' = Size /\ Gone' = Gone /\ At(0)' = At(0)
  BY <1>1, OnlyThieves
<1>5. CountersTyped'
  BY <1>1, <1>2, <1>3 DEF IInv, CountersTyped
<1>6. ThiefInv'
  <2>1. Wrap(top - Start) <= Gone
    BY Bounds DEF Gone
  <2>2. \A u \in Thieves : thief'[u] = IF u = w THEN r ELSE thief[u]
    BY <1>1, <1>2 DEF IInv, CountersTyped
  <2> QED
    BY <1>1, <1>3, <2>1, <2>2, OneThief
<1> QED
  BY <1>4, <1>5, <1>6 DEF IInv, QueueInv

(* try_steal, loading m_bottom: a thief goes on only if it saw a job.      *)
LEMMA StealReadBottomKeeps ==
  ASSUME IInv, NEW w \in Thieves, StealReadBottom(w)
  PROVE  IInv'
<1>1. /\ thief[w].pc = "bottom"
      /\ thief' = [thief EXCEPT ![w] = IF Signed(bottom, thief[w].t) <= 0 THEN Idle
                                       ELSE [thief[w] EXCEPT !.pc = "read"]]
      /\ UNCHANGED <<buffer, bottom, top, owner, next, taken>>
  BY DEF StealReadBottom, IInv, CountersTyped
<1>2. /\ OwnerInv' /\ BufferInv' /\ TakenInv' /\ Size' = Size /\ Gone' = Gone /\ At(0)' = At(0)
  BY <1>1, OnlyThieves
<1>3. thief[w] \in Registers /\ thief[w].t \in 0..(Modulus - 1) /\ thief \in [Thieves -> Registers]
  BY DEF IInv, CountersTyped, Registers
<1>4. Wrap(thief[w].t - Start) <= Gone
  BY <1>1 DEF IInv, QueueInv, ThiefInv
<1>5. CASE Signed(bottom, thief[w].t) <= 0
  <2>1. thief' = [thief EXCEPT ![w] = Idle]
    BY <1>1, <1>5
  <2>2. \A u \in Thieves : thief'[u] = IF u = w THEN Idle ELSE thief[u]
    BY <1>3, <2>1
  <2>3. CountersTyped'
    BY <1>1, <2>1, IdleTyped DEF IInv, CountersTyped
  <2>4. ThiefInv'
    BY <1>1, <2>2, IdleTyped, OneThief
  <2> QED
    BY <1>2, <2>3, <2>4 DEF IInv, QueueInv
<1>6. CASE ~(Signed(bottom, thief[w].t) <= 0)
  <2>1. thief' = [thief EXCEPT ![w] = [thief[w] EXCEPT !.pc = "read"]]
    BY <1>1, <1>6
  <2> DEFINE r == [thief[w] EXCEPT !.pc = "read"]
  <2>2. r.pc = "read" /\ r.t = thief[w].t /\ r \in Registers
    BY <1>3 DEF Registers
  <2> HIDE DEF r
  <2>3. CountersTyped'
    BY <1>1, <1>3, <2>1, <2>2 DEF IInv, CountersTyped, r
  <2>4. Signed(bottom, thief[w].t) > 0
    <3>1. Signed(bottom, thief[w].t) \in Int
      <4>1. bottom - thief[w].t \in Int
        BY <1>3, Bounds, Sizes
      <4>2. Wrap(bottom - thief[w].t) \in Int
        BY <4>1, WrapType
      <4> QED
        BY <4>2, Sizes DEF Signed
    <3> QED
      BY <1>6, <3>1
  <2>5. thief[w].t = top => Size >= 1
    BY <2>4, SeenNotEmpty
  <2>6. buffer[Slot(thief[w].t)] # JobNull
    BY <1>3, <1>4, <2>5, PushedSlot
  <2>7. \A u \in Thieves : thief'[u] = IF u = w THEN r ELSE thief[u]
    BY <1>3, <2>1 DEF r
  <2>8. ThiefInv'
    BY <1>1, <1>4, <2>2, <2>5, <2>6, <2>7, OneThief
  <2> QED
    BY <1>2, <2>3, <2>8 DEF IInv, QueueInv
<1> QED
  BY <1>5, <1>6

(* try_steal, loading the slot.                                            *)
LEMMA StealReadKeeps ==
  ASSUME IInv, NEW w \in Thieves, StealRead(w)
  PROVE  IInv'
<1>1. /\ thief[w].pc = "read"
      /\ thief' = [thief EXCEPT ![w].pc = "cas", ![w].job = buffer[Slot(thief[w].t)]]
      /\ UNCHANGED <<buffer, bottom, top, owner, next, taken>>
  BY DEF StealRead
<1>2. /\ OwnerInv' /\ BufferInv' /\ TakenInv' /\ Size' = Size /\ Gone' = Gone /\ At(0)' = At(0)
  BY <1>1, OnlyThieves
<1>3. thief[w] \in Registers /\ thief[w].t \in Int /\ thief \in [Thieves -> Registers]
  BY Sizes DEF IInv, CountersTyped, Registers
<1>4. Slot(thief[w].t) \in 0..(N - 1)
  BY <1>3, WrapType
<1>5. buffer[Slot(thief[w].t)] \in Jobs \cup {JobNull}
  BY <1>4 DEF IInv, CountersTyped
<1>6. PICK r : r = [pc |-> "cas", b |-> thief[w].b, t |-> thief[w].t, todo |-> thief[w].todo,
                    job |-> buffer[Slot(thief[w].t)]]
  OBVIOUS
<1>7. r \in Registers /\ thief' = [thief EXCEPT ![w] = r]
  <2>1. thief[w] = [pc |-> thief[w].pc, b |-> thief[w].b, t |-> thief[w].t,
                    todo |-> thief[w].todo, job |-> thief[w].job]
    BY <1>3 DEF Registers
  <2>2. thief' = [thief EXCEPT ![w] = r]
    <3>1. thief' \in [Thieves -> {thief'[u] : u \in Thieves}] /\ \A u \in Thieves \ {w} : thief'[u] = thief[u]
      BY <1>1, <1>3
    <3>2. thief'[w] = [thief[w] EXCEPT !.pc = "cas", !.job = buffer[Slot(thief[w].t)]]
      BY <1>1, <1>3
    <3>3. thief'[w] = r
      BY <1>6, <2>1, <3>2
    <3> QED
      BY <1>3, <3>1, <3>3
  <2>3. r \in Registers
    BY <1>3, <1>5, <1>6 DEF Registers
  <2> QED
    BY <2>2, <2>3
<1>8. r.pc = "cas" /\ r.t = thief[w].t /\ r.job = buffer[Slot(thief[w].t)]
  BY <1>6
<1>9. CountersTyped'
  BY <1>1, <1>3, <1>7 DEF IInv, CountersTyped
<1>10. \A u \in Thieves : thief'[u] = IF u = w THEN r ELSE thief[u]
  BY <1>3, <1>7
<1>11. thief[w].t = top => buffer[Slot(thief[w].t)] = At(0)
  <2>1. top + 0 = top
    BY Bounds
  <2> QED
    BY <2>1 DEF At
<1>12. /\ Wrap(r.t - Start) <= Gone /\ (r.t = top => Size >= 1)
       /\ buffer[Slot(r.t)] # JobNull
  BY <1>1, <1>8 DEF IInv, QueueInv, ThiefInv
<1>13. /\ Wrap(r.t - Start) <= Gone /\ (r.t = top => Size >= 1)
       /\ buffer[Slot(r.t)] # JobNull /\ r.job # JobNull
       /\ (r.t = top => r.job = At(0))
  BY <1>8, <1>11, <1>12
<1>14. ThiefInv'
  BY <1>1, <1>8, <1>10, <1>13, OneThief
<1> QED
  BY <1>2, <1>9, <1>14 DEF IInv, QueueInv

(* try_steal, compare_exchange on m_top.                                   *)
LEMMA StealCasKeeps ==
  ASSUME IInv, NEW w \in Thieves, StealCas(w)
  PROVE  IInv'
<1> USE DEF IInv
<1>1. /\ thief[w].pc = "cas" /\ thief' = [thief EXCEPT ![w] = Idle]
      /\ UNCHANGED <<buffer, bottom, owner, next>>
  BY DEF StealCas
<1>2. EffectiveBottom' = EffectiveBottom /\ Written' = Written
  BY <1>1 DEF EffectiveBottom, Written
<1>3. \A u \in Thieves : thief'[u] = IF u = w THEN Idle ELSE thief[u]
  BY <1>1 DEF CountersTyped
<1>4. thief' \in [Thieves -> Registers]
  BY <1>1, IdleTyped DEF CountersTyped
<1>5. CASE top = thief[w].t
  <2>1. top' = Wrap(top + 1) /\ Take(At(0)) /\ Size >= 1
    BY <1>1, <1>5 DEF StealCas, QueueInv, ThiefInv
  <2>2. /\ Size' = Size - 1 /\ Gone' = Gone + 1
        /\ top' \in 0..(Modulus - 1) /\ taken' \in [Jobs -> Nat]
        /\ BufferInv' /\ TakenInv'
        /\ \A t : Wrap(t - Start) <= Gone => t # top'
    BY <1>1, <1>2, <2>1, AdvanceTop
  <2>3. ThiefInv'
    BY <1>1, <1>3, <2>2, ThievesLate
  <2>4. OwnerInv'
    <3>1. owner.todo \in Int
      BY DequeAssumption DEF CountersTyped, Registers
    <3>2. owner.pc = "write" => Size' + Written' + owner.todo <= N
      BY <1>2, <2>2, <3>1, Bounds, Sizes DEF QueueInv, OwnerInv
    <3>3. owner.pc = "popCas" => Size' <= 1
      BY <2>2, Bounds DEF QueueInv, OwnerInv
    <3> QED
      BY <1>1, <1>2, <3>2, <3>3 DEF QueueInv, OwnerInv
  <2>5. CountersTyped'
    BY <1>1, <1>4, <2>2 DEF CountersTyped
  <2> QED
    BY <2>2, <2>3, <2>4, <2>5 DEF QueueInv
<1>6. CASE top # thief[w].t
  <2>1. UNCHANGED <<top, taken>>
    BY <1>6 DEF StealCas
  <2>2. /\ OwnerInv' /\ BufferInv' /\ TakenInv' /\ Size' = Size /\ Gone' = Gone /\ At(0)' = At(0)
    BY <1>1, <2>1, OnlyThieves
  <2>3. ThiefInv'
    BY <1>1, <1>3, <2>1, <2>2, IdleTyped DEF QueueInv, ThiefInv
  <2>4. CountersTyped'
    BY <1>1, <1>4, <2>1 DEF CountersTyped
  <2> QED
    BY <2>2, <2>3, <2>4 DEF QueueInv
<1> QED
  BY <1>5, <1>6

-----------------------------------------------------------------------------
(* The invariant holds                                                     *)

(* A queue that init() reset, wherever its counters start.                 *)
LEMMA InitInv == Init => IInv
<1> SUFFICES ASSUME Init PROVE IInv
  OBVIOUS
<1>1. /\ buffer = [i \in 0..(N - 1) |-> JobNull] /\ bottom = Start /\ top = Start
      /\ owner = Idle /\ thief = [w \in Thieves |-> Idle] /\ next = 1
      /\ taken = [j \in Jobs |-> 0]
  BY DEF Init
<1>2. CountersTyped
  BY <1>1, IdleTyped, DequeAssumption DEF CountersTyped
<1>3. Size = 0 /\ Gone = 0
  <2>1. EffectiveBottom = Start /\ Start - Start = 0 /\ Wrap(0) = 0
    BY <1>1, IdleTyped, WrapSmall, Sizes, DequeAssumption DEF EffectiveBottom
  <2> QED
    BY <1>1, <2>1 DEF Size, Gone
<1>4. OwnerInv
  BY <1>1, IdleTyped DEF OwnerInv
<1>5. BufferInv
  BY <1>1, <1>3, Sizes DEF BufferInv
<1>6. TakenInv
  BY <1>1, <1>3 DEF TakenInv
<1>7. ThiefInv
  BY <1>1, IdleTyped DEF ThiefInv
<1> QED
  BY <1>2, <1>4, <1>5, <1>6, <1>7 DEF IInv, QueueInv

(* Every step of the owner and of the thieves.                             *)
LEMMA NextKeeps == IInv /\ [Next]_vars => IInv'
<1> SUFFICES ASSUME IInv, [Next]_vars PROVE IInv'
  OBVIOUS
<1>1. CASE UNCHANGED vars
  <2>1. EffectiveBottom' = EffectiveBottom /\ UNCHANGED <<buffer, bottom, top, owner, thief, next, taken>>
    BY <1>1 DEF vars, EffectiveBottom
  <2>2. OwnerInv' /\ BufferInv' /\ TakenInv' /\ ThiefInv'
    BY <2>1, OnlyThieves, SameThieves
  <2> QED
    BY <2>1, <2>2 DEF IInv, CountersTyped, QueueInv
<1>2. ASSUME NEW n \in 1..MaxBatch, PushReadTop(n) PROVE IInv'
  BY <1>2, PushReadTopKeeps
<1>3. CASE PopReserve
  BY <1>3, PopReserveKeeps
<1>4. CASE OwnerFinish
  BY <1>4, PushWriteKeeps, PushPublishKeeps, PopReadTopKeeps, PopCasKeeps, PopRestoreKeeps
     DEF OwnerFinish
<1>5. ASSUME NEW w \in Thieves, Steal(w) PROVE IInv'
  BY <1>5, StealReadTopKeeps, StealReadBottomKeeps, StealReadKeeps, StealCasKeeps DEF Steal
<1> QED
  BY <1>1, <1>2, <1>3, <1>4, <1>5 DEF Next

(* The invariant of the queue.                                             *)
LEMMA Invariant == Spec => []IInv
  BY InitInv, NextKeeps, PTL DEF Spec

(* No slot is read before a job was written to it.                         *)
LEMMA NothingUnwrittenRead == IInv => NoNullRead
<1> SUFFICES ASSUME IInv PROVE NoNullRead
  OBVIOUS
<1>1. \A w \in Thieves : thief[w].pc = "cas" => thief[w].job # JobNull
  BY DEF IInv, QueueInv, ThiefInv
<1>2. owner.pc = "popCas" => owner.job # JobNull
  BY DEF IInv, QueueInv, OwnerInv
<1>3. ASSUME owner.pc = "popTop", Signed(top, owner.b) <= 0
      PROVE  buffer[Slot(owner.b)] # JobNull
  <2>1. Size \in 0..N
    BY Bounds
  <2>2. ~(Signed(top, owner.b) > 0)
    <3>1. Signed(top, owner.b) \in Int
      <4>1. top - owner.b \in Int
        BY Bounds
      <4>2. Wrap(top - owner.b) \in Int
        BY <4>1, WrapType
      <4> QED
        BY <4>2, Sizes DEF Signed
    <3> QED
      BY <1>3, <3>1
  <2>3. Size >= 1
    <3>1. Size # 0
      BY <1>3, <2>1, <2>2, PopTopCases DEF IInv
    <3> QED
      BY <2>1, <3>1, Sizes
  <2>4. Slot(owner.b) = Slot(top + (Size - 1))
    BY <1>3, <2>3, ReservedSlot
  <2>5. At(Size - 1) \in 1..MaxPush
    <3>1. Size - 1 \in 0..(Size - 1)
      BY <2>1, <2>3, Sizes
    <3> QED
      BY <3>1, Bounds DEF IInv, QueueInv, BufferInv
  <2> QED
    BY <2>4, <2>5, DequeAssumption DEF At
<1> QED
  BY <1>1, <1>2, <1>3 DEF NoNullRead

(* What is queued, seen as the sequence of module WorkDeque.               *)
LEMMA QueuedIsSeq ==
  ASSUME IInv
  PROVE  /\ Queued \in Seq(Jobs) /\ Len(Queued) = Size
         /\ DOMAIN Queued = 1..Size
         /\ \A i \in 1..Size : Queued[i] = At(i - 1)
<1>1. Size \in Nat /\ top \in Int /\ MaxPush \in Nat /\ next \in 1..(MaxPush + 1)
  BY Bounds
<1>2. Queued = [i \in 1..Size |-> buffer[Slot(top + i - 1)]]
  BY DEF Queued, Size
<1>3. DOMAIN Queued = 1..Size
  BY <1>2
<1>4. ASSUME NEW i \in 1..Size PROVE Queued[i] = At(i - 1) /\ Queued[i] \in Jobs
  <2>1. top + i - 1 = top + (i - 1) /\ i - 1 \in 0..(Size - 1)
    BY <1>1
  <2>2. Queued[i] = At(i - 1)
    BY <1>2, <2>1 DEF At
  <2>3. At(i - 1) \in 1..(next - 1)
    BY <2>1 DEF IInv, QueueInv, BufferInv
  <2> QED
    BY <1>1, <2>2, <2>3 DEF Jobs
<1>5. Queued \in [1..Size -> Jobs]
  BY <1>2, <1>4
<1>6. Queued \in Seq(Jobs)
  BY <1>1, <1>5, SeqDef
<1>7. Len(Queued) = Size
  BY <1>1, <1>3, <1>6, LenProperties
<1> QED
  BY <1>3, <1>4, <1>6, <1>7

(* Every pushed job is queued once, or was handed out once.                *)
LEMMA QueuedOrTaken == IInv => ExactlyOnce
<1> SUFFICES ASSUME IInv, NEW j \in 1..(next - 1)
             PROVE  taken[j] + Cardinality({i \in DOMAIN Queued : Queued[i] = j}) = 1
  BY DEF ExactlyOnce
<1> DEFINE places == {i \in DOMAIN Queued : Queued[i] = j}
<1>1. /\ DOMAIN Queued = 1..Size /\ \A i \in 1..Size : Queued[i] = At(i - 1)
  BY QueuedIsSeq
<1>2. Size \in Nat /\ j \in Jobs
  BY Bounds DEF Jobs
<1>3. /\ taken[j] \in {0, 1}
      /\ taken[j] = 0 <=> \E i \in 0..(Size - 1) : At(i) = j
  BY <1>2 DEF IInv, QueueInv, TakenInv
<1>4. CASE taken[j] = 0
  <2>1. PICK i \in 0..(Size - 1) : At(i) = j
    BY <1>3, <1>4
  <2>2. ASSUME NEW k \in 1..Size, Queued[k] = j PROVE k = i + 1
    <3>1. k - 1 \in 0..(Size - 1) /\ At(k - 1) = j
      BY <1>1, <1>2, <2>2
    <3>2. ~(k - 1 < i) /\ ~(i < k - 1)
      BY <2>1, <3>1 DEF IInv, QueueInv, BufferInv
    <3> QED
      BY <1>2, <3>2
  <2>3. i + 1 \in 1..Size /\ Queued[i + 1] = j
    <3>1. i + 1 \in 1..Size /\ (i + 1) - 1 = i
      BY <1>2
    <3> QED
      BY <1>1, <2>1, <3>1
  <2>4. places = {i + 1}
    BY <1>1, <2>2, <2>3
  <2>5. Cardinality({i + 1}) = 1
    BY FS_Singleton
  <2> QED
    BY <1>4, <2>4, <2>5
<1>5. CASE taken[j] = 1
  <2>1. ASSUME NEW k \in 1..Size PROVE Queued[k] # j
    <3>1. k - 1 \in 0..(Size - 1)
      BY <1>2
    <3> QED
      BY <1>1, <1>3, <1>5, <3>1
  <2>2. places = {}
    BY <1>1, <2>1
  <2> QED
    BY <1>5, <2>2, FS_EmptySet
<1> QED
  BY <1>3, <1>4, <1>5

(* The registers and counters keep their types, wrapped or not, and no     *)
(* operation reads a slot that was never written.                          *)
THEOREM TypeCorrect == Spec => []TypeOK
<1>1. IInv => TypeOK
  BY NothingUnwrittenRead DEF IInv, TypeOK
<1> QED
  BY <1>1, Invariant, PTL

(* try_push, try_pop and try_steal neither lose a job nor hand one out     *)
(* twice, however many thieves race for it.                                *)
THEOREM JobsHandedOutOnce == Spec => []ExactlyOnce
  BY QueuedOrTaken, Invariant, PTL

-----------------------------------------------------------------------------
(* The queue implements the atomic deque                                   *)

(* The sequence of module WorkDeque, in the terms used here.               *)
QueuedView ==
  /\ Queued \in Seq(Jobs) /\ Len(Queued) = Size
  /\ \A i \in 1..Size : Queued[i] = At(i - 1)

(* It can be read off in every reachable state.                            *)
LEMMA QueuedViewAlways == IInv => QueuedView
  BY QueuedIsSeq DEF QueuedView

(* Loads, reservations and lost races are invisible.                       *)
LEMMA Invisible ==
  ASSUME EffectiveBottom' = EffectiveBottom, UNCHANGED <<buffer, top, next, taken>>
  PROVE  UNCHANGED Abstract!avars
<1>1. Queued' = Queued
  BY DEF Queued
<1> QED
  BY <1>1 DEF Abstract!avars

(* Publishing m_bottom appends the batch.                                  *)
LEMMA PublishIsPush ==
  ASSUME IInv, QueuedView, QueuedView', PushPublish
  PROVE  Abstract!Push
<1>1. /\ UNCHANGED taken
      /\ Written \in 1..N /\ Size + Written <= N /\ next' = next + Written
      /\ next' \in 1..(MaxPush + 1)
      /\ Size' = Size + Written /\ \A i : At(i)' = At(i)
      /\ \A i \in 0..(Written - 1) : At(Size + i) = next + i
  BY PublishAppends
<1>2. Size \in Nat /\ next \in Int /\ MaxPush \in Nat /\ next >= 1
  BY Bounds
<1>3. /\ Queued \in Seq(Jobs) /\ Len(Queued) = Size /\ Queued' \in Seq(Jobs)
      /\ Len(Queued') = Size'
      /\ \A i \in 1..Size : Queued[i] = At(i - 1)
      /\ \A i \in 1..Size' : Queued'[i] = At(i - 1)'
  BY DEF QueuedView, Jobs
<1>4. PICK n \in Nat : n = Written /\ n \in 1..(N - Size)
  BY <1>1, <1>2, Sizes
<1> DEFINE batch == [i \in 1..n |-> next + i - 1]
<1>5. batch \in Seq(Jobs) /\ Len(batch) = n /\ \A i \in 1..n : batch[i] = next + i - 1
  <2>1. batch \in [1..n -> Jobs]
    BY <1>1, <1>2, <1>4 DEF Jobs
  <2>2. batch \in Seq(Jobs)
    BY <2>1, SeqDef
  <2>3. DOMAIN batch = 1..n
    OBVIOUS
  <2>4. Len(batch) \in Nat /\ DOMAIN batch = 1..Len(batch)
    BY <2>2, LenProperties, Zenon
  <2> HIDE DEF batch
  <2>5. Len(batch) = n
    BY <2>3, <2>4
  <2> QED
    BY <2>2, <2>5 DEF batch
<1> HIDE DEF batch
<1>6. /\ Queued \o batch \in Seq(Jobs) /\ Len(Queued \o batch) = Size + n
      /\ \A i \in 1..(Size + n) : (Queued \o batch)[i] =
           IF i <= Size THEN Queued[i] ELSE batch[i - Size]
  BY <1>3, <1>5, ConcatProperties
<1>7. ASSUME NEW i \in 1..(Size + n) PROVE Queued'[i] = (Queued \o batch)[i]
  <2>1. Queued'[i] = At(i - 1)
    BY <1>1, <1>3, <1>4
  <2>2. CASE i <= Size
    <3>1. i \in 1..Size
      BY <2>2
    <3> QED
      BY <1>3, <1>6, <2>1, <2>2, <3>1
  <2>3. CASE ~(i <= Size)
    <3>1. i - Size \in 1..n /\ (i - Size) - 1 \in 0..(Written - 1) /\ ~(i <= Size)
          /\ Size + ((i - Size) - 1) = i - 1 /\ next + ((i - Size) - 1) = next + (i - Size) - 1
      BY <1>2, <1>4, <2>3
    <3>2. At(i - 1) = next + ((i - Size) - 1)
      BY <1>1, <3>1
    <3>3. batch[i - Size] = next + (i - Size) - 1
      BY <1>5, <3>1
    <3> QED
      BY <1>6, <2>1, <3>1, <3>2, <3>3
  <2> QED
    BY <1>2, <2>2, <2>3
<1>8. Queued' = Queued \o batch
  <2>1. Len(Queued') = Len(Queued \o batch) /\ \A i \in 1..Len(Queued') : Queued'[i] = (Queued \o batch)[i]
    BY <1>1, <1>3, <1>4, <1>6, <1>7
  <2> QED
    BY <1>3, <1>6, <2>1, SeqEqual
<1>9. next + n - 1 <= MaxPush /\ next' = next + n
  BY <1>1, <1>2, <1>4
<1>10. n \in 1..(N - Len(Queued))
  BY <1>3, <1>4
<1> QED
  BY <1>1, <1>8, <1>9, <1>10 DEF Abstract!Push, batch

(* A successful compare_exchange on m_top takes the oldest job.            *)
LEMMA AdvanceIsTakeFront ==
  ASSUME IInv, QueuedView, QueuedView', Size >= 1, Size' = Size - 1,
         \A i \in Int : At(i)' = At(i + 1), Take(At(0)), UNCHANGED next
  PROVE  Abstract!TakeFront
<1>1. /\ Queued \in Seq(Jobs) /\ Len(Queued) = Size /\ Queued' \in Seq(Jobs)
      /\ Len(Queued') = Size - 1 /\ Size \in Nat \ {0}
      /\ \A i \in 1..Size : Queued[i] = At(i - 1)
      /\ \A i \in 1..(Size - 1) : Queued'[i] = At(i - 1)'
  BY Bounds DEF QueuedView, Jobs
<1>2. Queued # <<>>
  BY <1>1, EmptySeq
<1>3. Head(Queued) = At(0)
  BY <1>1, <1>2
<1>4. /\ Tail(Queued) \in Seq(Jobs) /\ Len(Tail(Queued)) = Size - 1
      /\ \A i \in 1..(Size - 1) : Tail(Queued)[i] = Queued[i + 1]
  BY <1>1, <1>2, HeadTailProperties
<1>5. ASSUME NEW i \in 1..(Size - 1) PROVE Queued'[i] = Tail(Queued)[i]
  <2>1. i - 1 \in Int /\ (i - 1) + 1 = i /\ i + 1 \in 1..Size /\ (i + 1) - 1 = i
    BY <1>1
  <2>2. Queued'[i] = At((i - 1) + 1)
    BY <1>1, <2>1
  <2>3. Tail(Queued)[i] = Queued[i + 1] /\ Queued[i + 1] = At((i + 1) - 1)
    BY <1>1, <1>4, <2>1
  <2> QED
    BY <2>1, <2>2, <2>3
<1>6. Queued' = Tail(Queued)
  BY <1>1, <1>4, <1>5, SeqEqual
<1> QED
  BY <1>2, <1>3, <1>6 DEF Abstract!TakeFront, Take

(* The owner's pop without a race takes the newest job.                    *)
LEMMA PopIsTakeBack ==
  ASSUME IInv, QueuedView, QueuedView', Size >= 1, Size' = Size - 1,
         \A i : At(i)' = At(i), Take(At(Size - 1)), UNCHANGED next
  PROVE  Abstract!TakeBack
<1>1. /\ Queued \in Seq(Jobs) /\ Len(Queued) = Size /\ Queued' \in Seq(Jobs)
      /\ Len(Queued') = Size - 1 /\ Size \in Nat \ {0}
      /\ \A i \in 1..Size : Queued[i] = At(i - 1)
      /\ \A i \in 1..(Size - 1) : Queued'[i] = At(i - 1)
  <2>1. /\ Queued \in Seq(Jobs) /\ Len(Queued) = Size /\ Queued' \in Seq(Jobs)
        /\ Len(Queued') = Size - 1
        /\ \A i \in 1..Size : Queued[i] = At(i - 1)
        /\ \A i \in 1..(Size - 1) : Queued'[i] = At(i - 1)'
    BY DEF QueuedView, Jobs
  <2>2. Size \in Nat \ {0}
    BY Bounds
  <2> QED
    BY <2>1, <2>2
<1>2. Queued # <<>>
  BY <1>1, EmptySeq
<1>3. Queued[Len(Queued)] = At(Size - 1)
  BY <1>1
<1>4. /\ SubSeq(Queued, 1, Size - 1) \in Seq(Jobs)
      /\ Len(SubSeq(Queued, 1, Size - 1)) = Size - 1
      /\ \A i \in 1..(Size - 1) : SubSeq(Queued, 1, Size - 1)[i] = Queued[i]
  <2>1. PICK m \in Int, n \in Int : m = 1 /\ n = Size - 1 /\ \A i \in m..n : i \in 1..Len(Queued)
    BY <1>1
  <2>2. \A i \in m..n : Queued[i] \in Jobs
    BY <1>1, <2>1, ElementOfSeq
  <2>3. /\ SubSeq(Queued, m, n) \in Seq(Jobs)
        /\ Len(SubSeq(Queued, m, n)) = IF m <= n THEN n - m + 1 ELSE 0
        /\ \A i \in 1..(n - m + 1) : SubSeq(Queued, m, n)[i] = Queued[m + i - 1]
    BY <2>2, SubSeqProperties
  <2>4. (IF m <= n THEN n - m + 1 ELSE 0) = Size - 1 /\ n - m + 1 = Size - 1
        /\ \A i \in 1..(Size - 1) : m + i - 1 = i
    BY <1>1, <2>1
  <2> QED
    BY <2>1, <2>3, <2>4
<1>5. \A i \in 1..(Size - 1) : Queued'[i] = SubSeq(Queued, 1, Size - 1)[i]
  BY <1>1, <1>4
<1>6. Queued' = SubSeq(Queued, 1, Size - 1)
  BY <1>1, <1>4, <1>5, SeqEqual
<1> QED
  BY <1>1, <1>2, <1>3, <1>6 DEF Abstract!TakeBack, Take

(* Every step of the queue is a step of the deque, or invisible.           *)
LEMMA StepSimulates ==
  IInv /\ QueuedView /\ QueuedView' /\ [Next]_vars => [Abstract!ANext]_(Abstract!avars)
<1> SUFFICES ASSUME IInv, QueuedView, QueuedView', [Next]_vars
             PROVE  Abstract!ANext \/ UNCHANGED Abstract!avars
  OBVIOUS
<1>1. CASE UNCHANGED vars
  BY <1>1, Invisible DEF vars, EffectiveBottom
<1>2. ASSUME NEW n \in 1..MaxBatch, PushReadTop(n) PROVE UNCHANGED Abstract!avars
  <2>1. /\ owner.pc = "idle" /\ UNCHANGED <<buffer, bottom, top, next, taken>>
        /\ \E fit : owner' = owner \/ owner' = [Idle EXCEPT !.pc = "write", !.b = bottom, !.todo = fit]
    BY <1>2, Zenon DEF PushReadTop
  <2>2. owner'.pc \in {"idle", "write"}
    BY <2>1 DEF Idle
  <2>3. EffectiveBottom' = EffectiveBottom
    BY <2>1, <2>2 DEF EffectiveBottom
  <2> QED
    BY <2>1, <2>3, Invisible
<1>3. CASE PopReserve
  <2>1. EffectiveBottom' = EffectiveBottom
    BY <1>3, ReserveStutters
  <2> QED
    BY <1>3, <2>1, Invisible DEF PopReserve
<1>4. CASE PushWrite
  <2>1. /\ IInv' /\ owner.pc = "write" /\ owner'.pc = "write"
        /\ UNCHANGED <<bottom, top, thief, next, taken>>
    BY <1>4, PushWriteKeeps DEF PushWrite, IInv, CountersTyped, Registers
  <2>2. EffectiveBottom' = EffectiveBottom
    BY <2>1 DEF EffectiveBottom
  <2>3. Size' = Size /\ \A i \in 0..(Size - 1) : At(i)' = At(i)
    BY <1>4, WriteElsewhere
  <2>4. /\ Queued \in Seq(Jobs) /\ Len(Queued) = Size /\ Queued' \in Seq(Jobs)
        /\ Len(Queued') = Size /\ Size \in Nat
        /\ \A i \in 1..Size : Queued[i] = At(i - 1)
        /\ \A i \in 1..Size : Queued'[i] = At(i - 1)'
    BY <2>3, Bounds DEF QueuedView, Jobs
  <2>5. \A i \in 1..Size : Queued'[i] = Queued[i]
    BY <2>3, <2>4
  <2>6. Queued' = Queued
    BY <2>4, <2>5, SeqEqual
  <2> QED
    BY <2>1, <2>6 DEF Abstract!avars
<1>5. CASE PushPublish
  BY <1>5, PublishIsPush DEF Abstract!ANext
<1>6. CASE PopReadTop
  <2>1. owner.pc = "popTop" /\ UNCHANGED <<buffer, bottom, top, thief, next>>
    BY <1>6 DEF PopReadTop
  <2>2. CASE Signed(top, owner.b) < 0 /\ Take(buffer[Slot(owner.b)]) /\ owner' = Idle
    <3>1. Size > 1
      BY <2>1, <2>2, Bounds, PopTopCases DEF IInv
    <3>2. /\ buffer[Slot(owner.b)] = At(Size - 1) /\ Size' = Size - 1
          /\ \A i : At(i)' = At(i)
      BY <2>1, <2>2, <3>1, TakeNewest
    <3>3. Size >= 1 /\ Take(At(Size - 1))
      BY <2>2, <3>1, <3>2, Bounds
    <3> QED
      BY <2>1, <3>2, <3>3, PopIsTakeBack DEF Abstract!ANext
  <2>3. CASE /\ UNCHANGED taken
             /\ \/ owner' = [owner EXCEPT !.pc = "restore"]
                \/ owner' = [owner EXCEPT !.pc = "popCas", !.t = top, !.job = buffer[Slot(owner.b)]]
    <3>1. owner'.pc \in {"popCas", "restore"} /\ owner'.b = owner.b
      BY <2>3 DEF IInv, CountersTyped, Registers
    <3>2. EffectiveBottom' = EffectiveBottom
      BY <2>1, <3>1 DEF EffectiveBottom
    <3> QED
      BY <2>1, <2>3, <3>2, Invisible
  <2> QED
    BY <1>6, <2>2, <2>3 DEF PopReadTop
<1>7. CASE PopCas
  <2>1. /\ owner.pc = "popCas" /\ owner' = [owner EXCEPT !.pc = "restore"]
        /\ UNCHANGED <<buffer, bottom, thief, next>>
    BY <1>7 DEF PopCas
  <2>2. owner'.pc = "restore" /\ owner'.b = owner.b
    BY <2>1 DEF IInv, CountersTyped, Registers
  <2>3. EffectiveBottom' = EffectiveBottom
    BY <2>1, <2>2 DEF EffectiveBottom
  <2>4. CASE top = owner.t
    <3>1. Size = 1 /\ top' = Wrap(top + 1) /\ Take(At(0))
      BY <1>7, <2>1, <2>4, PopWins DEF PopCas
    <3>2. Size >= 1
      BY <3>1
    <3>3. Size' = Size - 1 /\ \A i \in Int : At(i)' = At(i + 1)
      BY <2>1, <2>3, <3>1, <3>2, AdvanceTop
    <3> QED
      BY <2>1, <3>1, <3>2, <3>3, AdvanceIsTakeFront DEF Abstract!ANext
  <2>5. CASE top # owner.t
    BY <1>7, <2>1, <2>3, <2>5, Invisible DEF PopCas
  <2> QED
    BY <2>4, <2>5
<1>8. CASE PopRestore
  BY <1>8, PopRestoreKeeps, Invisible DEF PopRestore
<1>9. ASSUME NEW w \in Thieves, Steal(w) PROVE Abstract!ANext \/ UNCHANGED Abstract!avars
  <2>1. CASE StealReadTop(w) \/ StealReadBottom(w) \/ StealRead(w)
    <3>1. UNCHANGED <<buffer, bottom, top, owner, next, taken>>
      BY <2>1 DEF StealReadTop, StealReadBottom, StealRead
    <3> QED
      BY <3>1, Invisible DEF EffectiveBottom
  <2>2. CASE StealCas(w)
    <3>1. /\ thief[w].pc = "cas" /\ UNCHANGED <<buffer, bottom, owner, next>>
          /\ EffectiveBottom' = EffectiveBottom
      BY <2>2 DEF StealCas, EffectiveBottom
    <3>2. CASE top = thief[w].t
      <4>1. top' = Wrap(top + 1) /\ Take(At(0)) /\ Size >= 1
        BY <2>2, <3>1, <3>2 DEF StealCas, IInv, QueueInv, ThiefInv
      <4>2. Size' = Size - 1 /\ \A i \in Int : At(i)' = At(i + 1)
        BY <3>1, <4>1, AdvanceTop
      <4> QED
        BY <3>1, <4>1, <4>2, AdvanceIsTakeFront DEF Abstract!ANext
    <3>3. CASE top # thief[w].t
      BY <2>2, <3>1, <3>3, Invisible DEF StealCas
    <3> QED
      BY <3>2, <3>3
  <2> QED
    BY <1>9, <2>1, <2>2 DEF Steal
<1> QED
  BY <1>1, <1>2, <1>3, <1>4, <1>5, <1>6, <1>7, <1>8, <1>9 DEF Next, OwnerFinish

(* An empty queue is an empty deque.                                       *)
LEMMA InitSimulates == Init => Abstract!AInit
<1> SUFFICES ASSUME Init PROVE Abstract!AInit
  OBVIOUS
<1>1. IInv /\ Size = 0
  <2>1. IInv
    BY InitInv
  <2>2. EffectiveBottom = Start /\ top = Start /\ Start - Start = 0 /\ Wrap(0) = 0
    BY IdleTyped, WrapSmall, Sizes, DequeAssumption DEF Init, EffectiveBottom
  <2> QED
    BY <2>1, <2>2 DEF Size
<1>2. Queued \in Seq(Jobs) /\ Len(Queued) = 0
  BY <1>1, QueuedIsSeq
<1>3. Queued = <<>>
  BY <1>2, EmptySeq
<1> QED
  BY <1>3 DEF Abstract!AInit, Init, Jobs

(* Whatever a pop, its races with steals and the pushes of batches do to   *)
(* the counters and the ring, the pool sees an atomic deque.               *)
THEOREM QueueImplementsDeque == Spec => ImplementsDeque
<1>1. Spec => [](IInv /\ QueuedView)
  BY QueuedViewAlways, Invariant, PTL
<1> QED
  BY <1>1, InitSimulates, StepSimulates, PTL DEF Spec, ImplementsDeque, Abstract!ASpec
=============================================================================
