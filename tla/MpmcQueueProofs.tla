-------------------------- MODULE MpmcQueueProofs ---------------------------
(***************************************************************************)
(* Proofs about module MpmcQueue, for any number of cells, producers and   *)
(* consumers and any width of the counters.                                *)
(*                                                                         *)
(* The wrapped positions are unfolded into tickets, counted from where the *)
(* queue started: ticket n has position Pos(n) and cell CellOf(n).         *)
(***************************************************************************)
EXTENDS MpmcQueue, FiniteSetTheorems, SequenceTheorems, TLAPS

(* The ticket of a position, and back.                                     *)
Off(x) == Wrap(x - Start)
Pos(n) == Wrap(Start + n)
CellOf(n) == Cell(Start + n)

(* Tickets drawn by producers and by consumers, and the one a thread holds.*)
P == Off(pushPos)
C == Off(popPos)
Ticket(t) == Off(th[t].pos)

(* The sequence number and the item of a ticket's cell.                    *)
Seqn(n) == sequence[CellOf(n)]
ItemOf(n) == item[CellOf(n)]

(* A producer that has an item and no ticket; producers and consumers that *)
(* own a cell.                                                             *)
Holds(p) == th[p].pc \in {"seq", "pos", "cas"}
Fills(p) == th[p].pc \in {"fill", "publish"}
Takes(c) == th[c].pc \in {"take", "release"}

(* The items that drew a ticket.                                           *)
Pushed == {x \in pushing : \A p \in Producers : Holds(p) => th[p].item # x}

-----------------------------------------------------------------------------
(* The inductive invariant                                                 *)

(* Producers push and consumers pop; what they hold is of the past.        *)
RoleInv ==
  /\ \A p \in Producers : /\ th[p].pc \in {"idle", "seq", "pos", "cas", "fill", "publish"}
                          /\ Holds(p) => Ticket(p) <= P
  /\ \A c \in Consumers : /\ th[c].pc \in {"idle", "seq", "pos", "cas", "take", "release"}
                          /\ Holds(c) => Ticket(c) <= C

(* Every ticket stands for another item.                                   *)
ItemInv ==
  /\ P = Cardinality(Pushed)
  /\ \A p \in Producers : Holds(p) => th[p].item \in pushing
  /\ \A p \in Producers : Fills(p) => th[p].item \in Items
  /\ \A p, q \in Producers : Holds(p) /\ Holds(q) /\ th[p].item = th[q].item => p = q

(* The cells of the tickets C..P-1 are filled or being filled.             *)
FillInv ==
  /\ \A p \in Producers : Fills(p) =>
       /\ Ticket(p) \in C..(P - 1)
       /\ Seqn(Ticket(p)) = Pos(Ticket(p))
       /\ th[p].pc = "publish" => ItemOf(Ticket(p)) = th[p].item
  /\ \A p, q \in Producers : Fills(p) /\ Fills(q) /\ Ticket(p) = Ticket(q) => p = q
  /\ \A n \in C..(P - 1) :
       \/ \E p \in Producers : Fills(p) /\ Ticket(p) = n
       \/ Seqn(n) = Pos(n + 1) /\ ItemOf(n) \in Items

(* Those of the next tickets, up to a full turn, are free or being emptied *)
(* of the item of a turn ago.                                              *)
TakeInv ==
  /\ \A c \in Consumers : Takes(c) =>
       /\ Ticket(c) + N \in P..(C + N - 1)
       /\ Seqn(Ticket(c) + N) = Pos(Ticket(c) + 1)
       /\ th[c].pc = "take" => ItemOf(Ticket(c) + N) \in Items
  /\ \A c, d \in Consumers : Takes(c) /\ Takes(d) /\ Ticket(c) = Ticket(d) => c = d
  /\ \A n \in P..(C + N - 1) :
       \/ \E c \in Consumers : Takes(c) /\ Ticket(c) + N = n
       \/ Seqn(n) = Pos(n)

(* A thread that saw its turn still sees it if nobody drew the ticket.     *)
TurnInv ==
  /\ \A p \in Producers : th[p].pc = "cas" /\ Ticket(p) = P => Seqn(P) = Pos(P)
  /\ \A c \in Consumers : th[c].pc = "cas" /\ Ticket(c) = C => Seqn(C) = Pos(C + 1)

(* The ring.                                                               *)
RingInv == C <= P /\ P <= C + N /\ FillInv /\ TakeInv

(* All of it.                                                              *)
IInv == TypeOK /\ RoleInv /\ ItemInv /\ RingInv /\ TurnInv

-----------------------------------------------------------------------------
(* Counters that wrap, as positions and sequence numbers do (uint32_t)     *)

(* A multiple of m that is not zero is at least m away from it.            *)
LEMMA MulGrows ==
  ASSUME NEW d \in Int, NEW m \in Nat \ {0}, d # 0
  PROVE  m * d \in Int /\ (m * d >= m \/ m * d <= -m)
  OBVIOUS

(* Quotient and remainder.                                                 *)
LEMMA DivMod ==
  ASSUME NEW a \in Int, NEW m \in Nat \ {0}
  PROVE  /\ a \div m \in Int /\ a % m \in 0..(m - 1)
         /\ m * (a \div m) \in Int
         /\ a = m * (a \div m) + (a % m)
  OBVIOUS

(* Every number has a quotient and a remainder.                            *)
LEMMA Divide ==
  ASSUME NEW a \in Int, NEW m \in Nat \ {0}
  PROVE  \E q \in Int, r \in 0..(m - 1) : a % m = r /\ m * q \in Int /\ a = m * q + r
<1>1. /\ a \div m \in Int /\ a % m \in 0..(m - 1) /\ m * (a \div m) \in Int
      /\ a = m * (a \div m) + (a % m)
  BY DivMod
<1> QED
  BY <1>1, Zenon

(* Two numbers less than m apart that leave the same remainder are equal.  *)
LEMMA ModClose ==
  ASSUME NEW a \in Int, NEW b \in Int, NEW m \in Nat \ {0},
         a % m = b % m, a - b < m, b - a < m
  PROVE  a = b
<1>1. PICK q \in Int : q = a \div m
  BY DivMod
<1>2. PICK r \in Int : r = b \div m
  BY DivMod
<1>3. a = m * q + (a % m) /\ b = m * r + (b % m)
  BY <1>1, <1>2, DivMod
<1>4. PICK d \in Int : d = q - r
  OBVIOUS
<1>5. m * d = m * q - m * r
  BY <1>4
<1>6. m * q \in Int /\ m * r \in Int /\ a % m \in Int
  BY DivMod
<1>7. m * d = a - b
  BY <1>3, <1>5, <1>6
<1>8. d = 0
  BY <1>7, MulGrows
<1> QED
  BY <1>7, <1>8

(* The remainder is the only number below m that differs by a multiple.    *)
LEMMA ModUnique ==
  ASSUME NEW a \in Int, NEW m \in Nat \ {0}, NEW q \in Int,
         NEW r \in 0..(m - 1), a = m * q + r
  PROVE  a % m = r
<1>1. PICK p \in Int, b \in 0..(m - 1) : a % m = b /\ m * p \in Int /\ a = m * p + b
  BY Divide
<1>2. PICK d \in Int : d = q - p
  OBVIOUS
<1>3. m * d = m * q - m * p
  BY <1>2
<1>4. m * d = b - r
  BY <1>1, <1>3
<1>5. d = 0
  BY <1>4, MulGrows
<1> QED
  BY <1>1, <1>4, <1>5

(* A number below the modulus is its own remainder.                        *)
LEMMA ModSmall ==
  ASSUME NEW m \in Nat \ {0}, NEW a \in 0..(m - 1)
  PROVE  a % m = a
  BY ModUnique, a = m * 0 + a

(* Adding to a remainder, or to the number, is the same.                   *)
LEMMA ModAdd ==
  ASSUME NEW a \in Int, NEW k \in Int, NEW m \in Nat \ {0}
  PROVE  ((a % m) + k) % m = (a + k) % m
<1>1. PICK q \in Int, b \in 0..(m - 1) : a % m = b /\ m * q \in Int /\ a = m * q + b
  BY Divide
<1>2. b + k \in Int /\ a + k \in Int
  OBVIOUS
<1>3. PICK p \in Int, r \in 0..(m - 1) :
        (b + k) % m = r /\ m * p \in Int /\ b + k = m * p + r
  BY <1>2, Divide, Zenon
<1>4. PICK s \in Int : s = q + p
  OBVIOUS
<1>5. m * s = m * q + m * p
  BY <1>4
<1>6. a + k = m * s + r
  BY <1>1, <1>3, <1>5
<1>7. (a + k) % m = r
  BY <1>2, <1>6, ModUnique, Zenon
<1> QED
  BY <1>1, <1>3, <1>7, Zenon

(* A remainder moves along with its number while it stays below m.         *)
LEMMA ModShift ==
  ASSUME NEW a \in Int, NEW k \in Int, NEW m \in Nat \ {0},
         (a % m) + k \in 0..(m - 1)
  PROVE  (a + k) % m = (a % m) + k
<1>1. ((a % m) + k) % m = (a % m) + k
  BY ModSmall, Zenon
<1> QED
  BY <1>1, ModAdd, Zenon

(* ring divides the modulus.                                               *)
LEMMA ModOfMod ==
  ASSUME NEW a \in Int, NEW m \in Nat \ {0}, NEW n \in Nat \ {0}, m % n = 0
  PROVE  (a % m) % n = a % n
<1>1. PICK k \in Int : m = n * k
  <2>1. m \in Int /\ m \div n \in Int /\ m = n * (m \div n) + (m % n)
    BY DivMod
  <2> QED
    BY <2>1
<1>2. PICK q \in Int, b \in 0..(m - 1) : a % m = b /\ m * q \in Int /\ a = m * q + b
  <2>1. /\ a \div m \in Int /\ a % m \in 0..(m - 1) /\ m * (a \div m) \in Int
        /\ a = m * (a \div m) + (a % m)
    BY DivMod
  <2> QED
    BY <2>1, Zenon
<1>3. PICK p \in Int, r \in 0..(n - 1) : b % n = r /\ n * p \in Int /\ b = n * p + r
  BY Divide, b \in Int, Zenon
<1>4. PICK s \in Int : s = k * q + p
  OBVIOUS
<1>5. n * s = n * (k * q) + n * p
  BY <1>4
<1>6. n * (k * q) = m * q
  BY <1>1
<1>7. a = n * s + r
  BY <1>2, <1>3, <1>5, <1>6
<1>8. a % n = r
  BY <1>7, ModUnique, Zenon
<1> QED
  BY <1>2, <1>3, <1>8, Zenon

-----------------------------------------------------------------------------
(* Positions, tickets and cells                                            *)

(* The sizes.                                                              *)
LEMMA Sizes ==
  /\ N \in Nat \ {0} /\ Modulus \in Nat \ {0} /\ Modulus % N = 0
  /\ Modulus > 2 * N /\ N > 1 /\ Start \in 0..(Modulus - 1) /\ Start \in Int
  BY MpmcAssumption

(* Types.                                                                  *)
LEMMA WrapType ==
  ASSUME NEW a \in Int
  PROVE  Wrap(a) \in 0..(Modulus - 1) /\ Wrap(a) \in Int /\ Cell(a) \in 0..(N - 1)
<1>1. a % Modulus \in 0..(Modulus - 1) /\ a % N \in 0..(N - 1)
  BY Sizes, DivMod, Zenon
<1>2. \A x \in 0..(Modulus - 1) : x \in Int
  BY Sizes
<1> QED
  BY <1>1, <1>2, Zenon DEF Wrap, Cell

(* A position has a ticket, and is the position of it.                     *)
LEMMA PosOff ==
  ASSUME NEW x \in 0..(Modulus - 1)
  PROVE  Off(x) \in 0..(Modulus - 1) /\ Off(x) \in Int /\ Pos(Off(x)) = x
<1>1. x - Start \in Int /\ x \in Int
  BY Sizes
<1>2. Off(x) \in 0..(Modulus - 1) /\ Off(x) \in Int
  BY <1>1, WrapType DEF Off
<1>3. Wrap(Wrap(x - Start) + Start) = Wrap((x - Start) + Start)
  BY <1>1, Sizes, ModAdd, Zenon DEF Wrap
<1>4. (x - Start) + Start = x /\ Wrap(x - Start) + Start = Start + Wrap(x - Start)
  <2>1. Wrap(x - Start) \in Int
    BY <1>1, WrapType
  <2> QED
    BY <1>1, <2>1, Sizes
<1>5. Wrap(x) = x
  BY Sizes, ModSmall, Zenon DEF Wrap
<1> QED
  BY <1>2, <1>3, <1>4, <1>5 DEF Off, Pos

(* Moving a position moves its ticket.                                     *)
LEMMA PosNext ==
  ASSUME NEW x \in 0..(Modulus - 1), NEW k \in Int
  PROVE  Wrap(x + k) = Pos(Off(x) + k)
<1>1. Off(x) \in Int /\ Start + Off(x) \in Int /\ x \in Int
  BY PosOff, Sizes
<1>2. Wrap(Wrap(Start + Off(x)) + k) = Wrap((Start + Off(x)) + k)
  BY <1>1, Sizes, ModAdd, Zenon DEF Wrap
<1>3. x = Wrap(Start + Off(x))
  BY PosOff, Zenon DEF Pos
<1>4. (Start + Off(x)) + k = Start + (Off(x) + k)
  BY <1>1, Sizes
<1> QED
  BY <1>2, <1>3, <1>4 DEF Pos

(* The next position has the next ticket.                                  *)
LEMMA OffNext ==
  ASSUME NEW x \in 0..(Modulus - 1), Off(x) + 1 < Modulus
  PROVE  Off(Wrap(x + 1)) = Off(x) + 1
<1>1. Off(x) \in 0..(Modulus - 1) /\ x + 1 \in Int /\ x - Start \in Int /\ -Start \in Int
  BY PosOff, Sizes
<1>2. Wrap(Wrap(x + 1) + (-Start)) = Wrap((x + 1) + (-Start))
  BY <1>1, Sizes, ModAdd, Zenon DEF Wrap
<1>3. (x + 1) + (-Start) = (x - Start) + 1 /\ Wrap(x + 1) + (-Start) = Wrap(x + 1) - Start
  <2>1. Wrap(x + 1) \in Int
    BY <1>1, WrapType
  <2> QED
    BY <1>1, <2>1, Sizes
<1>4. Wrap((x - Start) + 1) = Wrap(x - Start) + 1
  <2>1. Wrap(x - Start) + 1 \in 0..(Modulus - 1)
    BY <1>1, Sizes DEF Off
  <2> QED
    BY <1>1, <2>1, Sizes, ModShift, 1 \in Int, Zenon DEF Wrap
<1> QED
  BY <1>2, <1>3, <1>4 DEF Off

(* The cell of a position is that of its ticket.                           *)
LEMMA CellOff ==
  ASSUME NEW x \in 0..(Modulus - 1)
  PROVE  Cell(x) = CellOf(Off(x)) /\ Cell(x) \in 0..(N - 1)
<1>1. Off(x) \in Int /\ Start + Off(x) \in Int /\ x \in Int
  BY PosOff, Sizes
<1>2. Cell(Wrap(Start + Off(x))) = Cell(Start + Off(x))
  BY <1>1, Sizes, ModOfMod, Zenon DEF Cell, Wrap
<1>3. x = Wrap(Start + Off(x))
  BY PosOff, Zenon DEF Pos
<1> QED
  BY <1>1, <1>2, <1>3, WrapType DEF CellOf

(* Tickets of one turn of the ring have cells of their own.                *)
LEMMA CellApart ==
  ASSUME NEW m \in Int, NEW n \in Int, m # n, m - n < N, n - m < N
  PROVE  CellOf(m) # CellOf(n)
<1>1. /\ Start + m \in Int /\ Start + n \in Int /\ Start + m # Start + n
      /\ (Start + m) - (Start + n) < N /\ (Start + n) - (Start + m) < N
  BY Sizes
<1> QED
  BY <1>1, Sizes, ModClose, Zenon DEF CellOf, Cell

(* Tickets less than a turn of the counters apart have their own positions. *)
LEMMA PosApart ==
  ASSUME NEW m \in Int, NEW n \in Int, m # n, m - n < Modulus, n - m < Modulus
  PROVE  Pos(m) # Pos(n)
<1>1. /\ Start + m \in Int /\ Start + n \in Int /\ Start + m # Start + n
      /\ (Start + m) - (Start + n) < Modulus /\ (Start + n) - (Start + m) < Modulus
  BY Sizes
<1> QED
  BY <1>1, Sizes, ModClose, Zenon DEF Pos, Wrap

(* A turn of the ring leads back to the same cell.                         *)
LEMMA CellTurn ==
  ASSUME NEW n \in Int
  PROVE  CellOf(n + N) = CellOf(n) /\ CellOf(n) \in 0..(N - 1)
<1>1. PICK q \in Int, b \in 0..(N - 1) :
        (Start + n) % N = b /\ N * q \in Int /\ Start + n = N * q + b
  <2>1. Start + n \in Int
    BY Sizes
  <2> QED
    BY <2>1, Sizes, Divide, Zenon
<1>2. Start + (n + N) = N * (q + 1) + b /\ q + 1 \in Int
  <2>1. N * (q + 1) = N * q + N
    BY Sizes
  <2> QED
    BY <1>1, <2>1, Sizes
<1>3. (Start + (n + N)) % N = b
  <2>1. PICK a \in Int : a = Start + (n + N)
    BY Sizes
  <2>2. PICK d \in Int : d = q + 1
    BY <1>2
  <2>3. a = N * d + b
    BY <1>2, <2>1, <2>2, Zenon
  <2>4. a % N = b
    BY <2>3, Sizes, ModUnique, Zenon
  <2> QED
    BY <2>1, <2>4
<1> QED
  BY <1>1, <1>3 DEF CellOf, Cell

(* The comparison of the code finds equal what is equal.                   *)
LEMMA SignedZero ==
  ASSUME NEW a \in 0..(Modulus - 1), NEW b \in 0..(Modulus - 1)
  PROVE  /\ Signed(a, b) \in Int
         /\ Signed(a, b) = 0 => a = b
<1>1. a - b \in Int /\ a \in Int /\ b \in Int /\ b - a \in Int
  BY Sizes
<1>2. Wrap(a - b) \in 0..(Modulus - 1)
  BY <1>1, WrapType
<1>3. Signed(a, b) \in Int /\ (Signed(a, b) = 0 => Wrap(a - b) = 0)
  BY <1>2, Sizes DEF Signed
<1>4. ASSUME Wrap(a - b) = 0 PROVE a = b
  <2>1. Wrap(Wrap(a - b) + b) = Wrap((a - b) + b)
    BY <1>1, Sizes, ModAdd, Zenon DEF Wrap
  <2>2. Wrap(a) = a /\ Wrap(b) = b
    BY Sizes, ModSmall, Zenon DEF Wrap
  <2>3. (a - b) + b = a /\ 0 + b = b
    BY <1>1
  <2> QED
    BY <1>4, <2>1, <2>2, <2>3
<1> QED
  BY <1>3, <1>4

-----------------------------------------------------------------------------
(* The state of the queue                                                  *)

(* What the registers of a thread can be.                                  *)
States ==
  [pc : {"idle", "seq", "pos", "cas", "fill", "publish", "take", "release"},
   pos : 0..(Modulus - 1), item : Items \cup {NoItem}]

(* The positions are far from wrapping around onto each other.             *)
LEMMA Bounds ==
  ASSUME IInv
  PROVE  /\ P \in Nat /\ C \in Nat /\ P \in Int /\ C \in Int
         /\ C <= P /\ P <= C + N /\ 2 * P < Modulus
         /\ pushPos = Pos(P) /\ popPos = Pos(C)
         /\ pushPos \in 0..(Modulus - 1) /\ popPos \in 0..(Modulus - 1)
         /\ IsFiniteSet(Pushed) /\ P = Cardinality(Pushed)
         /\ Cardinality(Items) \in Nat /\ P <= Cardinality(Items)
         /\ th \in [Threads -> States]
<1>1. /\ pushPos \in 0..(Modulus - 1) /\ popPos \in 0..(Modulus - 1) /\ pushing \subseteq Items
      /\ th \in [Threads -> States]
  BY DEF IInv, TypeOK, States
<1>2. /\ P \in 0..(Modulus - 1) /\ C \in 0..(Modulus - 1) /\ P \in Int /\ C \in Int
      /\ pushPos = Pos(P) /\ popPos = Pos(C)
  BY <1>1, PosOff, Zenon DEF P, C
<1>3. /\ IsFiniteSet(Items) /\ Cardinality(Items) \in Nat /\ 2 * Cardinality(Items) < Modulus
  BY MpmcAssumption, FS_CardinalityType
<1>4. Pushed \in SUBSET Items
  BY <1>1 DEF Pushed
<1>5. IsFiniteSet(Pushed) /\ Cardinality(Pushed) <= Cardinality(Items)
  BY <1>3, <1>4, FS_Subset, Zenon
<1>6. P = Cardinality(Pushed) /\ C <= P /\ P <= C + N
  BY DEF IInv, ItemInv, RingInv
<1>7. P \in Nat /\ C \in Nat
  BY <1>2, Sizes
<1>8. P <= Cardinality(Items) /\ 2 * P < Modulus
  <2>1. PICK k \in Nat : k = Cardinality(Items) /\ 2 * k < Modulus
    BY <1>3
  <2>2. P <= k
    BY <1>5, <1>6, <2>1
  <2> QED
    BY <1>7, <2>1, <2>2, Sizes
<1> QED
  BY <1>1, <1>2, <1>3, <1>5, <1>6, <1>7, <1>8

(* A thread's position and cell are those of its ticket.                   *)
LEMMA Tickets ==
  ASSUME IInv, NEW t \in Threads
  PROVE  /\ th[t] \in States /\ th[t].pos \in 0..(Modulus - 1)
         /\ Ticket(t) \in Int /\ Ticket(t) \in 0..(Modulus - 1)
         /\ th[t].pos = Pos(Ticket(t))
         /\ Cell(th[t].pos) = CellOf(Ticket(t)) /\ CellOf(Ticket(t)) \in 0..(N - 1)
         /\ th[t].item \in Items \cup {NoItem}
<1>1. /\ th[t] \in States /\ th[t].pos \in 0..(Modulus - 1) /\ th[t].item \in Items \cup {NoItem}
  BY DEF IInv, TypeOK, States
<1>2. /\ Ticket(t) \in Int /\ Ticket(t) \in 0..(Modulus - 1) /\ th[t].pos = Pos(Ticket(t))
      /\ Cell(th[t].pos) = CellOf(Ticket(t))
  BY <1>1, PosOff, CellOff, Zenon DEF Ticket
<1> QED
  BY <1>1, <1>2, CellTurn

(* The ticket of a position is found again.                                *)
LEMMA TicketOf ==
  ASSUME IInv, NEW t \in Threads
  PROVE  /\ th[t].pos = pushPos <=> Ticket(t) = P
         /\ th[t].pos = popPos <=> Ticket(t) = C
  BY Bounds, Tickets, Zenon DEF Ticket, P, C

(* A producer that sees its turn finds room: the cell is neither filled    *)
(* nor being emptied.                                                      *)
LEMMA Room ==
  ASSUME IInv, Seqn(P) = Pos(P)
  PROVE  P < C + N /\ \A c \in Consumers : Takes(c) => Ticket(c) + N # P
<1>1. ASSUME P = C + N PROVE FALSE
  <2>1. Seqn(P) = Seqn(C)
    BY <1>1, Bounds, CellTurn, Zenon DEF Seqn
  <2>2. C \in C..(P - 1)
    BY <1>1, Bounds, Sizes
  <2>3. Seqn(C) = Pos(C) \/ Seqn(C) = Pos(C + 1)
    BY <2>2 DEF IInv, RingInv, FillInv
  <2>4. PICK m \in Int, n \in Int :
          /\ m = C + N /\ m # C /\ m - C < Modulus /\ C - m < Modulus
          /\ n = C + 1 /\ m # n /\ m - n < Modulus /\ n - m < Modulus
    BY Bounds, Sizes
  <2>5. Pos(m) # Pos(C)
    BY <2>4, Bounds, PosApart
  <2>6. Pos(m) # Pos(n)
    BY <2>4, PosApart
  <2> QED
    BY <1>1, <2>1, <2>3, <2>4, <2>5, <2>6
<1>2. ASSUME NEW c \in Consumers, Takes(c), Ticket(c) + N = P PROVE FALSE
  <2>1. Seqn(P) = Pos(Ticket(c) + 1)
    BY <1>2 DEF IInv, RingInv, TakeInv
  <2>2. Ticket(c) \in Int
    BY Tickets DEF Threads
  <2>3. PICK m \in Int, n \in Int : /\ m = P /\ n = Ticket(c) + 1
                                   /\ m # n /\ m - n < Modulus /\ n - m < Modulus
    BY <1>2, <2>2, Bounds, Sizes
  <2>4. Pos(m) # Pos(n)
    BY <2>3, PosApart
  <2> QED
    BY <2>1, <2>3, <2>4
<1> QED
  BY <1>1, <1>2, Bounds, Sizes

(* A consumer that sees its turn finds an item that nobody is writing.     *)
LEMMA Filled ==
  ASSUME IInv, Seqn(C) = Pos(C + 1)
  PROVE  /\ C < P /\ ItemOf(C) \in Items
         /\ \A p \in Producers : Fills(p) => Ticket(p) # C
<1>1. ASSUME C = P PROVE FALSE
  <2>1. P \in P..(C + N - 1)
    BY <1>1, Bounds, Sizes
  <2>2. CASE Seqn(P) = Pos(P)
    <3>1. /\ P # P + 1 /\ P - (P + 1) < Modulus /\ P + 1 - P < Modulus
          /\ P + 1 \in Int /\ P \in Int
      BY Bounds, Sizes
    <3>2. Pos(P) # Pos(P + 1)
      BY <3>1, PosApart
    <3> QED
      BY <1>1, <2>2, <3>2
  <2>3. ASSUME NEW c \in Consumers, Takes(c), Ticket(c) + N = P PROVE FALSE
    <3>1. Seqn(P) = Pos(Ticket(c) + 1)
      BY <2>3 DEF IInv, RingInv, TakeInv
    <3>2. Ticket(c) \in Int
      BY Tickets DEF Threads
    <3>3. PICK m \in Int, n \in Int : /\ m = P + 1 /\ n = Ticket(c) + 1
                                     /\ m # n /\ m - n < Modulus /\ n - m < Modulus
      BY <2>3, <3>2, Bounds, Sizes
    <3>4. Pos(m) # Pos(n)
      BY <3>3, PosApart
    <3> QED
      BY <1>1, <3>1, <3>3, <3>4
  <2> QED
    BY <2>1, <2>2, <2>3 DEF IInv, RingInv, TakeInv
<1>2. ASSUME NEW p \in Producers, Fills(p), Ticket(p) = C PROVE FALSE
  <2>1. Seqn(C) = Pos(C)
    BY <1>2 DEF IInv, RingInv, FillInv
  <2>2. /\ C # C + 1 /\ C - (C + 1) < Modulus /\ C + 1 - C < Modulus /\ C + 1 \in Int /\ C \in Int
    BY Bounds, Sizes
  <2>3. Pos(C) # Pos(C + 1)
    BY <2>2, PosApart
  <2> QED
    BY <2>1, <2>3
<1>3. C < P
  BY <1>1, Bounds
<1>4. C \in C..(P - 1)
  BY <1>3, Bounds
<1> QED
  BY <1>2, <1>3, <1>4 DEF IInv, RingInv, FillInv

-----------------------------------------------------------------------------
(* Steps that only move a thread's registers                               *)

(* A thread without a cell moves to registers r without a cell.            *)
LEMMA RegisterStep ==
  ASSUME IInv, NEW t \in Threads, NEW r \in States, ItemInv', pushing' \subseteq Items,
         th' = [th EXCEPT ![t] = r],
         UNCHANGED <<sequence, item, pushPos, popPos, popped>>,
         ~Fills(t), ~Takes(t), r.pc \in {"idle", "seq", "pos", "cas"},
         t \in Producers => (r.pc # "idle" => Off(r.pos) <= P),
         t \in Consumers => (r.pc # "idle" => Off(r.pos) <= C),
         t \in Producers => (r.pc = "cas" /\ Off(r.pos) = P => Seqn(P) = Pos(P)),
         t \in Consumers => (r.pc = "cas" /\ Off(r.pos) = C => Seqn(C) = Pos(C + 1))
  PROVE  IInv'
<1>1. \A u \in Threads : th'[u] = IF u = t THEN r ELSE th[u]
  BY Bounds
<1>2. TypeOK'
  BY <1>1 DEF IInv, TypeOK, States
<1>3. P' = P /\ C' = C /\ (\A n : Seqn(n)' = Seqn(n)) /\ (\A n : ItemOf(n)' = ItemOf(n))
  BY DEF P, C, Seqn, ItemOf
<1>4. \A p \in Producers : /\ Fills(p)' <=> Fills(p)
                           /\ Fills(p) => th'[p] = th[p] /\ Ticket(p)' = Ticket(p)
  BY <1>1 DEF Fills, Ticket, Threads
<1>5. \A c \in Consumers : /\ Takes(c)' <=> Takes(c)
                           /\ Takes(c) => th'[c] = th[c] /\ Ticket(c)' = Ticket(c)
  BY <1>1 DEF Takes, Ticket, Threads
<1>6. FillInv'
  BY <1>3, <1>4 DEF IInv, RingInv, FillInv
<1>7. TakeInv'
  BY <1>3, <1>5 DEF IInv, RingInv, TakeInv
<1>8. RoleInv'
  <2>1. ASSUME NEW p \in Producers
        PROVE  /\ th'[p].pc \in {"idle", "seq", "pos", "cas", "fill", "publish"}
               /\ Holds(p)' => Ticket(p)' <= P
    BY <1>1 DEF IInv, RoleInv, Holds, Ticket, Threads
  <2>2. ASSUME NEW c \in Consumers
        PROVE  /\ th'[c].pc \in {"idle", "seq", "pos", "cas", "take", "release"}
               /\ Holds(c)' => Ticket(c)' <= C
    BY <1>1 DEF IInv, RoleInv, Holds, Ticket, Threads
  <2> QED
    BY <1>3, <2>1, <2>2 DEF RoleInv
<1>9. TurnInv'
  <2>1. ASSUME NEW p \in Producers, th'[p].pc = "cas", Ticket(p)' = P PROVE Seqn(P) = Pos(P)
    BY <1>1, <2>1 DEF IInv, TurnInv, Ticket, Threads
  <2>2. ASSUME NEW c \in Consumers, th'[c].pc = "cas", Ticket(c)' = C PROVE Seqn(C) = Pos(C + 1)
    BY <1>1, <2>2 DEF IInv, TurnInv, Ticket, Threads
  <2> QED
    BY <1>3, <2>1, <2>2 DEF TurnInv
<1> QED
  BY <1>2, <1>3, <1>6, <1>7, <1>8, <1>9 DEF IInv, RingInv

(* try_push, loading m_pushPos.                                            *)
LEMMA PushReadPosKeeps ==
  ASSUME IInv, NEW p \in Producers, NEW x \in Items, PushReadPos(p, x)
  PROVE  IInv' /\ Pushed' = Pushed
<1> DEFINE r == [pc |-> "seq", pos |-> pushPos, item |-> x]
<1>1. /\ th[p].pc = "idle" /\ x \notin pushing /\ pushing' = pushing \cup {x}
      /\ th' = [th EXCEPT ![p] = r]
      /\ UNCHANGED <<sequence, item, pushPos, popPos, popped>>
  BY DEF PushReadPos
<1>2. /\ r \in States /\ r.pc = "seq" /\ r.item = x /\ Off(r.pos) = P /\ p \in Threads
      /\ p \notin Consumers
  BY Bounds, MpmcAssumption DEF States, P, Threads
<1> HIDE DEF r
<1>3. \A q \in Producers : th'[q] = IF q = p THEN r ELSE th[q]
  BY <1>1, Bounds DEF Threads
<1>4. \A q \in Producers : Holds(q) => th[q].item \in pushing
  BY DEF IInv, ItemInv
<1>5. Pushed' = Pushed
  <2>1. \A y \in pushing : y # x
    BY <1>1
  <2> QED
    BY <1>1, <1>2, <1>3, <2>1 DEF Pushed, Holds
<1>6. ItemInv'
  <2>1. P' = P
    BY <1>1 DEF P
  <2>2. \A q \in Producers : Holds(q)' => th'[q].item \in pushing'
    BY <1>1, <1>2, <1>3, <1>4 DEF Holds
  <2>3. \A q \in Producers : Fills(q)' => th'[q].item \in Items
    BY <1>2, <1>3 DEF Fills, IInv, ItemInv
  <2>4. \A q, u \in Producers : Holds(q)' /\ Holds(u)' /\ th'[q].item = th'[u].item => q = u
    BY <1>1, <1>2, <1>3, <1>4 DEF Holds, IInv, ItemInv
  <2> QED
    BY <1>5, <2>1, <2>2, <2>3, <2>4 DEF IInv, ItemInv
<1>7. pushing' \subseteq Items
  BY <1>1 DEF IInv, TypeOK
<1>8. ~Fills(p) /\ ~Takes(p)
  BY <1>1 DEF Fills, Takes
<1>9. P <= P
  BY Bounds
<1> QED
  BY <1>1, <1>2, <1>5, <1>6, <1>7, <1>8, <1>9, RegisterStep

(* A producer that keeps its item keeps what is pushed.                    *)
LEMMA SameItems ==
  ASSUME IInv, NEW t \in Threads, NEW r \in States, th' = [th EXCEPT ![t] = r],
         UNCHANGED <<pushPos, pushing>>,
         t \in Producers => Holds(t) /\ r.pc \in {"seq", "pos", "cas"} /\ r.item = th[t].item
  PROVE  ItemInv' /\ Pushed' = Pushed
<1>1. \A p \in Producers : th'[p] = IF p = t THEN r ELSE th[p]
  BY Bounds DEF Threads
<1>2. P' = P
  BY DEF P
<1>3. \A p \in Producers : /\ Holds(p)' <=> Holds(p)
                           /\ Holds(p) => th'[p].item = th[p].item
                           /\ Fills(p)' <=> Fills(p)
                           /\ Fills(p) => th'[p].item = th[p].item
  BY <1>1 DEF Holds, Fills
<1>4. Pushed' = Pushed
  BY <1>3 DEF Pushed
<1> QED
  BY <1>2, <1>3, <1>4 DEF IInv, ItemInv

(* try_push, loading the cell's sequence number.                           *)
LEMMA PushReadSeqKeeps ==
  ASSUME IInv, NEW p \in Producers, PushReadSeq(p)
  PROVE  IInv'
<1>1. th[p].pc = "seq" /\ UNCHANGED <<sequence, item, pushPos, popPos, popped>>
  BY DEF PushReadSeq
<1>2. p \in Threads /\ p \notin Consumers /\ Ticket(p) <= P
  BY <1>1, MpmcAssumption DEF IInv, RoleInv, Holds, Threads
<1>3. /\ th[p] \in States /\ th[p].item \in Items \cup {NoItem}
      /\ Cell(th[p].pos) = CellOf(Ticket(p)) /\ th[p].pos = Pos(Ticket(p))
      /\ th[p].pos \in 0..(Modulus - 1) /\ CellOf(Ticket(p)) \in 0..(N - 1)
  BY <1>2, Tickets
<1>4. th \in [Threads -> States] /\ ~Fills(p) /\ ~Takes(p) /\ Holds(p)
  BY <1>1, Bounds DEF Fills, Takes, Holds
<1>5. pushing \subseteq Items /\ pushing \ {th[p].item} \subseteq Items
  BY DEF IInv, TypeOK
<1> DEFINE diff == Signed(sequence[Cell(th[p].pos)], th[p].pos)
<1>6. \/ diff = 0 /\ th' = [th EXCEPT ![p].pc = "cas"] /\ UNCHANGED pushing
      \/ th' = [th EXCEPT ![p] = Idle] /\ pushing' = pushing \ {th[p].item}
      \/ th' = [th EXCEPT ![p].pc = "pos"] /\ UNCHANGED pushing
  BY DEF PushReadSeq, Goto
<1>7. diff = 0 => Seqn(Ticket(p)) = Pos(Ticket(p))
  <2>1. sequence[Cell(th[p].pos)] \in 0..(Modulus - 1)
    BY <1>3 DEF IInv, TypeOK
  <2> QED
    BY <1>3, <2>1, SignedZero DEF Seqn
<1>8. ASSUME NEW w \in {"cas", "pos"}, th' = [th EXCEPT ![p].pc = w], UNCHANGED pushing,
             w = "cas" => Seqn(Ticket(p)) = Pos(Ticket(p))
      PROVE  IInv'
  <2>1. PICK r \in States : /\ th' = [th EXCEPT ![p] = r] /\ r.pc = w /\ r.item = th[p].item
                            /\ Off(r.pos) = Ticket(p)
    <3> DEFINE r == [th[p] EXCEPT !.pc = w]
    <3>1. r \in States /\ r.pc = w /\ r.item = th[p].item /\ r.pos = th[p].pos
      BY <1>3 DEF States
    <3>2. th' = [th EXCEPT ![p] = r]
      BY <1>8
    <3> QED
      BY <3>1, <3>2 DEF Ticket
  <2>2. ItemInv' /\ Pushed' = Pushed
    BY <1>1, <1>2, <1>4, <1>8, <2>1, SameItems
  <2> QED
    BY <1>1, <1>2, <1>4, <1>5, <1>8, <2>1, <2>2, RegisterStep
<1>9. ASSUME th' = [th EXCEPT ![p] = Idle], pushing' = pushing \ {th[p].item}
      PROVE  IInv'
  <2>1. Idle \in States /\ Idle.pc = "idle"
    BY Sizes DEF Idle, States
  <2>2. \A q \in Producers : th'[q] = IF q = p THEN Idle ELSE th[q]
    BY <1>4, <1>9 DEF Threads
  <2>3. \A q, u \in Producers : Holds(q) /\ Holds(u) /\ th[q].item = th[u].item => q = u
    BY DEF IInv, ItemInv
  <2>4. \A q \in Producers : Holds(q)' <=> Holds(q) /\ q # p
    BY <2>1, <2>2 DEF Holds
  <2>5. Pushed' = Pushed
    BY <1>4, <1>9, <2>2, <2>4 DEF Pushed
  <2>6. ItemInv'
    <3>1. P' = P
      BY <1>1 DEF P
    <3>2. \A q \in Producers : Holds(q)' => th'[q].item \in pushing'
      BY <1>4, <1>9, <2>2, <2>3, <2>4 DEF IInv, ItemInv
    <3>3. \A q \in Producers : Fills(q)' => th'[q].item \in Items
      BY <2>1, <2>2 DEF Fills, IInv, ItemInv
    <3>4. \A q, u \in Producers : Holds(q)' /\ Holds(u)' /\ th'[q].item = th'[u].item => q = u
      BY <2>2, <2>3, <2>4
    <3> QED
      BY <2>5, <3>1, <3>2, <3>3, <3>4 DEF IInv, ItemInv
  <2> QED
    BY <1>1, <1>2, <1>4, <1>5, <1>9, <2>1, <2>6, RegisterStep
<1> QED
  BY <1>6, <1>7, <1>8, <1>9

(* Going back to look at the sequence number of the current position.      *)
LEMMA PushAgain ==
  ASSUME IInv, NEW p \in Producers, Holds(p),
         th' = [th EXCEPT ![p].pc = "seq", ![p].pos = pushPos],
         UNCHANGED <<sequence, item, pushPos, popPos, popped, pushing>>
  PROVE  IInv'
<1>1. /\ p \in Threads /\ p \notin Consumers /\ ~Fills(p) /\ ~Takes(p)
  BY MpmcAssumption DEF Threads, Holds, Fills, Takes
<1>2. th[p] \in States /\ pushing \subseteq Items
  BY <1>1, Tickets DEF IInv, TypeOK
<1> DEFINE r == [pc |-> "seq", pos |-> pushPos, item |-> th[p].item]
<1>3. r \in States /\ r.pc = "seq" /\ r.item = th[p].item /\ Off(r.pos) = P
  BY <1>2, Bounds DEF States, P
<1>4. th' = [th EXCEPT ![p] = r]
  <2>1. th[p] = [pc |-> th[p].pc, pos |-> th[p].pos, item |-> th[p].item]
    BY <1>2 DEF States
  <2>2. th'[p] = [th[p] EXCEPT !.pc = "seq", !.pos = pushPos]
    BY <1>1, Bounds
  <2>3. th'[p] = r
    BY <2>1, <2>2
  <2>4. \A u \in Threads \ {p} : th'[u] = th[u]
    BY Bounds
  <2> QED
    BY <1>1, <2>3, <2>4, Bounds
<1> HIDE DEF r
<1>5. ItemInv'
  BY <1>1, <1>3, <1>4, SameItems
<1>6. P <= P
  BY Bounds
<1> QED
  BY <1>1, <1>2, <1>3, <1>4, <1>5, <1>6, RegisterStep

(* try_push, reloading m_pushPos.                                          *)
LEMMA PushRereadPosKeeps ==
  ASSUME IInv, NEW p \in Producers, PushRereadPos(p)
  PROVE  IInv'
  BY PushAgain DEF PushRereadPos, Holds

(* A successful compare_exchange on m_pushPos draws the ticket of a free   *)
(* cell for an item that had none.                                         *)
LEMMA DrawPush ==
  ASSUME IInv, NEW p \in Producers, th[p].pc = "cas", pushPos = th[p].pos,
         pushPos' = Wrap(pushPos + 1), Goto(p, "fill"),
         UNCHANGED <<sequence, item, popPos, popped, pushing>>
  PROVE  /\ p \in Threads /\ Ticket(p) = P /\ P < C + N
         /\ P' = P + 1 /\ C' = C /\ th[p].item \in Items
         /\ \A t \in Threads \ {p} : th'[t] = th[t]
         /\ th'[p].pc = "fill" /\ th'[p].pos = th[p].pos /\ th'[p].item = th[p].item
         /\ IInv'
<1>1. /\ p \in Threads /\ p \notin Consumers /\ Holds(p)
  BY MpmcAssumption DEF Threads, Holds
<1>2. /\ th[p] \in States /\ Ticket(p) = P
  BY <1>1, Tickets, TicketOf
<1>3. /\ P < C + N /\ Seqn(P) = Pos(P) /\ \A c \in Consumers : Takes(c) => Ticket(c) + N # P
  <2>1. Seqn(P) = Pos(P)
    BY <1>2 DEF IInv, TurnInv
  <2> QED
    BY <2>1, Room
<1>4. /\ \A t \in Threads \ {p} : th'[t] = th[t]
      /\ th'[p] \in States /\ th' \in [Threads -> States]
      /\ th'[p].pc = "fill" /\ th'[p].pos = th[p].pos /\ th'[p].item = th[p].item
  <2>1. th'[p] = [th[p] EXCEPT !.pc = "fill"] /\ th' = [th EXCEPT ![p] = [th[p] EXCEPT !.pc = "fill"]]
    BY <1>1, Bounds DEF Goto
  <2>2. [th[p] EXCEPT !.pc = "fill"] \in States
    BY <1>2 DEF States
  <2>3. th'[p].pc = "fill" /\ th'[p].pos = th[p].pos /\ th'[p].item = th[p].item
    BY <1>2, <2>1 DEF States
  <2> QED
    BY <1>1, <2>1, <2>2, <2>3, Bounds
<1>5. /\ P' = P + 1 /\ pushPos' \in 0..(Modulus - 1) /\ C' = C
      /\ \A n : Seqn(n)' = Seqn(n) /\ ItemOf(n)' = ItemOf(n)
  <2>1. P + 1 < Modulus /\ pushPos + 1 \in Int
    BY Bounds, Sizes
  <2>2. Off(Wrap(pushPos + 1)) = P + 1
    BY <2>1, Bounds, OffNext DEF P
  <2>3. Wrap(pushPos + 1) \in 0..(Modulus - 1)
    BY <2>1, WrapType
  <2> QED
    BY <2>2, <2>3 DEF P, C, Seqn, ItemOf
<1>6. th[p].item \in pushing /\ th[p].item \in Items
  BY <1>1 DEF IInv, ItemInv, TypeOK
<1>7. \A q \in Producers : /\ Holds(q)' <=> Holds(q) /\ q # p
                           /\ Fills(q)' <=> Fills(q) \/ q = p
                           /\ th'[q].item = th[q].item /\ Ticket(q)' = Ticket(q)
  BY <1>1, <1>4 DEF Holds, Fills, Ticket, Threads
<1>8. \A c \in Consumers : th'[c] = th[c] /\ Ticket(c)' = Ticket(c) /\ (Takes(c)' <=> Takes(c))
                           /\ (Holds(c)' <=> Holds(c))
  BY <1>1, <1>4 DEF Takes, Ticket, Threads, Holds
<1>9. ~Fills(p)
  BY DEF Fills
<1>10. TypeOK'
  BY <1>4, <1>5 DEF IInv, TypeOK, States
<1>11. RoleInv'
  <2>1. ASSUME NEW q \in Producers
        PROVE  /\ th'[q].pc \in {"idle", "seq", "pos", "cas", "fill", "publish"}
               /\ Holds(q)' => Ticket(q)' <= P'
    <3>1. Holds(q) => Ticket(q) <= P + 1
      <4>1. Ticket(q) \in Int /\ (Holds(q) => Ticket(q) <= P)
        BY Tickets DEF IInv, RoleInv, Threads
      <4> QED
        BY <4>1, Bounds
    <3> QED
      BY <1>4, <1>5, <1>7, <3>1 DEF IInv, RoleInv, Threads
  <2>2. ASSUME NEW c \in Consumers
        PROVE  /\ th'[c].pc \in {"idle", "seq", "pos", "cas", "take", "release"}
               /\ Holds(c)' => Ticket(c)' <= C'
    BY <1>5, <1>8 DEF IInv, RoleInv
  <2> QED
    BY <2>1, <2>2 DEF RoleInv
<1>12. ItemInv'
  <2>1. \A q, u \in Producers : Holds(q) /\ Holds(u) /\ th[q].item = th[u].item => q = u
    BY DEF IInv, ItemInv
  <2>2. Pushed' = Pushed \cup {th[p].item} /\ th[p].item \notin Pushed
    BY <1>1, <1>6, <1>7, <2>1 DEF Pushed
  <2>3. Cardinality(Pushed') = P + 1
    BY <2>2, Bounds, FS_AddElement
  <2> QED
    BY <1>5, <1>6, <1>7, <2>3 DEF IInv, ItemInv
<1>13. FillInv'
  <2>1. ASSUME NEW q \in Producers, Fills(q)'
        PROVE  /\ Ticket(q)' \in C'..(P' - 1)
               /\ Seqn(Ticket(q))' = Pos(Ticket(q)')
               /\ th'[q].pc = "publish" => ItemOf(Ticket(q))' = th'[q].item
    <3>1. CASE q = p
      <4>1. P \in C..((P + 1) - 1)
        BY Bounds
      <4> QED
        BY <1>2, <1>3, <1>4, <1>5, <1>7, <3>1, <4>1 DEF Seqn
    <3>2. CASE q # p
      <4>1. /\ Fills(q) /\ th'[q] = th[q]
        BY <1>4, <1>7, <2>1, <3>2 DEF Threads
      <4>2. /\ Ticket(q) \in C..(P - 1) /\ Seqn(Ticket(q)) = Pos(Ticket(q))
            /\ th[q].pc = "publish" => ItemOf(Ticket(q)) = th[q].item
        BY <4>1 DEF IInv, RingInv, FillInv
      <4>3. Ticket(q) \in C..((P + 1) - 1)
        BY <4>2, Bounds
      <4> QED
        BY <1>5, <1>7, <4>1, <4>2, <4>3 DEF Seqn, ItemOf
    <3> QED
      BY <3>1, <3>2
  <2>2. ASSUME NEW q \in Producers, NEW u \in Producers, Fills(q)', Fills(u)',
               Ticket(q)' = Ticket(u)'
        PROVE  q = u
    <3>1. \A v \in Producers : Fills(v) => Ticket(v) # P
      <4>1. \A v \in Producers : Fills(v) => Ticket(v) \in C..(P - 1)
        BY DEF IInv, RingInv, FillInv
      <4> QED
        BY <4>1, Bounds
    <3> QED
      BY <1>2, <1>7, <2>2, <3>1 DEF IInv, RingInv, FillInv
  <2>3. ASSUME NEW n \in C'..(P' - 1)
        PROVE  \/ \E q \in Producers : Fills(q)' /\ Ticket(q)' = n
               \/ Seqn(n)' = Pos(n + 1) /\ ItemOf(n)' \in Items
    <3>1. CASE n = P
      BY <1>2, <1>7, <3>1
    <3>2. CASE n # P
      <4>1. n \in C..(P - 1)
        BY <1>5, <3>2, Bounds
      <4> QED
        BY <1>5, <1>7, <4>1 DEF IInv, RingInv, FillInv
    <3> QED
      BY <3>1, <3>2
  <2> QED
    BY <2>1, <2>2, <2>3 DEF FillInv
<1>14. TakeInv'
  <2>1. ASSUME NEW c \in Consumers, Takes(c)
        PROVE  Ticket(c) + N \in P'..(C' + N - 1)
    <3>1. Ticket(c) + N \in P..(C + N - 1) /\ Ticket(c) + N # P
      BY <1>3, <2>1 DEF IInv, RingInv, TakeInv
    <3> QED
      BY <1>5, <3>1, Bounds, Sizes
  <2>2. ASSUME NEW n \in P'..(C' + N - 1)
        PROVE  n \in P..(C + N - 1)
    BY <1>5, Bounds, Sizes
  <2> QED
    BY <1>5, <1>8, <2>1, <2>2 DEF IInv, RingInv, TakeInv, Seqn, ItemOf
<1>15. TurnInv'
  <2>1. ASSUME NEW q \in Producers, th'[q].pc = "cas" PROVE Ticket(q)' # P'
    <3>1. q # p /\ th'[q] = th[q] /\ Holds(q)
      BY <1>4, <2>1 DEF Holds, Threads
    <3>2. Ticket(q) \in Int /\ Ticket(q) <= P
      BY <3>1, Tickets DEF IInv, RoleInv, Threads
    <3> QED
      BY <1>5, <1>7, <3>2, Bounds
  <2> QED
    BY <1>5, <1>8, <2>1 DEF IInv, TurnInv
<1>16. C' <= P' /\ P' <= C' + N
  BY <1>3, <1>5, Bounds, Sizes
<1> QED
  BY <1>1, <1>2, <1>3, <1>4, <1>5, <1>6, <1>10, <1>11, <1>12, <1>13, <1>14, <1>15, <1>16
     DEF IInv, RingInv

(* try_push, compare_exchange_weak on m_pushPos.                           *)
LEMMA PushClaimKeeps ==
  ASSUME IInv, NEW p \in Producers, PushClaim(p)
  PROVE  IInv'
<1>1. CASE th' = [th EXCEPT ![p].pc = "seq", ![p].pos = pushPos] /\ UNCHANGED pushPos
  BY <1>1, PushAgain DEF PushClaim, Holds
<1>2. CASE pushPos = th[p].pos /\ pushPos' = Wrap(pushPos + 1) /\ Goto(p, "fill")
  BY <1>2, DrawPush DEF PushClaim
<1> QED
  BY <1>1, <1>2 DEF PushClaim

-----------------------------------------------------------------------------
(* Steps of a producer in its cell                                         *)

(* Where a producer's cell is: no other ticket of the turn has it.         *)
LEMMA FillPlace ==
  ASSUME IInv, NEW p \in Producers, Fills(p)
  PROVE  /\ p \in Threads /\ p \notin Consumers
         /\ Ticket(p) \in C..(P - 1) /\ Seqn(Ticket(p)) = Pos(Ticket(p))
         /\ th[p].item \in Items /\ th[p].pc # "cas" /\ ~Holds(p)
         /\ Cell(th[p].pos) = CellOf(Ticket(p)) /\ CellOf(Ticket(p)) \in 0..(N - 1)
         /\ \A n \in C..(C + N - 1) : n # Ticket(p) =>
              CellOf(n) # CellOf(Ticket(p)) /\ CellOf(n) \in 0..(N - 1)
<1>1. p \in Threads /\ p \notin Consumers /\ th[p].pc # "cas" /\ ~Holds(p)
  BY MpmcAssumption DEF Threads, Fills, Holds
<1>2. /\ Cell(th[p].pos) = CellOf(Ticket(p)) /\ CellOf(Ticket(p)) \in 0..(N - 1)
      /\ Ticket(p) \in Int
  BY <1>1, Tickets
<1>3. /\ Ticket(p) \in C..(P - 1) /\ Seqn(Ticket(p)) = Pos(Ticket(p)) /\ th[p].item \in Items
  BY DEF IInv, RingInv, FillInv, ItemInv
<1>4. ASSUME NEW n \in C..(C + N - 1), n # Ticket(p)
      PROVE  CellOf(n) # CellOf(Ticket(p)) /\ CellOf(n) \in 0..(N - 1)
  <2>1. n \in Int /\ n - Ticket(p) < N /\ Ticket(p) - n < N
    BY <1>2, <1>3, Bounds, Sizes
  <2> QED
    BY <1>2, <1>4, <2>1, CellApart, CellTurn
<1> QED
  BY <1>1, <1>2, <1>3, <1>4

(* try_push, constructing the item.                                        *)
LEMMA PushFillKeeps ==
  ASSUME IInv, NEW p \in Producers, PushFill(p)
  PROVE  IInv'
<1>1. /\ th[p].pc = "fill" /\ item' = [item EXCEPT ![Cell(th[p].pos)] = th[p].item]
      /\ th' = [th EXCEPT ![p].pc = "publish"]
      /\ UNCHANGED <<sequence, pushPos, popPos, popped, pushing>>
  BY DEF PushFill, Goto
<1>2. /\ Fills(p) /\ p \in Threads /\ p \notin Consumers
      /\ Ticket(p) \in C..(P - 1) /\ Seqn(Ticket(p)) = Pos(Ticket(p))
      /\ th[p].item \in Items /\ ~Holds(p)
      /\ Cell(th[p].pos) = CellOf(Ticket(p)) /\ CellOf(Ticket(p)) \in 0..(N - 1)
      /\ \A n \in C..(C + N - 1) : n # Ticket(p) =>
           CellOf(n) # CellOf(Ticket(p)) /\ CellOf(n) \in 0..(N - 1)
  BY <1>1, FillPlace DEF Fills
<1>3. /\ th'[p] \in States /\ th' \in [Threads -> States]
      /\ th'[p].pc = "publish" /\ th'[p].pos = th[p].pos /\ th'[p].item = th[p].item
      /\ \A t \in Threads \ {p} : th'[t] = th[t]
  <2>1. th'[p] = [th[p] EXCEPT !.pc = "publish"]
        /\ th' = [th EXCEPT ![p] = [th[p] EXCEPT !.pc = "publish"]] /\ th[p] \in States
    BY <1>1, <1>2, Bounds
  <2>2. [th[p] EXCEPT !.pc = "publish"] \in States
    BY <2>1 DEF States
  <2>3. th'[p].pc = "publish" /\ th'[p].pos = th[p].pos /\ th'[p].item = th[p].item
    BY <2>1 DEF States
  <2> QED
    BY <1>2, <2>1, <2>2, <2>3, Bounds
<1>4. \A q \in Producers : /\ Holds(q)' <=> Holds(q)
                           /\ Fills(q)' <=> Fills(q)
                           /\ th'[q].item = th[q].item /\ Ticket(q)' = Ticket(q)
                           /\ th'[q].pc = "cas" <=> th[q].pc = "cas"
  BY <1>2, <1>3 DEF Holds, Fills, Ticket, Threads
<1>5. \A c \in Consumers : th'[c] = th[c] /\ Ticket(c)' = Ticket(c) /\ (Takes(c)' <=> Takes(c))
                           /\ (Holds(c)' <=> Holds(c))
  BY <1>2, <1>3 DEF Takes, Ticket, Threads, Holds
<1>6. /\ P' = P /\ C' = C /\ Pushed' = Pushed /\ \A n : Seqn(n)' = Seqn(n)
  BY <1>1, <1>4 DEF P, C, Seqn, Pushed
<1>7. /\ item'[CellOf(Ticket(p))] = th[p].item
      /\ \A n \in C..(C + N - 1) : n # Ticket(p) => item'[CellOf(n)] = ItemOf(n)
  BY <1>1, <1>2 DEF IInv, TypeOK, ItemOf
<1>8. /\ \A n \in C..(P - 1) : n \in C..(C + N - 1)
      /\ \A n \in P..(C + N - 1) : n \in C..(C + N - 1) /\ n # Ticket(p)
  BY <1>2, Bounds, Sizes
<1>9. TypeOK'
  BY <1>1, <1>2, <1>3 DEF IInv, TypeOK, States
<1>10. RoleInv'
  BY <1>2, <1>3, <1>4, <1>5, <1>6 DEF IInv, RoleInv, Threads
<1>11. ItemInv'
  BY <1>1, <1>4, <1>6 DEF IInv, ItemInv
<1>12. FillInv'
  <2>1. ASSUME NEW q \in Producers, Fills(q)
        PROVE  /\ Ticket(q) \in C..(P - 1)
               /\ Seqn(Ticket(q)) = Pos(Ticket(q))
               /\ th'[q].pc = "publish" => item'[CellOf(Ticket(q))] = th[q].item
    <3>1. CASE q = p
      BY <1>2, <1>7, <3>1
    <3>2. CASE q # p
      <4>1. /\ Ticket(q) \in C..(P - 1) /\ Seqn(Ticket(q)) = Pos(Ticket(q))
            /\ th[q].pc = "publish" => ItemOf(Ticket(q)) = th[q].item
            /\ Ticket(q) # Ticket(p)
        BY <1>2, <2>1, <3>2 DEF IInv, RingInv, FillInv
      <4> QED
        BY <1>3, <1>7, <1>8, <3>2, <4>1 DEF Threads
    <3> QED
      BY <3>1, <3>2
  <2>2. \A n \in C..(P - 1) : ItemOf(n) \in Items => item'[CellOf(n)] \in Items
    BY <1>2, <1>7, <1>8
  <2> QED
    BY <1>4, <1>6, <2>1, <2>2 DEF IInv, RingInv, FillInv, Seqn, ItemOf
<1>13. TakeInv'
  <2>1. ASSUME NEW c \in Consumers, Takes(c)
        PROVE  item'[CellOf(Ticket(c) + N)] = ItemOf(Ticket(c) + N)
    <3>1. Ticket(c) + N \in P..(C + N - 1)
      BY <2>1 DEF IInv, RingInv, TakeInv
    <3> QED
      BY <1>7, <1>8, <3>1
  <2> QED
    BY <1>5, <1>6, <2>1 DEF IInv, RingInv, TakeInv, Seqn, ItemOf
<1>14. TurnInv'
  BY <1>4, <1>5, <1>6 DEF IInv, TurnInv
<1> QED
  BY <1>6, <1>9, <1>10, <1>11, <1>12, <1>13, <1>14 DEF IInv, RingInv

(* try_push, storing the sequence number: the item may be taken.           *)
LEMMA PushPublishKeeps ==
  ASSUME IInv, NEW p \in Producers, PushPublish(p)
  PROVE  IInv'
<1>1. /\ th[p].pc = "publish"
      /\ sequence' = [sequence EXCEPT ![Cell(th[p].pos)] = Wrap(th[p].pos + 1)]
      /\ th' = [th EXCEPT ![p] = Idle]
      /\ UNCHANGED <<item, pushPos, popPos, popped, pushing>>
  BY DEF PushPublish
<1>2. /\ Fills(p) /\ p \in Threads /\ p \notin Consumers
      /\ Ticket(p) \in C..(P - 1) /\ Seqn(Ticket(p)) = Pos(Ticket(p))
      /\ th[p].item \in Items /\ ~Holds(p)
      /\ Cell(th[p].pos) = CellOf(Ticket(p)) /\ CellOf(Ticket(p)) \in 0..(N - 1)
      /\ \A n \in C..(C + N - 1) : n # Ticket(p) =>
           CellOf(n) # CellOf(Ticket(p)) /\ CellOf(n) \in 0..(N - 1)
  BY <1>1, FillPlace DEF Fills
<1>3. /\ Idle \in States /\ Idle.pc = "idle" /\ th'[p] = Idle
      /\ \A t \in Threads \ {p} : th'[t] = th[t]
      /\ th' \in [Threads -> States]
  BY <1>1, <1>2, Sizes, Bounds DEF Idle, States
<1>4. \A q \in Producers : /\ Holds(q)' <=> Holds(q)
                           /\ Fills(q)' <=> Fills(q) /\ q # p
                           /\ q # p => th'[q] = th[q] /\ Ticket(q)' = Ticket(q)
                           /\ th'[q].pc = "cas" <=> th[q].pc = "cas"
  BY <1>1, <1>2, <1>3 DEF Holds, Fills, Ticket, Threads
<1>5. \A c \in Consumers : th'[c] = th[c] /\ Ticket(c)' = Ticket(c) /\ (Takes(c)' <=> Takes(c))
                           /\ (Holds(c)' <=> Holds(c))
  BY <1>2, <1>3 DEF Takes, Ticket, Threads, Holds
<1>6. /\ P' = P /\ C' = C /\ Pushed' = Pushed /\ \A n : ItemOf(n)' = ItemOf(n)
  BY <1>1, <1>2, <1>4 DEF P, C, ItemOf, Pushed
<1>7. Wrap(th[p].pos + 1) = Pos(Ticket(p) + 1) /\ Wrap(th[p].pos + 1) \in 0..(Modulus - 1)
  <2>1. th[p].pos \in 0..(Modulus - 1)
    BY <1>2, Tickets
  <2>2. th[p].pos + 1 \in Int
    BY <2>1, Sizes
  <2> QED
    BY <2>1, <2>2, PosNext, WrapType, 1 \in Int DEF Ticket
<1>8. /\ sequence'[CellOf(Ticket(p))] = Pos(Ticket(p) + 1)
      /\ \A n \in C..(C + N - 1) : n # Ticket(p) => sequence'[CellOf(n)] = Seqn(n)
      /\ sequence' \in [0..(N - 1) -> 0..(Modulus - 1)]
  BY <1>1, <1>2, <1>7 DEF IInv, TypeOK, Seqn
<1>9. /\ \A n \in C..(P - 1) : n \in C..(C + N - 1)
      /\ \A n \in P..(C + N - 1) : n \in C..(C + N - 1) /\ n # Ticket(p)
  BY <1>2, Bounds, Sizes
<1>10. TypeOK'
  BY <1>1, <1>3, <1>8 DEF IInv, TypeOK, States
<1>11. RoleInv'
  BY <1>2, <1>3, <1>4, <1>5, <1>6 DEF IInv, RoleInv, Threads, Holds
<1>12. ItemInv'
  BY <1>1, <1>2, <1>4, <1>6 DEF IInv, ItemInv
<1>13. FillInv'
  <2>1. ASSUME NEW q \in Producers, Fills(q), q # p
        PROVE  /\ Ticket(q) \in C..(P - 1)
               /\ sequence'[CellOf(Ticket(q))] = Pos(Ticket(q))
               /\ th[q].pc = "publish" => ItemOf(Ticket(q)) = th[q].item
    <3>1. /\ Ticket(q) \in C..(P - 1) /\ Seqn(Ticket(q)) = Pos(Ticket(q))
          /\ th[q].pc = "publish" => ItemOf(Ticket(q)) = th[q].item
          /\ Ticket(q) # Ticket(p)
      BY <1>2, <2>1 DEF IInv, RingInv, FillInv
    <3> QED
      BY <1>8, <1>9, <3>1
  <2>2. ASSUME NEW n \in C..(P - 1)
        PROVE  \/ \E q \in Producers : Fills(q) /\ q # p /\ Ticket(q) = n
               \/ sequence'[CellOf(n)] = Pos(n + 1) /\ ItemOf(n) \in Items
    <3>1. CASE n = Ticket(p)
      <4>1. ItemOf(n) = th[p].item
        BY <1>1, <1>2, <3>1 DEF IInv, RingInv, FillInv
      <4> QED
        BY <1>2, <1>8, <3>1, <4>1
    <3>2. CASE n # Ticket(p)
      <4>1. \/ \E q \in Producers : Fills(q) /\ Ticket(q) = n
            \/ Seqn(n) = Pos(n + 1) /\ ItemOf(n) \in Items
        BY DEF IInv, RingInv, FillInv
      <4> QED
        BY <1>8, <1>9, <3>2, <4>1
    <3> QED
      BY <3>1, <3>2
  <2> QED
    BY <1>4, <1>6, <2>1, <2>2 DEF IInv, RingInv, FillInv, Seqn, ItemOf
<1>14. TakeInv'
  <2>1. ASSUME NEW c \in Consumers, Takes(c)
        PROVE  sequence'[CellOf(Ticket(c) + N)] = Seqn(Ticket(c) + N)
    <3>1. Ticket(c) + N \in P..(C + N - 1)
      BY <2>1 DEF IInv, RingInv, TakeInv
    <3> QED
      BY <1>8, <1>9, <3>1
  <2>2. \A n \in P..(C + N - 1) : sequence'[CellOf(n)] = Seqn(n)
    BY <1>8, <1>9
  <2> QED
    BY <1>5, <1>6, <2>1, <2>2 DEF IInv, RingInv, TakeInv, Seqn, ItemOf
<1>15. TurnInv'
  <2>1. ASSUME NEW q \in Producers, th[q].pc = "cas", Ticket(q) = P
        PROVE  sequence'[CellOf(P)] = Pos(P)
    <3>1. Seqn(P) = Pos(P)
      BY <2>1 DEF IInv, TurnInv
    <3>2. P < C + N
      BY <3>1, Room
    <3>3. P \in P..(C + N - 1)
      BY <3>2, Bounds, Sizes
    <3> QED
      BY <1>8, <1>9, <3>1, <3>3
  <2>2. ASSUME NEW c \in Consumers, th[c].pc = "cas", Ticket(c) = C
        PROVE  sequence'[CellOf(C)] = Pos(C + 1)
    <3>1. Seqn(C) = Pos(C + 1)
      BY <2>2 DEF IInv, TurnInv
    <3>2. C # Ticket(p)
      BY <1>2, <3>1, Filled
    <3>3. C \in C..(C + N - 1)
      BY Bounds, Sizes
    <3> QED
      BY <1>8, <3>1, <3>2, <3>3
  <2>3. \A q \in Producers : th'[q].pc = "cas" => th[q].pc = "cas" /\ Ticket(q)' = Ticket(q)
    BY <1>3, <1>4
  <2> QED
    BY <1>5, <1>6, <2>1, <2>2, <2>3 DEF TurnInv, Seqn
<1> QED
  BY <1>6, <1>10, <1>11, <1>12, <1>13, <1>14, <1>15 DEF IInv, RingInv

-----------------------------------------------------------------------------
(* try_pop                                                                 *)

(* The registers of a consumer say nothing about what is pushed.           *)
LEMMA ConsumerItems ==
  ASSUME IInv, NEW c \in Consumers, \A t \in Threads \ {c} : th'[t] = th[t],
         UNCHANGED <<pushPos, pushing>>
  PROVE  ItemInv' /\ Pushed' = Pushed
<1>1. \A p \in Producers : th'[p] = th[p] /\ (Holds(p)' <=> Holds(p)) /\ (Fills(p)' <=> Fills(p))
  BY MpmcAssumption DEF Threads, Holds, Fills
<1>2. P' = P
  BY DEF P
<1>3. Pushed' = Pushed
  BY <1>1 DEF Pushed
<1> QED
  BY <1>1, <1>2, <1>3 DEF IInv, ItemInv

(* A consumer without a cell moves to registers r.                         *)
LEMMA PopRegister ==
  ASSUME IInv, NEW c \in Consumers, ~Takes(c), NEW r \in States,
         th' = [th EXCEPT ![c] = r], r.pc \in {"idle", "seq", "pos", "cas"},
         r.pc # "idle" => Off(r.pos) <= C,
         r.pc = "cas" /\ Off(r.pos) = C => Seqn(C) = Pos(C + 1),
         UNCHANGED <<sequence, item, pushPos, popPos, popped, pushing>>
  PROVE  IInv'
<1>1. c \in Threads /\ c \notin Producers /\ th \in [Threads -> States]
  BY MpmcAssumption, Bounds DEF Threads
<1>2. th[c].pc \in {"idle", "seq", "pos", "cas", "take", "release"}
  BY DEF IInv, RoleInv
<1>3. ~Fills(c)
  BY <1>2 DEF Fills
<1>4. \A t \in Threads \ {c} : th'[t] = th[t]
  BY <1>1
<1>5. ItemInv' /\ pushing' \subseteq Items
  BY <1>4, ConsumerItems DEF IInv, TypeOK
<1> QED
  BY <1>1, <1>3, <1>5, RegisterStep

(* try_pop, loading m_popPos.                                              *)
LEMMA PopReadPosKeeps ==
  ASSUME IInv, NEW c \in Consumers, PopReadPos(c)
  PROVE  IInv'
<1> DEFINE r == [pc |-> "seq", pos |-> popPos, item |-> NoItem]
<1>1. /\ th[c].pc = "idle" /\ th' = [th EXCEPT ![c] = r]
      /\ UNCHANGED <<sequence, item, pushPos, popPos, popped, pushing>>
  BY DEF PopReadPos
<1>2. r \in States /\ r.pc = "seq" /\ Off(r.pos) = C /\ ~Takes(c)
  BY <1>1, Bounds DEF States, C, Takes
<1>3. C <= C
  BY Bounds
<1> HIDE DEF r
<1> QED
  BY <1>1, <1>2, <1>3, PopRegister

(* Going back to look at the sequence number of the current position.      *)
LEMMA PopAgain ==
  ASSUME IInv, NEW c \in Consumers, Holds(c),
         th' = [th EXCEPT ![c].pc = "seq", ![c].pos = popPos],
         UNCHANGED <<sequence, item, pushPos, popPos, popped, pushing>>
  PROVE  IInv'
<1>1. c \in Threads /\ ~Takes(c) /\ C <= C
  BY Bounds DEF Threads, Holds, Takes
<1>2. th[c] \in States
  BY <1>1, Tickets
<1> DEFINE r == [pc |-> "seq", pos |-> popPos, item |-> th[c].item]
<1>3. r \in States /\ r.pc = "seq" /\ Off(r.pos) = C
  BY <1>2, Bounds DEF States, C
<1>4. th' = [th EXCEPT ![c] = r]
  <2>1. th[c] = [pc |-> th[c].pc, pos |-> th[c].pos, item |-> th[c].item]
    BY <1>2 DEF States
  <2>2. th'[c] = [th[c] EXCEPT !.pc = "seq", !.pos = popPos]
    BY <1>1, Bounds
  <2>3. th'[c] = r
    BY <2>1, <2>2
  <2>4. \A u \in Threads \ {c} : th'[u] = th[u]
    BY Bounds
  <2> QED
    BY <1>1, <2>3, <2>4, Bounds
<1> HIDE DEF r
<1> QED
  BY <1>1, <1>3, <1>4, PopRegister

(* try_pop, reloading m_popPos.                                            *)
LEMMA PopRereadPosKeeps ==
  ASSUME IInv, NEW c \in Consumers, PopRereadPos(c)
  PROVE  IInv'
  BY PopAgain DEF PopRereadPos, Holds

(* try_pop, loading the cell's sequence number.                            *)
LEMMA PopReadSeqKeeps ==
  ASSUME IInv, NEW c \in Consumers, PopReadSeq(c)
  PROVE  IInv'
<1>1. th[c].pc = "seq" /\ UNCHANGED <<sequence, item, pushPos, popPos, popped, pushing>>
  BY DEF PopReadSeq
<1>2. c \in Threads /\ Ticket(c) <= C /\ ~Takes(c)
  BY <1>1 DEF IInv, RoleInv, Holds, Threads, Takes
<1>3. /\ th[c] \in States /\ Cell(th[c].pos) = CellOf(Ticket(c))
      /\ th[c].pos \in 0..(Modulus - 1) /\ CellOf(Ticket(c)) \in 0..(N - 1)
      /\ th \in [Threads -> States]
  BY <1>2, Tickets, Bounds
<1> DEFINE diff == Signed(sequence[Cell(th[c].pos)], Wrap(th[c].pos + 1))
<1>4. \/ diff = 0 /\ th' = [th EXCEPT ![c].pc = "cas"]
      \/ th' = [th EXCEPT ![c] = Idle]
      \/ th' = [th EXCEPT ![c].pc = "pos"]
  BY DEF PopReadSeq, Goto
<1>5. diff = 0 => Seqn(Ticket(c)) = Pos(Ticket(c) + 1)
  <2>1. sequence[Cell(th[c].pos)] \in 0..(Modulus - 1)
    BY <1>3 DEF IInv, TypeOK
  <2>2. th[c].pos + 1 \in Int
    BY <1>3, Sizes
  <2>3. Wrap(th[c].pos + 1) \in 0..(Modulus - 1) /\ Wrap(th[c].pos + 1) = Pos(Ticket(c) + 1)
    BY <1>3, <2>2, WrapType, PosNext, 1 \in Int DEF Ticket
  <2> QED
    BY <1>3, <2>1, <2>3, SignedZero DEF Seqn
<1>6. ASSUME NEW w \in {"cas", "pos"}, th' = [th EXCEPT ![c].pc = w],
             w = "cas" => Seqn(Ticket(c)) = Pos(Ticket(c) + 1)
      PROVE  IInv'
  <2>1. PICK r \in States : th' = [th EXCEPT ![c] = r] /\ r.pc = w /\ Off(r.pos) = Ticket(c)
    <3> DEFINE r == [th[c] EXCEPT !.pc = w]
    <3>1. r \in States /\ r.pc = w /\ r.pos = th[c].pos
      BY <1>3 DEF States
    <3>2. th' = [th EXCEPT ![c] = r]
      BY <1>6
    <3> QED
      BY <3>1, <3>2 DEF Ticket
  <2>2. r.pc \in {"idle", "seq", "pos", "cas"} /\ Off(r.pos) <= C
    BY <1>2, <2>1
  <2>3. ASSUME r.pc = "cas", Off(r.pos) = C PROVE Seqn(C) = Pos(C + 1)
    BY <1>6, <2>1, <2>3
  <2> QED
    BY <1>1, <1>2, <2>1, <2>2, <2>3, PopRegister
<1>7. ASSUME th' = [th EXCEPT ![c] = Idle] PROVE IInv'
  <2>1. Idle \in States /\ Idle.pc = "idle"
    BY Sizes DEF Idle, States
  <2> QED
    BY <1>1, <1>2, <1>7, <2>1, PopRegister
<1> QED
  BY <1>4, <1>5, <1>6, <1>7

(* A successful compare_exchange on m_popPos draws the ticket of the       *)
(* oldest item, which nobody is writing any more.                          *)
LEMMA DrawPop ==
  ASSUME IInv, NEW c \in Consumers, th[c].pc = "cas", popPos = th[c].pos,
         popPos' = Wrap(popPos + 1), popped' = Append(popped, item[Cell(popPos)]),
         Goto(c, "take"), UNCHANGED <<sequence, item, pushPos, pushing>>
  PROVE  /\ c \in Threads /\ Ticket(c) = C /\ C < P
         /\ P' = P /\ C' = C + 1 /\ Cell(popPos) = CellOf(C) /\ ItemOf(C) \in Items
         /\ \A p \in Producers : Fills(p) => Ticket(p) # C
         /\ \A t \in Threads \ {c} : th'[t] = th[t]
         /\ IInv'
<1>1. /\ c \in Threads /\ c \notin Producers
  BY MpmcAssumption DEF Threads
<1>2. /\ th[c] \in States /\ Ticket(c) = C /\ Cell(popPos) = CellOf(C)
  BY <1>1, Tickets, TicketOf
<1>3. /\ C < P /\ Seqn(C) = Pos(C + 1) /\ ItemOf(C) \in Items
      /\ \A p \in Producers : Fills(p) => Ticket(p) # C
  <2>1. Seqn(C) = Pos(C + 1)
    BY <1>2 DEF IInv, TurnInv
  <2> QED
    BY <2>1, Filled
<1>4. /\ \A t \in Threads \ {c} : th'[t] = th[t]
      /\ th'[c] \in States /\ th' \in [Threads -> States]
      /\ th'[c].pc = "take" /\ th'[c].pos = th[c].pos
  <2>1. th'[c] = [th[c] EXCEPT !.pc = "take"] /\ th' = [th EXCEPT ![c] = [th[c] EXCEPT !.pc = "take"]]
    BY <1>1, Bounds DEF Goto
  <2>2. [th[c] EXCEPT !.pc = "take"] \in States
    BY <1>2 DEF States
  <2>3. th'[c].pc = "take" /\ th'[c].pos = th[c].pos
    BY <1>2, <2>1 DEF States
  <2> QED
    BY <1>1, <2>1, <2>2, <2>3, Bounds
<1>5. /\ C' = C + 1 /\ popPos' \in 0..(Modulus - 1) /\ P' = P
      /\ \A n : Seqn(n)' = Seqn(n) /\ ItemOf(n)' = ItemOf(n)
  <2>1. C + 1 < Modulus /\ popPos + 1 \in Int
    <3>1. C \in Int /\ P \in Int /\ C < P /\ 2 * P < Modulus /\ P \in Nat
      BY <1>3, Bounds
    <3>2. popPos \in 0..(Modulus - 1) /\ Modulus \in Nat
      BY Bounds, Sizes
    <3>3. C + 1 < Modulus
      BY <3>1, <3>2
    <3> QED
      BY <3>2, <3>3
  <2>2. Off(Wrap(popPos + 1)) = C + 1
    BY <2>1, Bounds, OffNext DEF C
  <2>3. Wrap(popPos + 1) \in 0..(Modulus - 1)
    BY <2>1, WrapType
  <2> QED
    BY <2>2, <2>3 DEF P, C, Seqn, ItemOf
<1>6. ItemInv'
  BY <1>4, ConsumerItems
<1>7. \A q \in Producers : /\ th'[q] = th[q] /\ Ticket(q)' = Ticket(q)
                           /\ Holds(q)' <=> Holds(q)
                           /\ Fills(q)' <=> Fills(q)
  BY <1>1, <1>4 DEF Holds, Fills, Ticket, Threads
<1>8. \A d \in Consumers : /\ Ticket(d)' = Ticket(d)
                           /\ Takes(d)' <=> Takes(d) \/ d = c
                           /\ Holds(d)' <=> Holds(d) /\ d # c
                           /\ d # c => th'[d] = th[d]
  BY <1>1, <1>4 DEF Takes, Ticket, Threads, Holds
<1>9. TypeOK'
  <2>1. popped \in Seq(Items) /\ item[Cell(popPos)] \in Items
    BY <1>2, <1>3 DEF IInv, TypeOK, ItemOf
  <2>2. popped' \in Seq(Items)
    BY <2>1
  <2> QED
    BY <1>4, <1>5, <2>2 DEF IInv, TypeOK, States
<1>10. RoleInv'
  <2>1. ASSUME NEW d \in Consumers
        PROVE  /\ th'[d].pc \in {"idle", "seq", "pos", "cas", "take", "release"}
               /\ Holds(d)' => Ticket(d)' <= C'
    <3>1. Holds(d) => Ticket(d) <= C + 1
      <4>1. Ticket(d) \in Int /\ (Holds(d) => Ticket(d) <= C)
        BY Tickets DEF IInv, RoleInv, Threads
      <4> QED
        BY <4>1, Bounds
    <3> QED
      BY <1>4, <1>5, <1>8, <3>1 DEF IInv, RoleInv
  <2> QED
    BY <1>5, <1>7, <2>1 DEF IInv, RoleInv
<1>11. FillInv'
  <2>1. ASSUME NEW q \in Producers, Fills(q)
        PROVE  Ticket(q) \in C'..(P' - 1)
    <3>1. Ticket(q) \in C..(P - 1) /\ Ticket(q) # C
      BY <1>3, <2>1 DEF IInv, RingInv, FillInv
    <3> QED
      BY <1>5, <3>1, Bounds
  <2>2. ASSUME NEW n \in C'..(P' - 1)
        PROVE  n \in C..(P - 1)
    BY <1>5, Bounds
  <2> QED
    BY <1>5, <1>7, <2>1, <2>2 DEF IInv, RingInv, FillInv, Seqn, ItemOf
<1>12. TakeInv'
  <2>1. /\ C + N \in Int /\ C + N \in P..((C + 1) + N - 1)
        /\ Seqn(C + N) = Pos(C + 1) /\ ItemOf(C + N) \in Items
    <3>1. CellOf(C + N) = CellOf(C)
      BY Bounds, CellTurn, Zenon
    <3>2. C \in Int /\ P \in Int /\ N \in Nat /\ P <= C + N
      BY Bounds, Sizes
    <3>3. C + N \in Int /\ C + N \in P..((C + 1) + N - 1)
      BY <3>2
    <3> QED
      BY <1>3, <3>1, <3>3 DEF Seqn, ItemOf
  <2>2. ASSUME NEW d \in Consumers, Takes(d)
        PROVE  /\ Ticket(d) # C /\ d # c
               /\ Ticket(d) + N \in P..((C + 1) + N - 1)
               /\ Seqn(Ticket(d) + N) = Pos(Ticket(d) + 1)
               /\ th[d].pc = "take" => ItemOf(Ticket(d) + N) \in Items
    <3>1. /\ Ticket(d) + N \in P..(C + N - 1)
          /\ Seqn(Ticket(d) + N) = Pos(Ticket(d) + 1)
          /\ th[d].pc = "take" => ItemOf(Ticket(d) + N) \in Items
      BY <2>2 DEF IInv, RingInv, TakeInv
    <3>2. PICK n \in Int : n = Ticket(d) + N /\ n \in P..(C + N - 1)
      BY <3>1, Bounds
    <3>3. P \in Int /\ C \in Int /\ N \in Int
      BY Bounds, Sizes
    <3>4. n # C + N /\ n \in P..((C + 1) + N - 1)
      BY <3>2, <3>3
    <3> QED
      BY <1>2, <3>1, <3>2, <3>4
  <2>3. ASSUME NEW d \in Consumers, Takes(d)'
        PROVE  /\ Ticket(d)' + N \in P'..(C' + N - 1)
               /\ Seqn(Ticket(d) + N)' = Pos(Ticket(d)' + 1)
               /\ th'[d].pc = "take" => ItemOf(Ticket(d) + N)' \in Items
    <3>1. CASE d = c
      BY <1>2, <1>5, <1>8, <2>1, <3>1 DEF Seqn, ItemOf
    <3>2. CASE d # c
      BY <1>5, <1>8, <2>2, <2>3, <3>2 DEF Seqn, ItemOf
    <3> QED
      BY <3>1, <3>2
  <2>4. ASSUME NEW d \in Consumers, NEW e \in Consumers, Takes(d)', Takes(e)',
               Ticket(d)' = Ticket(e)'
        PROVE  d = e
    BY <1>2, <1>8, <2>2, <2>4 DEF IInv, RingInv, TakeInv
  <2>5. ASSUME NEW n \in P'..(C' + N - 1)
        PROVE  \/ \E d \in Consumers : Takes(d)' /\ Ticket(d)' + N = n
               \/ Seqn(n)' = Pos(n)
    <3>1. CASE n = C + N
      BY <1>2, <1>8, <3>1
    <3>2. CASE n # C + N
      <4>1. P \in Int /\ C \in Int /\ N \in Int /\ n \in P..((C + 1) + N - 1)
        BY <1>5, Bounds, Sizes
      <4>2. n \in P..(C + N - 1)
        BY <3>2, <4>1
      <4> QED
        BY <1>5, <1>8, <4>2 DEF IInv, RingInv, TakeInv
    <3> QED
      BY <3>1, <3>2
  <2> QED
    BY <2>3, <2>4, <2>5 DEF TakeInv
<1>13. TurnInv'
  <2>1. ASSUME NEW d \in Consumers, th'[d].pc = "cas" PROVE Ticket(d)' # C'
    <3>1. d # c /\ th'[d] = th[d] /\ Holds(d)
      BY <1>4, <1>8, <2>1 DEF Holds
    <3>2. Ticket(d) \in Int /\ Ticket(d) <= C
      BY <3>1, Tickets DEF IInv, RoleInv, Threads
    <3> QED
      BY <1>5, <1>8, <3>2, Bounds
  <2> QED
    BY <1>5, <1>7, <2>1 DEF IInv, TurnInv
<1>14. C' <= P' /\ P' <= C' + N
  <2>1. C \in Int /\ P \in Int /\ N \in Nat /\ P <= C + N
    BY Bounds, Sizes
  <2> QED
    BY <1>3, <1>5, <2>1
<1> QED
  BY <1>1, <1>2, <1>3, <1>4, <1>5, <1>6, <1>9, <1>10, <1>11, <1>12, <1>13, <1>14
     DEF IInv, RingInv

(* try_pop, compare_exchange_weak on m_popPos.                             *)
LEMMA PopClaimKeeps ==
  ASSUME IInv, NEW c \in Consumers, PopClaim(c)
  PROVE  IInv'
<1>1. CASE th' = [th EXCEPT ![c].pc = "seq", ![c].pos = popPos] /\ UNCHANGED <<popPos, popped>>
  BY <1>1, PopAgain DEF PopClaim, Holds
<1>2. CASE /\ popPos = th[c].pos /\ popPos' = Wrap(popPos + 1)
           /\ popped' = Append(popped, item[Cell(popPos)]) /\ Goto(c, "take")
  BY <1>2, DrawPop DEF PopClaim
<1> QED
  BY <1>1, <1>2 DEF PopClaim

-----------------------------------------------------------------------------
(* Steps of a consumer in its cell                                         *)

(* Where a consumer's cell is: no other ticket of the turn has it.         *)
LEMMA TakePlace ==
  ASSUME IInv, NEW c \in Consumers, Takes(c)
  PROVE  /\ c \in Threads /\ c \notin Producers
         /\ Ticket(c) \in Int /\ Ticket(c) + N \in P..(C + N - 1) /\ th[c].pc # "cas" /\ ~Holds(c)
         /\ Cell(th[c].pos) = CellOf(Ticket(c) + N) /\ CellOf(Ticket(c) + N) \in 0..(N - 1)
         /\ \A n \in C..(C + N - 1) : n # Ticket(c) + N =>
              CellOf(n) # CellOf(Ticket(c) + N) /\ CellOf(n) \in 0..(N - 1)
<1>1. c \in Threads /\ c \notin Producers /\ th[c].pc # "cas" /\ ~Holds(c)
  BY MpmcAssumption DEF Threads, Takes, Holds
<1>2. /\ Ticket(c) \in Int /\ Cell(th[c].pos) = CellOf(Ticket(c))
  BY <1>1, Tickets
<1>3. CellOf(Ticket(c) + N) = CellOf(Ticket(c)) /\ CellOf(Ticket(c)) \in 0..(N - 1)
  BY <1>2, CellTurn, Zenon
<1>4. Ticket(c) + N \in P..(C + N - 1)
  BY DEF IInv, RingInv, TakeInv
<1>5. ASSUME NEW n \in C..(C + N - 1), n # Ticket(c) + N
      PROVE  CellOf(n) # CellOf(Ticket(c) + N) /\ CellOf(n) \in 0..(N - 1)
  <2>1. PICK m \in Int : m = Ticket(c) + N
    BY <1>2, Sizes
  <2>2. n \in Int /\ n - m < N /\ m - n < N /\ m # n
    BY <1>4, <1>5, <2>1, Bounds, Sizes
  <2>3. CellOf(n) # CellOf(m) /\ CellOf(n) \in 0..(N - 1)
    BY <2>1, <2>2, CellApart, CellTurn
  <2> QED
    BY <2>1, <2>3
<1> QED
  BY <1>1, <1>2, <1>3, <1>4, <1>5

(* try_pop, moving the item out.                                           *)
LEMMA PopTakeKeeps ==
  ASSUME IInv, NEW c \in Consumers, PopTake(c)
  PROVE  IInv'
<1>1. /\ th[c].pc = "take" /\ item' = [item EXCEPT ![Cell(th[c].pos)] = NoItem]
      /\ th' = [th EXCEPT ![c].pc = "release", ![c].item = item[Cell(th[c].pos)]]
      /\ UNCHANGED <<sequence, pushPos, popPos, popped, pushing>>
  BY DEF PopTake
<1> DEFINE k == Ticket(c) + N
<1>2. /\ Takes(c) /\ c \in Threads /\ c \notin Producers
      /\ k \in P..(C + N - 1) /\ ~Holds(c)
      /\ Cell(th[c].pos) = CellOf(k) /\ CellOf(k) \in 0..(N - 1)
      /\ \A n \in C..(C + N - 1) : n # k => CellOf(n) # CellOf(k) /\ CellOf(n) \in 0..(N - 1)
  <2>1. Takes(c)
    BY <1>1 DEF Takes
  <2> QED
    BY <2>1, TakePlace
<1>3. /\ th' \in [Threads -> States]
      /\ th'[c].pc = "release" /\ th'[c].pos = th[c].pos
      /\ \A t \in Threads \ {c} : th'[t] = th[t]
  <2>1. th[c] \in States /\ item[Cell(th[c].pos)] \in Items \cup {NoItem}
    BY <1>2, Tickets DEF IInv, TypeOK
  <2> DEFINE r == [pc |-> "release", pos |-> th[c].pos, item |-> item[Cell(th[c].pos)]]
  <2>2. r \in States /\ r.pc = "release" /\ r.pos = th[c].pos
    BY <2>1 DEF States
  <2>3. th'[c] = [th[c] EXCEPT !.pc = "release", !.item = item[Cell(th[c].pos)]]
    BY <1>1, <1>2, Bounds
  <2>4. th'[c] = r
    <3>1. th[c] = [pc |-> th[c].pc, pos |-> th[c].pos, item |-> th[c].item]
      BY <2>1 DEF States
    <3> QED
      BY <2>3, <3>1
  <2>5. \A t \in Threads \ {c} : th'[t] = th[t]
    BY <1>1, <1>2, Bounds
  <2>6. th' = [th EXCEPT ![c] = r]
    BY <1>1, <1>2, <2>4, <2>5, Bounds
  <2> HIDE DEF r
  <2>7. th' \in [Threads -> States]
    BY <2>2, <2>6, Bounds
  <2> QED
    BY <2>2, <2>4, <2>5, <2>7
<1>4. \A q \in Producers : /\ th'[q] = th[q] /\ Ticket(q)' = Ticket(q)
                           /\ Holds(q)' <=> Holds(q)
                           /\ Fills(q)' <=> Fills(q)
  BY <1>2, <1>3 DEF Holds, Fills, Ticket, Threads
<1>5. \A d \in Consumers : /\ Ticket(d)' = Ticket(d)
                           /\ Takes(d)' <=> Takes(d)
                           /\ Holds(d)' <=> Holds(d)
                           /\ th'[d].pc = "cas" <=> th[d].pc = "cas"
                           /\ d # c => th'[d] = th[d]
  BY <1>1, <1>2, <1>3 DEF Takes, Ticket, Threads, Holds
<1>6. /\ P' = P /\ C' = C /\ \A n : Seqn(n)' = Seqn(n)
  BY <1>1 DEF P, C, Seqn
<1>7. \A n \in C..(C + N - 1) : n # k => item'[CellOf(n)] = ItemOf(n)
  BY <1>1, <1>2 DEF IInv, TypeOK, ItemOf
<1>8. /\ \A n \in C..(P - 1) : n \in C..(C + N - 1) /\ n # k
      /\ \A n \in P..(C + N - 1) : n \in C..(C + N - 1)
  BY <1>2, Bounds, Sizes
<1> HIDE DEF k
<1>9. TypeOK'
  <2>1. item' \in [0..(N - 1) -> Items \cup {NoItem}]
    BY <1>1 DEF IInv, TypeOK
  <2> QED
    BY <1>1, <1>3, <2>1 DEF IInv, TypeOK, States
<1>10. RoleInv'
  BY <1>3, <1>4, <1>5, <1>6 DEF IInv, RoleInv
<1>11. ItemInv'
  BY <1>1, <1>3, ConsumerItems
<1>12. FillInv'
  <2>1. ASSUME NEW q \in Producers, Fills(q)
        PROVE  item'[CellOf(Ticket(q))] = ItemOf(Ticket(q))
    <3>1. Ticket(q) \in C..(P - 1)
      BY <2>1 DEF IInv, RingInv, FillInv
    <3> QED
      BY <1>7, <1>8, <3>1
  <2>2. \A n \in C..(P - 1) : item'[CellOf(n)] = ItemOf(n)
    BY <1>7, <1>8
  <2> QED
    BY <1>4, <1>6, <2>1, <2>2 DEF IInv, RingInv, FillInv, Seqn, ItemOf
<1>13. TakeInv'
  <2>1. ASSUME NEW d \in Consumers, Takes(d)
        PROVE  /\ Ticket(d) + N \in P..(C + N - 1)
               /\ Seqn(Ticket(d) + N) = Pos(Ticket(d) + 1)
               /\ th'[d].pc = "take" => item'[CellOf(Ticket(d) + N)] \in Items
    <3>1. /\ Ticket(d) + N \in P..(C + N - 1) /\ Seqn(Ticket(d) + N) = Pos(Ticket(d) + 1)
          /\ th[d].pc = "take" => ItemOf(Ticket(d) + N) \in Items
      BY <2>1 DEF IInv, RingInv, TakeInv
    <3>2. CASE d = c
      BY <1>3, <3>1, <3>2
    <3>3. CASE d # c
      <4>1. Ticket(d) # Ticket(c)
        BY <1>2, <2>1, <3>3 DEF IInv, RingInv, TakeInv
      <4>2. Ticket(d) \in Int /\ Ticket(c) \in Int
        BY <1>2, Tickets DEF Threads
      <4>3. Ticket(d) + N # k
        BY <4>1, <4>2, Sizes DEF k
      <4>4. item'[CellOf(Ticket(d) + N)] = ItemOf(Ticket(d) + N)
        BY <1>7, <1>8, <3>1, <4>3
      <4> QED
        BY <1>5, <3>1, <3>3, <4>4
    <3> QED
      BY <3>2, <3>3
  <2> QED
    BY <1>5, <1>6, <2>1 DEF IInv, RingInv, TakeInv, Seqn, ItemOf
<1>14. TurnInv'
  BY <1>4, <1>5, <1>6 DEF IInv, TurnInv
<1> QED
  BY <1>6, <1>9, <1>10, <1>11, <1>12, <1>13, <1>14 DEF IInv, RingInv

(* try_pop, storing the sequence number: the cell may be filled again.     *)
LEMMA PopReleaseKeeps ==
  ASSUME IInv, NEW c \in Consumers, PopRelease(c)
  PROVE  IInv'
<1>1. /\ th[c].pc = "release"
      /\ sequence' = [sequence EXCEPT ![Cell(th[c].pos)] = Wrap(th[c].pos + N)]
      /\ th' = [th EXCEPT ![c] = Idle]
      /\ UNCHANGED <<item, pushPos, popPos, popped, pushing>>
  BY DEF PopRelease
<1> DEFINE k == Ticket(c) + N
<1>2. /\ Takes(c) /\ c \in Threads /\ c \notin Producers
      /\ k \in P..(C + N - 1) /\ ~Holds(c)
      /\ Cell(th[c].pos) = CellOf(k) /\ CellOf(k) \in 0..(N - 1)
      /\ \A n \in C..(C + N - 1) : n # k => CellOf(n) # CellOf(k) /\ CellOf(n) \in 0..(N - 1)
  <2>1. Takes(c)
    BY <1>1 DEF Takes
  <2> QED
    BY <2>1, TakePlace
<1>3. /\ Idle \in States /\ Idle.pc = "idle" /\ th'[c] = Idle
      /\ \A t \in Threads \ {c} : th'[t] = th[t]
      /\ th' \in [Threads -> States]
  BY <1>1, <1>2, Sizes, Bounds DEF Idle, States
<1>4. \A q \in Producers : /\ th'[q] = th[q] /\ Ticket(q)' = Ticket(q)
                           /\ Holds(q)' <=> Holds(q)
                           /\ Fills(q)' <=> Fills(q)
  BY <1>2, <1>3 DEF Holds, Fills, Ticket, Threads
<1>5. \A d \in Consumers : /\ Takes(d)' <=> Takes(d) /\ d # c
                           /\ Holds(d)' <=> Holds(d)
                           /\ th'[d].pc = "cas" <=> th[d].pc = "cas"
                           /\ d # c => th'[d] = th[d] /\ Ticket(d)' = Ticket(d)
  BY <1>1, <1>2, <1>3 DEF Takes, Ticket, Threads, Holds
<1>6. /\ P' = P /\ C' = C /\ \A n : ItemOf(n)' = ItemOf(n)
  BY <1>1 DEF P, C, ItemOf
<1>7. Wrap(th[c].pos + N) = Pos(k) /\ Wrap(th[c].pos + N) \in 0..(Modulus - 1)
  <2>1. th[c].pos \in 0..(Modulus - 1) /\ N \in Int
    BY <1>2, Tickets, Sizes
  <2>2. th[c].pos + N \in Int
    BY <2>1, Sizes
  <2> QED
    BY <2>1, <2>2, PosNext, WrapType DEF Ticket
<1>8. /\ sequence'[CellOf(k)] = Pos(k)
      /\ \A n \in C..(C + N - 1) : n # k => sequence'[CellOf(n)] = Seqn(n)
      /\ sequence' \in [0..(N - 1) -> 0..(Modulus - 1)]
  BY <1>1, <1>2, <1>7 DEF IInv, TypeOK, Seqn
<1>9. /\ \A n \in C..(P - 1) : n \in C..(C + N - 1) /\ n # k
      /\ \A n \in P..(C + N - 1) : n \in C..(C + N - 1)
  BY <1>2, Bounds, Sizes
<1> HIDE DEF k
<1>10. TypeOK'
  BY <1>1, <1>3, <1>8 DEF IInv, TypeOK, States
<1>11. RoleInv'
  BY <1>2, <1>3, <1>4, <1>5, <1>6 DEF IInv, RoleInv, Holds
<1>12. ItemInv'
  BY <1>1, <1>3, ConsumerItems
<1>13. FillInv'
  <2>1. ASSUME NEW q \in Producers, Fills(q)
        PROVE  sequence'[CellOf(Ticket(q))] = Seqn(Ticket(q))
    <3>1. Ticket(q) \in C..(P - 1)
      BY <2>1 DEF IInv, RingInv, FillInv
    <3> QED
      BY <1>8, <1>9, <3>1
  <2>2. \A n \in C..(P - 1) : sequence'[CellOf(n)] = Seqn(n)
    BY <1>8, <1>9
  <2> QED
    BY <1>4, <1>6, <2>1, <2>2 DEF IInv, RingInv, FillInv, Seqn, ItemOf
<1>14. TakeInv'
  <2>1. ASSUME NEW d \in Consumers, Takes(d), d # c
        PROVE  /\ Ticket(d) + N \in P..(C + N - 1)
               /\ sequence'[CellOf(Ticket(d) + N)] = Pos(Ticket(d) + 1)
               /\ th[d].pc = "take" => ItemOf(Ticket(d) + N) \in Items
    <3>1. /\ Ticket(d) + N \in P..(C + N - 1) /\ Seqn(Ticket(d) + N) = Pos(Ticket(d) + 1)
          /\ th[d].pc = "take" => ItemOf(Ticket(d) + N) \in Items
          /\ Ticket(d) # Ticket(c)
      BY <1>2, <2>1 DEF IInv, RingInv, TakeInv
    <3>2. Ticket(d) \in Int /\ Ticket(c) \in Int
      BY <1>2, Tickets DEF Threads
    <3>3. Ticket(d) + N # k
      BY <3>1, <3>2, Sizes DEF k
    <3> QED
      BY <1>8, <1>9, <3>1, <3>3
  <2>2. ASSUME NEW n \in P..(C + N - 1)
        PROVE  \/ \E d \in Consumers : Takes(d) /\ d # c /\ Ticket(d) + N = n
               \/ sequence'[CellOf(n)] = Pos(n)
    <3>1. CASE n = k
      BY <1>8, <3>1
    <3>2. CASE n # k
      <4>1. \/ \E d \in Consumers : Takes(d) /\ Ticket(d) + N = n
            \/ Seqn(n) = Pos(n)
        BY DEF IInv, RingInv, TakeInv
      <4>2. sequence'[CellOf(n)] = Seqn(n)
        BY <1>8, <1>9, <3>2
      <4> QED
        BY <3>2, <4>1, <4>2 DEF k
    <3> QED
      BY <3>1, <3>2
  <2> QED
    BY <1>5, <1>6, <2>1, <2>2 DEF IInv, RingInv, TakeInv, Seqn, ItemOf
<1>15. TurnInv'
  <2>1. ASSUME NEW q \in Producers, th[q].pc = "cas", Ticket(q) = P
        PROVE  sequence'[CellOf(P)] = Pos(P)
    <3>1. Seqn(P) = Pos(P)
      BY <2>1 DEF IInv, TurnInv
    <3>2. P < C + N /\ P # k
      BY <1>2, <3>1, Room DEF k
    <3>3. P \in P..(C + N - 1)
      BY <3>2, Bounds, Sizes
    <3> QED
      BY <1>8, <1>9, <3>1, <3>2, <3>3
  <2>2. ASSUME NEW d \in Consumers, th[d].pc = "cas", Ticket(d) = C
        PROVE  sequence'[CellOf(C)] = Pos(C + 1)
    <3>1. Seqn(C) = Pos(C + 1)
      BY <2>2 DEF IInv, TurnInv
    <3>2. C < P
      BY <3>1, Filled
    <3>3. C \in C..(P - 1)
      BY <3>2, Bounds
    <3> QED
      BY <1>8, <1>9, <3>1, <3>3
  <2>3. \A d \in Consumers : th'[d].pc = "cas" => th[d].pc = "cas" /\ Ticket(d)' = Ticket(d)
    BY <1>3, <1>5
  <2> QED
    BY <1>4, <1>6, <2>1, <2>2, <2>3 DEF TurnInv, Seqn
<1> QED
  BY <1>6, <1>10, <1>11, <1>12, <1>13, <1>14, <1>15 DEF IInv, RingInv

-----------------------------------------------------------------------------
(* The invariant                                                           *)

(* An empty queue: every cell waits for the producer of the first turn.    *)
LEMMA InitInv == Init => IInv
<1> SUFFICES ASSUME Init PROVE IInv
  OBVIOUS
<1>1. /\ sequence = [i \in 0..(N - 1) |-> Wrap(Start + i)]
      /\ item = [i \in 0..(N - 1) |-> NoItem]
      /\ pushPos = Start /\ popPos = Start
      /\ th = [t \in Threads |-> Idle] /\ popped = <<>> /\ pushing = {}
  BY DEF Init
<1>2. Idle \in States /\ Idle.pc = "idle"
  BY Sizes DEF Idle, States
<1>3. P = 0 /\ C = 0
  <2>1. Start - Start = 0 /\ 0 \in 0..(Modulus - 1)
    BY Sizes
  <2>2. Wrap(0) = 0
    BY <2>1, Sizes, ModSmall, Zenon DEF Wrap
  <2> QED
    BY <1>1, <2>1, <2>2 DEF P, C, Off
<1>4. TypeOK
  <2>1. \A i \in 0..(N - 1) : Start + i \in Int
    BY Sizes
  <2>2. \A i \in 0..(N - 1) : Wrap(Start + i) \in 0..(Modulus - 1)
    BY <2>1, WrapType
  <2>3. popped \in Seq(Items)
    BY <1>1
  <2> QED
    BY <1>1, <1>2, <2>2, <2>3, Sizes DEF TypeOK, States
<1>5. \A t \in Threads : th[t].pc = "idle"
  BY <1>1, <1>2
<1>6. /\ \A p \in Producers : th[p].pc = "idle" /\ ~Holds(p) /\ ~Fills(p)
      /\ \A c \in Consumers : th[c].pc = "idle" /\ ~Holds(c) /\ ~Takes(c)
  BY <1>5 DEF Threads, Holds, Fills, Takes
<1>7. P = Cardinality(Pushed)
  <2>1. Pushed = {}
    BY <1>1 DEF Pushed
  <2> QED
    BY <1>3, <2>1, FS_EmptySet
<1>8. \A n \in 0..(N - 1) : Seqn(n) = Pos(n)
  <2>1. ASSUME NEW n \in 0..(N - 1) PROVE Seqn(n) = Pos(n)
    <3>1. PICK m \in Int : m = Start + n
      BY Sizes
    <3>2. Cell(m) = n
      <4>1. n % N = n
        BY Sizes, ModSmall, Zenon
      <4>2. PICK q \in Int : Start = N * q /\ n \in Int
        <5>1. Start = N * (Start \div N) + (Start % N) /\ Start \div N \in Int
          BY Sizes, DivMod
        <5>2. Start % N = 0 /\ N * (Start \div N) \in Int
          BY MpmcAssumption, Sizes, DivMod
        <5>3. Start = N * (Start \div N)
          BY <5>1, <5>2
        <5> QED
          BY <5>1, <5>3
      <4>3. m = N * q + n
        BY <3>1, <4>2
      <4> QED
        BY <4>2, <4>3, Sizes, ModUnique, Zenon DEF Cell
    <3> QED
      BY <1>1, <3>1, <3>2 DEF Seqn, CellOf, Pos
  <2> QED
    BY <2>1
<1>9. RingInv
  <2>1. C <= P /\ P <= C + N
    BY <1>3, Sizes
  <2>2. C..(P - 1) = {} /\ P..(C + N - 1) = 0..(N - 1)
    BY <1>3, Sizes
  <2> QED
    BY <1>6, <1>8, <2>1, <2>2 DEF RingInv, FillInv, TakeInv
<1>10. RoleInv /\ TurnInv
  BY <1>6 DEF RoleInv, TurnInv
<1>11. ItemInv
  BY <1>6, <1>7 DEF ItemInv
<1> QED
  BY <1>4, <1>9, <1>10, <1>11 DEF IInv

(* Every step of the producers and of the consumers.                       *)
LEMMA NextKeeps == IInv /\ [Next]_vars => IInv'
<1> SUFFICES ASSUME IInv, [Next]_vars PROVE IInv'
  OBVIOUS
<1>1. CASE UNCHANGED vars
  <2>1. UNCHANGED <<sequence, item, pushPos, popPos, th, popped, pushing>>
    BY <1>1 DEF vars
  <2>2. TypeOK'
    BY <2>1 DEF IInv, TypeOK
  <2>3. /\ P' = P /\ C' = C /\ Pushed' = Pushed
        /\ \A t : th'[t] = th[t] /\ Ticket(t)' = Ticket(t)
        /\ \A t : (Holds(t)' <=> Holds(t)) /\ (Fills(t)' <=> Fills(t)) /\ (Takes(t)' <=> Takes(t))
        /\ \A n : Seqn(n)' = Seqn(n) /\ ItemOf(n)' = ItemOf(n)
    BY <2>1 DEF P, C, Pushed, Ticket, Holds, Fills, Takes, Seqn, ItemOf
  <2>4. RoleInv' /\ ItemInv' /\ TurnInv'
    BY <2>1, <2>3 DEF IInv, RoleInv, ItemInv, TurnInv
  <2>5. FillInv' /\ TakeInv'
    BY <2>1, <2>3 DEF IInv, RingInv, FillInv, TakeInv, Seqn, ItemOf
  <2> QED
    BY <2>2, <2>3, <2>4, <2>5 DEF IInv, RingInv
<1>2. ASSUME NEW p \in Producers, Producer(p) PROVE IInv'
  <2>1. ASSUME NEW x \in Items, PushReadPos(p, x) PROVE IInv'
    BY <2>1, PushReadPosKeeps
  <2> QED
    BY <1>2, <2>1, PushReadSeqKeeps, PushRereadPosKeeps, PushClaimKeeps, PushFillKeeps,
       PushPublishKeeps DEF Producer
<1>3. ASSUME NEW c \in Consumers, Consumer(c) PROVE IInv'
  BY <1>3, PopReadPosKeeps, PopReadSeqKeeps, PopRereadPosKeeps, PopClaimKeeps, PopTakeKeeps,
     PopReleaseKeeps DEF Consumer
<1> QED
  BY <1>1, <1>2, <1>3 DEF Next

(* The invariant of the queue.                                             *)
LEMMA Invariant == Spec => []IInv
  BY InitInv, NextKeeps, PTL DEF Spec

(* Positions and sequence numbers stay 32-bit values, registers hold items *)
(* or none, and what is handed out are items.                              *)
THEOREM TypeCorrect == Spec => []TypeOK
<1>1. IInv => TypeOK
  BY DEF IInv
<1> QED
  BY <1>1, Invariant, PTL

(* Two threads that own a cell own different ones.                         *)
LEMMA OwnersApart == IInv => ExclusiveCell
<1> SUFFICES ASSUME IInv, NEW t \in Threads, NEW u \in Threads, t # u,
                    th[t].pc \in {"fill", "publish", "take", "release"},
                    th[u].pc \in {"fill", "publish", "take", "release"}
             PROVE  Cell(th[t].pos) # Cell(th[u].pos)
  BY DEF ExclusiveCell
<1> DEFINE slot(v) == IF v \in Producers THEN Ticket(v) ELSE Ticket(v) + N
<1>1. ASSUME NEW v \in Threads, th[v].pc \in {"fill", "publish", "take", "release"}
      PROVE  \/ v \in Producers /\ v \notin Consumers /\ Fills(v)
             \/ v \in Consumers /\ v \notin Producers /\ Takes(v)
  BY <1>1, MpmcAssumption DEF IInv, RoleInv, Threads, Fills, Takes
<1>2. ASSUME NEW v \in Threads, th[v].pc \in {"fill", "publish", "take", "release"}
      PROVE  /\ v \in Producers => slot(v) \in C..(P - 1)
             /\ v \notin Producers => slot(v) \in P..(C + N - 1)
             /\ slot(v) \in C..(C + N - 1)
             /\ Cell(th[v].pos) = CellOf(slot(v))
             /\ \A n \in C..(C + N - 1) : n # slot(v) => CellOf(n) # CellOf(slot(v))
  <2>1. CASE v \in Producers /\ v \notin Consumers /\ Fills(v)
    <3>1. /\ Ticket(v) \in C..(P - 1) /\ Cell(th[v].pos) = CellOf(Ticket(v))
          /\ \A n \in C..(C + N - 1) : n # Ticket(v) => CellOf(n) # CellOf(Ticket(v))
      BY <2>1, FillPlace
    <3>2. Ticket(v) \in C..(C + N - 1)
      BY <3>1, Bounds, Sizes
    <3> QED
      BY <2>1, <3>1, <3>2
  <2>2. CASE v \in Consumers /\ v \notin Producers /\ Takes(v)
    <3>1. /\ Ticket(v) + N \in P..(C + N - 1) /\ Cell(th[v].pos) = CellOf(Ticket(v) + N)
          /\ \A n \in C..(C + N - 1) : n # Ticket(v) + N => CellOf(n) # CellOf(Ticket(v) + N)
      BY <2>2, TakePlace
    <3>2. Ticket(v) + N \in C..(C + N - 1)
      BY <3>1, Bounds, Sizes
    <3> QED
      BY <2>2, <3>1, <3>2
  <2> QED
    BY <1>1, <1>2, <2>1, <2>2
<1>3. slot(t) # slot(u)
  <2>1. CASE t \in Producers /\ u \in Producers
    <3>1. Fills(t) /\ Fills(u)
      BY <1>1, <2>1
    <3> QED
      BY <2>1, <3>1 DEF IInv, RingInv, FillInv
  <2>2. CASE t \notin Producers /\ u \notin Producers
    <3>1. t \in Consumers /\ u \in Consumers /\ Takes(t) /\ Takes(u)
      BY <1>1, <2>2
    <3>2. Ticket(t) # Ticket(u)
      BY <3>1 DEF IInv, RingInv, TakeInv
    <3>3. Ticket(t) \in Int /\ Ticket(u) \in Int
      BY Tickets
    <3> QED
      BY <2>2, <3>2, <3>3, Sizes
  <2>3. CASE (t \in Producers) # (u \in Producers)
    <3>1. C \in Int /\ P \in Int
      BY Bounds
    <3> HIDE DEF slot
    <3> QED
      BY <1>2, <2>3, <3>1, Sizes
  <2> QED
    BY <2>1, <2>2, <2>3
<1> HIDE DEF slot
<1> QED
  BY <1>2, <1>3

(* However far a producer laps a slow consumer, the plain accesses to the  *)
(* item of a cell never race.                                              *)
THEOREM CellsExclusive == Spec => []ExclusiveCell
  BY OwnersApart, Invariant, PTL

-----------------------------------------------------------------------------
(* The queue implements the atomic bounded FIFO                            *)

(* The queued item of ticket n.                                            *)
Nth(n) == Queued[(n - C) + 1]

(* A producer on its way from its ticket to its cell.                      *)
Filling(p) == th[p].pc = "fill"

(* The sequence of module MpmcQueue by tickets: an item is with its        *)
(* producer until it is in its cell.                                       *)
QueuedView ==
  /\ P \in Nat /\ C \in Nat /\ C <= P /\ P <= C + N
  /\ Queued \in Seq(Items) /\ Len(Queued) = P - C
  /\ \A p \in Producers : Filling(p) => /\ Ticket(p) \in C..(P - 1)
                                        /\ Nth(Ticket(p)) = th[p].item
  /\ \A n \in C..(P - 1) :
       (\A p \in Producers : Filling(p) => Ticket(p) # n) => Nth(n) = ItemOf(n)

(* What is queued for a ticket, and that it is an item.                    *)
LEMMA TicketItem ==
  ASSUME IInv, NEW n \in C..(P - 1)
  PROVE  /\ AtTicket(Pos(n)) \in Items
         /\ \A p \in Producers : Filling(p) /\ Ticket(p) = n => AtTicket(Pos(n)) = th[p].item
         /\ (\A p \in Producers : Filling(p) => Ticket(p) # n) => AtTicket(Pos(n)) = ItemOf(n)
<1>1. \A p \in Producers : Filling(p) => Fills(p) /\ p \in Threads
  BY DEF Filling, Fills, Threads
<1>2. ASSUME NEW p \in Producers, Filling(p) PROVE th[p].pos = Pos(n) <=> Ticket(p) = n
  <2>1. p \in Threads /\ Fills(p)
    BY <1>1, <1>2
  <2>2. Ticket(p) \in C..(P - 1) /\ th[p].pos = Pos(Ticket(p)) /\ Ticket(p) \in Int
    BY <2>1, Tickets DEF IInv, RingInv, FillInv
  <2>3. ASSUME Ticket(p) # n PROVE Pos(Ticket(p)) # Pos(n)
    <3>1. PICK m \in Int, k \in Int : /\ m = Ticket(p) /\ k = n /\ m # k
                                     /\ m - k < Modulus /\ k - m < Modulus
      BY <2>2, <2>3, Bounds, Sizes
    <3> QED
      BY <3>1, PosApart
  <2> QED
    BY <2>2, <2>3
<1> DEFINE filling == {p \in Producers : th[p].pc = "fill" /\ th[p].pos = Pos(n)}
<1>3. AtTicket(Pos(n)) = IF filling # {} THEN th[CHOOSE p \in filling : TRUE].item
                                         ELSE item[Cell(Pos(n))]
  BY DEF AtTicket
<1>4. filling = {p \in Producers : Filling(p) /\ Ticket(p) = n}
  BY <1>2 DEF Filling
<1> HIDE DEF filling
<1>5. item[Cell(Pos(n))] = ItemOf(n)
  <2>1. Start + n \in Int
    BY Bounds, Sizes
  <2>2. Cell(Wrap(Start + n)) = Cell(Start + n)
    BY <2>1, Sizes, ModOfMod, Zenon DEF Cell, Wrap
  <2> QED
    BY <2>2 DEF Pos, ItemOf, CellOf
<1>6. ASSUME filling = {} PROVE ItemOf(n) \in Items
  <2>1. \/ \E p \in Producers : Fills(p) /\ Ticket(p) = n
        \/ ItemOf(n) \in Items
    BY DEF IInv, RingInv, FillInv
  <2>2. ASSUME NEW p \in Producers, Fills(p), Ticket(p) = n PROVE ItemOf(n) \in Items
    <3>1. th[p].pc = "publish"
      BY <1>4, <1>6, <2>2 DEF Fills, Filling
    <3> QED
      BY <2>2, <3>1 DEF IInv, RingInv, FillInv, ItemInv
  <2> QED
    BY <2>1, <2>2
<1>7. ASSUME NEW p \in Producers, Filling(p), Ticket(p) = n
      PROVE  AtTicket(Pos(n)) = th[p].item /\ th[p].item \in Items
  <2>1. \A q \in filling : q = p
    BY <1>1, <1>4, <1>7 DEF IInv, RingInv, FillInv
  <2>2. p \in filling
    BY <1>4, <1>7
  <2>3. (CHOOSE q \in filling : TRUE) = p
    BY <2>1, <2>2
  <2>4. th[p].item \in Items
    BY <1>1, <1>7 DEF IInv, ItemInv
  <2> QED
    BY <1>3, <2>2, <2>3, <2>4
<1>8. ASSUME \A p \in Producers : Filling(p) => Ticket(p) # n
      PROVE  AtTicket(Pos(n)) = ItemOf(n) /\ ItemOf(n) \in Items
  <2>1. filling = {}
    BY <1>4, <1>8
  <2> QED
    BY <1>3, <1>5, <1>6, <2>1
<1> QED
  BY <1>7, <1>8

(* The sequence can be read off in every reachable state.                  *)
LEMMA QueuedViewAlways == IInv => QueuedView
<1> SUFFICES ASSUME IInv PROVE QueuedView
  OBVIOUS
<1>1. P \in Nat /\ C \in Nat /\ C <= P /\ P <= C + N /\ P < Modulus
  BY Bounds, Sizes
<1> DEFINE len == P - C
<1>2. len \in Nat /\ len \in Int /\ len \in 0..(Modulus - 1)
  BY <1>1, Sizes
<1>3. Wrap(pushPos - popPos) = len
  <2>1. pushPos = Wrap(popPos + len)
    <3>1. Wrap(popPos + len) = Pos(C + len)
      BY <1>2, Bounds, PosNext, Zenon DEF C
    <3>2. C + len = P
      BY <1>1
    <3> QED
      BY <3>1, <3>2, Bounds
  <2>2. popPos \in Int /\ popPos + len \in Int /\ -popPos \in Int
    BY <1>2, Bounds, Sizes
  <2>3. Wrap(Wrap(popPos + len) + (-popPos)) = Wrap((popPos + len) + (-popPos))
    BY <2>2, Sizes, ModAdd, Zenon DEF Wrap
  <2>4. (popPos + len) + (-popPos) = len /\ pushPos + (-popPos) = pushPos - popPos
    BY <1>2, <2>2, Bounds, Sizes
  <2>5. Wrap(len) = len
    BY <1>2, Sizes, ModSmall, Zenon DEF Wrap
  <2> QED
    BY <2>1, <2>3, <2>4, <2>5
<1>4. ASSUME NEW i \in 1..len
      PROVE  /\ C + (i - 1) \in C..(P - 1) /\ Wrap(popPos + i - 1) = Pos(C + (i - 1))
  <2>1. i - 1 \in Int /\ C + (i - 1) \in C..(P - 1)
    BY <1>1
  <2>2. Wrap(popPos + (i - 1)) = Pos(C + (i - 1))
    BY <2>1, Bounds, PosNext, Zenon DEF C
  <2>3. popPos + (i - 1) = popPos + i - 1
    <3>1. popPos \in Int /\ i \in Int
      BY Bounds, Sizes, <1>2
    <3> QED
      BY <3>1
  <2> QED
    BY <2>1, <2>2, <2>3
<1>5. /\ Queued \in [1..len -> Items]
      /\ \A i \in 1..len : Queued[i] = AtTicket(Pos(C + (i - 1)))
  <2>1. Queued = [i \in 1..len |-> AtTicket(Wrap(popPos + i - 1))]
    BY <1>3, Zenon DEF Queued
  <2>2. \A i \in 1..len : AtTicket(Wrap(popPos + i - 1)) \in Items
    BY <1>4, TicketItem
  <2>3. Queued \in [1..len -> Items]
    BY <2>1, <2>2
  <2>4. \A i \in 1..len : Queued[i] = AtTicket(Wrap(popPos + i - 1))
    BY <2>1
  <2> QED
    BY <1>4, <2>3, <2>4
<1>6. Queued \in Seq(Items) /\ Len(Queued) = len
  <2>1. Queued \in Seq(Items) /\ DOMAIN Queued = 1..len
    BY <1>2, <1>5, SeqDef
  <2>2. Len(Queued) \in Nat /\ DOMAIN Queued = 1..Len(Queued)
    BY <2>1, LenProperties, Zenon
  <2>3. Len(Queued) = len
    BY <1>2, <2>1, <2>2
  <2> QED
    BY <2>1, <2>3
<1>7. \A n \in C..(P - 1) : Nth(n) = AtTicket(Pos(n))
  <2>1. ASSUME NEW n \in C..(P - 1) PROVE Nth(n) = AtTicket(Pos(n))
    <3>1. (n - C) + 1 \in 1..len /\ C + (((n - C) + 1) - 1) = n
      BY <1>1
    <3> QED
      BY <1>5, <3>1 DEF Nth
  <2> QED
    BY <2>1
<1>8. \A p \in Producers : Filling(p) => /\ Ticket(p) \in C..(P - 1)
                                        /\ Nth(Ticket(p)) = th[p].item
  <2>1. \A p \in Producers : Filling(p) => Ticket(p) \in C..(P - 1)
    BY DEF IInv, RingInv, FillInv, Fills, Filling
  <2> QED
    BY <1>7, <2>1, TicketItem
<1>9. \A n \in C..(P - 1) :
        (\A p \in Producers : Filling(p) => Ticket(p) # n) => Nth(n) = ItemOf(n)
  BY <1>7, TicketItem
<1> QED
  BY <1>1, <1>6, <1>8, <1>9 DEF QueuedView

(* Items that stay where they are, with their producer or in their cell,   *)
(* stay queued.                                                            *)
LEMMA Stays ==
  ASSUME QueuedView, QueuedView', NEW n \in C..(P - 1), n \in C'..(P' - 1),
         \A p \in Producers : Ticket(p) = n \/ Ticket(p)' = n =>
           (Filling(p)' <=> Filling(p)) /\ (Filling(p) => th'[p] = th[p]),
         item'[CellOf(n)] = ItemOf(n)
  PROVE  Nth(n)' = Nth(n)
<1>1. ASSUME NEW p \in Producers, Filling(p), Ticket(p) = n PROVE Nth(n)' = Nth(n)
  <2>1. Filling(p)' /\ th'[p] = th[p] /\ Ticket(p)' = Ticket(p)
    BY <1>1 DEF Ticket
  <2>2. Nth(Ticket(p)) = th[p].item /\ Nth(Ticket(p))' = th'[p].item
    BY <1>1, <2>1 DEF QueuedView
  <2>3. Nth(Ticket(p))' = Nth(n)'
    BY <1>1, <2>1 DEF Nth
  <2> QED
    BY <1>1, <2>1, <2>2, <2>3
<1>2. ASSUME \A p \in Producers : Filling(p) => Ticket(p) # n PROVE Nth(n)' = Nth(n)
  <2>1. \A p \in Producers : Filling(p)' => Ticket(p)' # n
    BY <1>2 DEF Ticket
  <2>2. Nth(n)' = ItemOf(n)' /\ Nth(n) = ItemOf(n)
    BY <1>2, <2>1 DEF QueuedView
  <2> QED
    BY <2>2 DEF ItemOf
<1> QED
  BY <1>1, <1>2

(* Then the sequence is the same if no ticket is drawn.                    *)
LEMMA SameSequence ==
  ASSUME QueuedView, QueuedView', P' = P, C' = C, \A n \in C..(P - 1) : Nth(n)' = Nth(n)
  PROVE  Queued' = Queued
<1>1. /\ P \in Nat /\ C \in Nat /\ C <= P /\ Queued \in Seq(Items) /\ Len(Queued) = P - C
      /\ Queued' \in Seq(Items) /\ Len(Queued') = P - C
  BY DEF QueuedView
<1>2. ASSUME NEW i \in 1..(P - C) PROVE Queued'[i] = Queued[i]
  <2>1. PICK n \in C..(P - 1) : (n - C) + 1 = i
    <3>1. C + (i - 1) \in C..(P - 1) /\ ((C + (i - 1)) - C) + 1 = i
      BY <1>1
    <3> QED
      BY <3>1
  <2>2. Nth(n)' = Nth(n)
    OBVIOUS
  <2> QED
    BY <2>1, <2>2 DEF Nth
<1> QED
  BY <1>1, <1>2, SeqEqual

(* Steps that neither draw a ticket nor reach a queued item are invisible. *)
LEMMA Invisible ==
  ASSUME QueuedView, QueuedView', UNCHANGED <<pushPos, popPos, popped>>,
         \A p \in Producers : (Filling(p)' <=> Filling(p)) /\ (Filling(p) => th'[p] = th[p]),
         \A n \in C..(P - 1) : item'[CellOf(n)] = ItemOf(n)
  PROVE  UNCHANGED Abstract!avars
<1>1. P' = P /\ C' = C
  BY DEF P, C
<1>2. \A n \in C..(P - 1) : Nth(n)' = Nth(n)
  BY <1>1, Stays
<1>3. Queued' = Queued
  BY <1>1, <1>2, SameSequence
<1> QED
  BY <1>3 DEF Abstract!avars

(* Steps that only move the registers of a thread that fills no cell.      *)
LEMMA RegistersInvisible ==
  ASSUME IInv, QueuedView, QueuedView', UNCHANGED <<item, pushPos, popPos, popped>>,
         NEW t \in Threads, \A u \in Threads \ {t} : th'[u] = th[u],
         ~Filling(t), ~Filling(t)'
  PROVE  UNCHANGED Abstract!avars
<1>1. \A p \in Producers : (Filling(p)' <=> Filling(p)) /\ (Filling(p) => th'[p] = th[p])
  BY DEF Filling, Threads
<1>2. \A n \in C..(P - 1) : item'[CellOf(n)] = ItemOf(n)
  BY DEF ItemOf
<1> QED
  BY <1>1, <1>2, Invisible

(* Drawing a producer's ticket appends its item.                           *)
LEMMA DrawIsPush ==
  ASSUME IInv, QueuedView, QueuedView', NEW p \in Producers, th[p].pc = "cas",
         pushPos = th[p].pos, pushPos' = Wrap(pushPos + 1), Goto(p, "fill"),
         UNCHANGED <<sequence, item, popPos, popped, pushing>>
  PROVE  \E x \in Items : Abstract!Push(x)
<1> DEFINE x == th[p].item
<1>1. /\ Ticket(p) = P /\ P < C + N /\ P' = P + 1 /\ C' = C /\ x \in Items
      /\ \A t \in Threads \ {p} : th'[t] = th[t]
      /\ th'[p].pc = "fill" /\ th'[p].pos = th[p].pos /\ th'[p].item = x
  BY DrawPush
<1>2. /\ P \in Nat /\ C \in Nat /\ C <= P /\ Queued \in Seq(Items) /\ Len(Queued) = P - C
      /\ Queued' \in Seq(Items) /\ Len(Queued') = (P + 1) - C
  BY <1>1 DEF QueuedView
<1>3. ASSUME NEW n \in C..(P - 1) PROVE Nth(n)' = Nth(n)
  <2>1. n # P /\ n \in C'..(P' - 1)
    BY <1>1, <1>2
  <2>2. Ticket(p)' = P
    BY <1>1 DEF Ticket
  <2>3. \A q \in Producers : Ticket(q) = n \/ Ticket(q)' = n =>
           (Filling(q)' <=> Filling(q)) /\ (Filling(q) => th'[q] = th[q])
    BY <1>1, <2>1, <2>2 DEF Filling, Threads
  <2>4. item'[CellOf(n)] = ItemOf(n)
    BY DEF ItemOf
  <2> QED
    BY <2>1, <2>3, <2>4, Stays
<1>4. Queued'[(P - C) + 1] = x
  <2>1. Filling(p)' /\ Ticket(p)' = P
    BY <1>1 DEF Filling, Ticket
  <2>2. Nth(Ticket(p))' = x
    BY <1>1, <2>1 DEF QueuedView
  <2> QED
    BY <1>1, <2>1, <2>2 DEF Nth
<1> HIDE DEF x
<1>5. /\ Append(Queued, x) \in Seq(Items) /\ Len(Append(Queued, x)) = (P - C) + 1
      /\ \A i \in 1..(P - C) : Append(Queued, x)[i] = Queued[i]
      /\ Append(Queued, x)[(P - C) + 1] = x
  BY <1>1, <1>2, AppendProperties
<1>6. ASSUME NEW i \in 1..(P - C) PROVE Queued'[i] = Queued[i]
  <2>1. PICK n \in C..(P - 1) : (n - C) + 1 = i
    <3>1. C + (i - 1) \in C..(P - 1) /\ ((C + (i - 1)) - C) + 1 = i
      BY <1>2
    <3> QED
      BY <3>1
  <2>2. Nth(n)' = Nth(n)
    BY <1>3
  <2> QED
    BY <1>1, <2>1, <2>2 DEF Nth
<1>7. Queued' = Append(Queued, x)
  <2>1. Len(Queued') = (P - C) + 1
    BY <1>2
  <2>2. ASSUME NEW i \in 1..Len(Queued') PROVE Queued'[i] = Append(Queued, x)[i]
    <3>1. CASE i = (P - C) + 1
      BY <1>4, <1>5, <3>1
    <3>2. CASE i # (P - C) + 1
      <4>1. i \in 1..(P - C)
        BY <1>2, <2>1, <3>2
      <4> QED
        BY <1>5, <1>6, <4>1
    <3> QED
      BY <3>1, <3>2
  <2> QED
    BY <1>2, <1>5, <2>1, <2>2, SeqEqual
<1>8. Len(Queued) < N
  BY <1>1, <1>2, Sizes
<1> QED
  BY <1>1, <1>7, <1>8 DEF Abstract!Push

(* Drawing a consumer's ticket hands out the oldest item.                  *)
LEMMA DrawIsPop ==
  ASSUME IInv, QueuedView, QueuedView', NEW c \in Consumers, th[c].pc = "cas",
         popPos = th[c].pos, popPos' = Wrap(popPos + 1),
         popped' = Append(popped, item[Cell(popPos)]),
         Goto(c, "take"), UNCHANGED <<sequence, item, pushPos, pushing>>
  PROVE  Abstract!Pop
<1>1. /\ C < P /\ P' = P /\ C' = C + 1 /\ Cell(popPos) = CellOf(C)
      /\ \A p \in Producers : Fills(p) => Ticket(p) # C
      /\ \A t \in Threads \ {c} : th'[t] = th[t]
  BY DrawPop
<1>2. /\ P \in Nat /\ C \in Nat /\ Queued \in Seq(Items) /\ Len(Queued) = P - C
      /\ Queued' \in Seq(Items) /\ Len(Queued') = P - (C + 1)
  BY <1>1 DEF QueuedView
<1>3. Queued # <<>>
  BY <1>1, <1>2, EmptySeq
<1>4. Queued[1] = item[Cell(popPos)]
  <2>1. C \in C..(P - 1) /\ (C - C) + 1 = 1
    BY <1>1, <1>2
  <2>2. Nth(C) = ItemOf(C)
    BY <1>1, <2>1 DEF QueuedView, Filling, Fills
  <2> QED
    BY <1>1, <2>1, <2>2 DEF Nth, ItemOf
<1>5. Head(Queued) = item[Cell(popPos)]
  BY <1>2, <1>3, <1>4
<1>6. /\ Tail(Queued) \in Seq(Items) /\ Len(Tail(Queued)) = (P - C) - 1
      /\ \A i \in 1..((P - C) - 1) : Tail(Queued)[i] = Queued[i + 1]
  BY <1>2, <1>3, HeadTailProperties
<1>7. ASSUME NEW n \in (C + 1)..(P - 1) PROVE Nth(n)' = Nth(n)
  <2>1. n \in C..(P - 1) /\ n \in C'..(P' - 1)
    <3>1. n \in C..(P - 1)
      BY <1>2
    <3> QED
      BY <1>1, <3>1
  <2>2. \A q \in Producers : (Filling(q)' <=> Filling(q)) /\ th'[q] = th[q]
    BY <1>1, MpmcAssumption DEF Filling, Threads
  <2>3. item'[CellOf(n)] = ItemOf(n)
    BY DEF ItemOf
  <2> QED
    BY <2>1, <2>2, <2>3, Stays
<1>8. ASSUME NEW i \in 1..((P - C) - 1) PROVE Queued'[i] = Tail(Queued)[i]
  <2>1. PICK n \in (C + 1)..(P - 1) : (n - C) + 1 = i + 1 /\ (n - (C + 1)) + 1 = i
    <3>1. /\ C + i \in (C + 1)..(P - 1) /\ ((C + i) - C) + 1 = i + 1
          /\ ((C + i) - (C + 1)) + 1 = i
      BY <1>2
    <3> QED
      BY <3>1
  <2>2. Nth(n)' = Nth(n)
    BY <1>7
  <2>3. Queued'[i] = Queued[i + 1]
    BY <1>1, <2>1, <2>2 DEF Nth
  <2> QED
    BY <1>6, <2>3
<1>9. Queued' = Tail(Queued)
  <2>1. Len(Queued') = (P - C) - 1
    BY <1>2
  <2> QED
    BY <1>2, <1>6, <1>8, <2>1, SeqEqual
<1> QED
  BY <1>3, <1>5, <1>9 DEF Abstract!Pop

(* An item stays the same while its producer puts it into its cell.        *)
LEMMA FillInvisible ==
  ASSUME IInv, QueuedView, QueuedView', NEW p \in Producers, PushFill(p)
  PROVE  UNCHANGED Abstract!avars
<1>1. /\ th[p].pc = "fill" /\ item' = [item EXCEPT ![Cell(th[p].pos)] = th[p].item]
      /\ th' = [th EXCEPT ![p].pc = "publish"]
      /\ UNCHANGED <<pushPos, popPos, popped>>
  BY DEF PushFill, Goto
<1>2. /\ Fills(p) /\ Filling(p) /\ p \in Threads /\ Ticket(p) \in C..(P - 1)
      /\ Cell(th[p].pos) = CellOf(Ticket(p)) /\ CellOf(Ticket(p)) \in 0..(N - 1)
      /\ \A n \in C..(C + N - 1) : n # Ticket(p) =>
           CellOf(n) # CellOf(Ticket(p)) /\ CellOf(n) \in 0..(N - 1)
  BY <1>1, FillPlace DEF Fills, Filling
<1>3. /\ \A t \in Threads \ {p} : th'[t] = th[t]
      /\ th'[p].pc = "publish"
  BY <1>1, <1>2, Bounds DEF States
<1>4. /\ item'[CellOf(Ticket(p))] = th[p].item
      /\ \A n \in C..(C + N - 1) : n # Ticket(p) => item'[CellOf(n)] = ItemOf(n)
  BY <1>1, <1>2 DEF IInv, TypeOK, ItemOf
<1>5. P' = P /\ C' = C
  BY <1>1 DEF P, C
<1>6. ~Filling(p)' /\ \A q \in Producers \ {p} : th'[q] = th[q] /\ (Filling(q)' <=> Filling(q))
  BY <1>3 DEF Filling, Threads
<1>7. ASSUME NEW n \in C..(P - 1) PROVE Nth(n)' = Nth(n)
  <2>1. CASE n = Ticket(p)
    <3>1. \A q \in Producers : Filling(q) /\ q # p => Ticket(q) # n
      BY <1>2, <2>1 DEF IInv, RingInv, FillInv, Fills, Filling
    <3>2. \A q \in Producers : Filling(q)' => Ticket(q)' # n
      BY <1>6, <3>1 DEF Ticket
    <3>3. Nth(n)' = item'[CellOf(n)]
      <4>1. Nth(n)' = ItemOf(n)'
        BY <1>5, <3>2 DEF QueuedView
      <4> QED
        BY <4>1 DEF ItemOf
    <3>4. Nth(n) = th[p].item
      BY <1>2, <2>1 DEF QueuedView
    <3> QED
      BY <1>4, <2>1, <3>3, <3>4
  <2>2. CASE n # Ticket(p)
    <3>1. n \in C..(C + N - 1)
      BY Bounds, Sizes
    <3>2. Ticket(p)' = Ticket(p)
      <4>1. th'[p].pos = th[p].pos
        BY <1>1, <1>2, Bounds DEF States
      <4> QED
        BY <4>1 DEF Ticket
    <3>3. \A q \in Producers : Ticket(q) = n \/ Ticket(q)' = n =>
            (Filling(q)' <=> Filling(q)) /\ (Filling(q) => th'[q] = th[q])
      BY <1>6, <2>2, <3>2
    <3>4. item'[CellOf(n)] = ItemOf(n)
      BY <1>4, <2>2, <3>1
    <3> QED
      BY <1>5, <3>3, <3>4, Stays
  <2> QED
    BY <2>1, <2>2
<1>8. Queued' = Queued
  BY <1>5, <1>7, SameSequence
<1> QED
  BY <1>1, <1>8 DEF Abstract!avars

(* What a consumer moves out of its cell is not queued any more.           *)
LEMMA TakeInvisible ==
  ASSUME IInv, QueuedView, QueuedView', NEW c \in Consumers, PopTake(c)
  PROVE  UNCHANGED Abstract!avars
<1>1. /\ th[c].pc = "take" /\ item' = [item EXCEPT ![Cell(th[c].pos)] = NoItem]
      /\ th' = [th EXCEPT ![c].pc = "release", ![c].item = item[Cell(th[c].pos)]]
      /\ UNCHANGED <<pushPos, popPos, popped>>
  BY DEF PopTake
<1> DEFINE k == Ticket(c) + N
<1>2. /\ c \in Threads /\ c \notin Producers /\ k \in P..(C + N - 1)
      /\ Cell(th[c].pos) = CellOf(k)
      /\ \A n \in C..(C + N - 1) : n # k => CellOf(n) # CellOf(k) /\ CellOf(n) \in 0..(N - 1)
  <2>1. Takes(c)
    BY <1>1 DEF Takes
  <2> QED
    BY <2>1, TakePlace
<1> HIDE DEF k
<1>3. \A n \in C..(P - 1) : n \in C..(C + N - 1) /\ n # k
  BY <1>2, Bounds, Sizes
<1>4. \A n \in C..(P - 1) : item'[CellOf(n)] = ItemOf(n)
  BY <1>1, <1>2, <1>3 DEF IInv, TypeOK, ItemOf
<1>5. \A q \in Producers : th'[q] = th[q]
  BY <1>1, <1>2, Bounds DEF Threads
<1> QED
  BY <1>1, <1>4, <1>5, Invisible DEF Filling

(* Every step of the queue is a step of the FIFO, or invisible.            *)
LEMMA StepSimulates ==
  IInv /\ QueuedView /\ QueuedView' /\ [Next]_vars => [Abstract!ANext]_(Abstract!avars)
<1> SUFFICES ASSUME IInv, QueuedView, QueuedView', [Next]_vars
             PROVE  Abstract!ANext \/ UNCHANGED Abstract!avars
  OBVIOUS
<1>1. CASE UNCHANGED vars
  <2>1. UNCHANGED <<item, pushPos, popPos, th, popped>>
    BY <1>1 DEF vars
  <2>2. \A p \in Producers : (Filling(p)' <=> Filling(p)) /\ th'[p] = th[p]
    BY <2>1 DEF Filling
  <2>3. \A n \in C..(P - 1) : item'[CellOf(n)] = ItemOf(n)
    BY <2>1 DEF ItemOf
  <2> QED
    BY <2>1, <2>2, <2>3, Invisible
<1>2. ASSUME NEW t \in Threads, NEW r, th' = [th EXCEPT ![t] = r],
             r.pc # "fill", th[t].pc # "fill", UNCHANGED <<item, pushPos, popPos, popped>>
      PROVE  UNCHANGED Abstract!avars
  <2>1. th'[t] = r /\ \A u \in Threads \ {t} : th'[u] = th[u]
    BY <1>2, Bounds
  <2> QED
    BY <1>2, <2>1, RegistersInvisible DEF Filling
<1>3. ASSUME NEW t \in Threads, NEW w, w # "fill", th' = [th EXCEPT ![t].pc = w],
             th[t].pc # "fill", UNCHANGED <<item, pushPos, popPos, popped>>
      PROVE  UNCHANGED Abstract!avars
  <2>1. th'[t].pc = w
    BY <1>3, Bounds DEF States
  <2>2. \A u \in Threads \ {t} : th'[u] = th[u]
    BY <1>3, Bounds
  <2> QED
    BY <1>3, <2>1, <2>2, RegistersInvisible DEF Filling
<1>4. ASSUME NEW t \in Threads, NEW x, th' = [th EXCEPT ![t].pc = "seq", ![t].pos = x],
             th[t].pc # "fill", UNCHANGED <<item, pushPos, popPos, popped>>
      PROVE  UNCHANGED Abstract!avars
  <2>1. th'[t].pc = "seq"
    BY <1>4, Bounds DEF States
  <2>2. \A u \in Threads \ {t} : th'[u] = th[u]
    BY <1>4, Bounds
  <2> QED
    BY <1>4, <2>1, <2>2, RegistersInvisible DEF Filling
<1>5. Idle.pc # "fill"
  BY DEF Idle
<1>6. ASSUME NEW p \in Producers, Producer(p)
      PROVE  Abstract!ANext \/ UNCHANGED Abstract!avars
  <2>1. p \in Threads
    BY DEF Threads
  <2>2. ASSUME NEW x \in Items, PushReadPos(p, x) PROVE UNCHANGED Abstract!avars
    <3> DEFINE r == [pc |-> "seq", pos |-> pushPos, item |-> x]
    <3>1. /\ th[p].pc # "fill" /\ UNCHANGED <<item, pushPos, popPos, popped>>
          /\ th' = [th EXCEPT ![p] = r] /\ r.pc # "fill"
      BY <2>2 DEF PushReadPos
    <3> HIDE DEF r
    <3> QED
      BY <1>2, <2>1, <3>1
  <2>3. CASE PushReadSeq(p)
    <3>1. th[p].pc # "fill" /\ UNCHANGED <<item, pushPos, popPos, popped>>
      BY <2>3 DEF PushReadSeq
    <3>2. \/ th' = [th EXCEPT ![p].pc = "cas"]
          \/ th' = [th EXCEPT ![p] = Idle]
          \/ th' = [th EXCEPT ![p].pc = "pos"]
      BY <2>3 DEF PushReadSeq, Goto
    <3>3. "cas" # "fill" /\ "pos" # "fill"
      OBVIOUS
    <3> QED
      BY <1>2, <1>3, <1>5, <2>1, <3>1, <3>2, <3>3
  <2>4. CASE PushRereadPos(p)
    BY <1>4, <2>1, <2>4 DEF PushRereadPos
  <2>5. CASE PushClaim(p)
    <3>1. CASE th' = [th EXCEPT ![p].pc = "seq", ![p].pos = pushPos] /\ UNCHANGED pushPos
      BY <1>4, <2>1, <2>5, <3>1 DEF PushClaim
    <3>2. CASE pushPos = th[p].pos /\ pushPos' = Wrap(pushPos + 1) /\ Goto(p, "fill")
      BY <2>5, <3>2, DrawIsPush DEF PushClaim, Abstract!ANext
    <3> QED
      BY <2>5, <3>1, <3>2 DEF PushClaim
  <2>6. CASE PushFill(p)
    BY <2>6, FillInvisible
  <2>7. CASE PushPublish(p)
    <3>1. /\ th[p].pc # "fill" /\ UNCHANGED <<item, pushPos, popPos, popped>>
          /\ th' = [th EXCEPT ![p] = Idle]
      BY <2>7 DEF PushPublish
    <3> QED
      BY <1>2, <1>5, <2>1, <3>1
  <2> QED
    BY <1>6, <2>2, <2>3, <2>4, <2>5, <2>6, <2>7 DEF Producer
<1>7. ASSUME NEW c \in Consumers, Consumer(c)
      PROVE  Abstract!ANext \/ UNCHANGED Abstract!avars
  <2>1. c \in Threads
    BY DEF Threads
  <2>2. CASE PopReadPos(c)
    <3> DEFINE r == [pc |-> "seq", pos |-> popPos, item |-> NoItem]
    <3>1. /\ th[c].pc # "fill" /\ UNCHANGED <<item, pushPos, popPos, popped>>
          /\ th' = [th EXCEPT ![c] = r] /\ r.pc # "fill"
      BY <2>2 DEF PopReadPos
    <3> HIDE DEF r
    <3> QED
      BY <1>2, <2>1, <3>1
  <2>3. CASE PopReadSeq(c)
    <3>1. th[c].pc # "fill" /\ UNCHANGED <<item, pushPos, popPos, popped>>
      BY <2>3 DEF PopReadSeq
    <3>2. \/ th' = [th EXCEPT ![c].pc = "cas"]
          \/ th' = [th EXCEPT ![c] = Idle]
          \/ th' = [th EXCEPT ![c].pc = "pos"]
      BY <2>3 DEF PopReadSeq, Goto
    <3>3. "cas" # "fill" /\ "pos" # "fill"
      OBVIOUS
    <3> QED
      BY <1>2, <1>3, <1>5, <2>1, <3>1, <3>2, <3>3
  <2>4. CASE PopRereadPos(c)
    BY <1>4, <2>1, <2>4 DEF PopRereadPos
  <2>5. CASE PopClaim(c)
    <3>1. CASE /\ th' = [th EXCEPT ![c].pc = "seq", ![c].pos = popPos]
               /\ UNCHANGED <<popPos, popped>>
      BY <1>4, <2>1, <2>5, <3>1 DEF PopClaim
    <3>2. CASE /\ popPos = th[c].pos /\ popPos' = Wrap(popPos + 1)
               /\ popped' = Append(popped, item[Cell(popPos)]) /\ Goto(c, "take")
      BY <2>5, <3>2, DrawIsPop DEF PopClaim, Abstract!ANext
    <3> QED
      BY <2>5, <3>1, <3>2 DEF PopClaim
  <2>6. CASE PopTake(c)
    BY <2>6, TakeInvisible
  <2>7. CASE PopRelease(c)
    <3>1. /\ th[c].pc # "fill" /\ UNCHANGED <<item, pushPos, popPos, popped>>
          /\ th' = [th EXCEPT ![c] = Idle]
      BY <2>7 DEF PopRelease
    <3> QED
      BY <1>2, <1>5, <2>1, <3>1
  <2> QED
    BY <1>7, <2>2, <2>3, <2>4, <2>5, <2>6, <2>7 DEF Consumer
<1> QED
  BY <1>1, <1>6, <1>7 DEF Next

(* An empty queue is an empty FIFO.                                        *)
LEMMA InitSimulates == Init => Abstract!AInit
<1> SUFFICES ASSUME Init PROVE Abstract!AInit
  OBVIOUS
<1>1. QueuedView /\ P = C
  BY InitInv, QueuedViewAlways DEF Init, P, C
<1>2. Queued \in Seq(Items) /\ Len(Queued) = 0
  BY <1>1 DEF QueuedView
<1>3. Queued = <<>>
  BY <1>2, EmptySeq
<1> QED
  BY <1>3 DEF Abstract!AInit, Init

(* Nothing is handed out twice, overwritten before it was taken, or taken  *)
(* before an older item: the threads see an atomic queue.                  *)
THEOREM QueueImplementsFifo == Spec => ImplementsFifo
<1>1. Spec => [](IInv /\ QueuedView)
  BY QueuedViewAlways, Invariant, PTL
<1> QED
  BY <1>1, InitSimulates, StepSimulates, PTL DEF Spec, ImplementsFifo, Abstract!ASpec
=============================================================================
