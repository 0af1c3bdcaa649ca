--------------------------- MODULE Rawmidi_proofs ---------------------------
(***************************************************************************)
(* The rings of a raw MIDI device keep their bytes in order, for any size  *)
(* of the buffers, the FIFOs and the calls, with interrupts between any    *)
(* two steps of a read, a write or a close.                                *)
(*                                                                         *)
(* The inductive invariant has, besides the types, how far each file's     *)
(* open or close has come (its bit of mode, its trigger bit, its runtime), *)
(* the equation between the two pointers of a ring and its count, and the  *)
(* place of a claimed part just behind appl_ptr.  All but the first is     *)
(* stated of one ring, the number of its oldest byte and its claim, so     *)
(* that the lemmas on the ring operations speak of no state.               *)
(***************************************************************************)
EXTENDS Rawmidi, TLAPS

(* Addition and subtraction modulo m of two values that wrap once at most. *)
Plus(m, a, b) == IF a + b < m THEN a + b ELSE a + b - m
Minus(m, a, b) == IF a - b >= 0 THEN a - b ELSE a - b + m

ClaimType == [at : 0 .. Size - 1, n : 0 .. Size]

(* A claim does not wrap, and appl_ptr is its end.                         *)
ClaimSound(r, c) ==
    c.n > 0 => c.at + c.n <= Size /\ r.appl = Plus(Size, c.at, c.n)

(* The input ring r, whose oldest byte has number x, with the claim c of   *)
(* its reader: the bytes between appl_ptr and hw_ptr, and the claimed ones *)
(* that no interrupt has lapped.                                           *)
InSound(r, x, c) ==
    /\ ClaimSound(r, c)
    /\ r.hw = Plus(Size, r.appl, r.avail)
    /\ \A i \in 0 .. r.avail - 1 : r.buf[Plus(Size, r.appl, i)] = Plus(2 * Size, x, i)
    /\ \A i \in 0 .. c.n - 1 : i >= r.avail + c.n - Size
          => r.buf[c.at + i] = Minus(2 * Size, x, c.n - i)

(* The output ring r, whose oldest byte has number x, with the claim c of  *)
(* its writer: the bytes between hw_ptr and appl_ptr but the claimed ones. *)
OutSound(r, x, c) ==
    /\ ClaimSound(r, c)
    /\ r.appl = Plus(Size, r.hw, Size - r.avail)
    /\ \A i \in 0 .. Size - r.avail - 1 :
          Plus(Size, r.hw, i) \notin c.at .. c.at + c.n - 1
              => r.buf[Plus(Size, r.hw, i)] = Plus(2 * Size, x, i)

TriggerBit(d) == IF d = "out" THEN "out_trigger" ELSE "in_trigger"

(* How far the open, the call or the close of a file has come.             *)
Phase(d) ==
    /\ live[d] <=> pc[d] # "closed"
    /\ d \in mode <=> pc[d] \notin {"closed", "free"}
    /\ TriggerBit(d) \in mode => pc[d] \notin {"closed", "free", "ops", "drop"}
    /\ pc[d] # "copy" => claim[d] = NoClaim

(* The inductive invariant.                                                *)
IInv ==
    /\ TypeOK /\ UartWhileOpen
    /\ \A d \in Dirs : Phase(d)
    /\ InSound(ring["in"], next["in"], claim["in"])
    /\ OutSound(ring["out"], next["out"], claim["out"])

-----------------------------------------------------------------------------
(* What % computes when the operands wrap once at most.                    *)
LEMMA Mod ==
  ASSUME NEW m \in Nat \ {0}, NEW r \in 0 .. m - 1
  PROVE  r % m = r /\ (r + m) % m = r /\ (r - m) % m = r
<1>1. r % m = r
  OBVIOUS
<1>2. (r + m) % m = r
  OBVIOUS
<1>3. (r - m) % m = r
  OBVIOUS
<1> QED
  BY <1>1, <1>2, <1>3

(* A sum that wraps once at most.                                          *)
LEMMA PlusMod ==
  ASSUME NEW m \in Nat \ {0}, NEW a \in 0 .. m - 1, NEW b \in 0 .. m
  PROVE  (a + b) % m = Plus(m, a, b) /\ Plus(m, a, b) \in 0 .. m - 1
<1>1. CASE a + b < m
  <2>1. a + b \in 0 .. m - 1
    BY <1>1
  <2> QED
    BY <1>1, <2>1, Mod DEF Plus
<1>2. CASE a + b >= m
  <2> DEFINE r == a + b - m
  <2>1. r \in 0 .. m - 1 /\ a + b = r + m
    BY <1>2
  <2>2. (r + m) % m = r
    <3> HIDE DEF r
    <3> QED
      BY <2>1, Mod
  <2>3. Plus(m, a, b) = r
    BY <1>2 DEF Plus
  <2> HIDE DEF r
  <2> QED
    BY <2>1, <2>2, <2>3
<1> QED
  BY <1>1, <1>2

(* A difference that wraps once at most.                                   *)
LEMMA MinusMod ==
  ASSUME NEW m \in Nat \ {0}, NEW a \in 0 .. m - 1, NEW b \in 0 .. m
  PROVE  (a - b) % m = Minus(m, a, b) /\ Minus(m, a, b) \in 0 .. m - 1
<1>1. CASE a - b >= 0
  <2>1. a - b \in 0 .. m - 1
    BY <1>1
  <2> QED
    BY <1>1, <2>1, Mod DEF Minus
<1>2. CASE a - b < 0
  <2> DEFINE r == a - b + m
  <2>1. r \in 0 .. m - 1 /\ a - b = r - m
    BY <1>2
  <2>2. (r - m) % m = r
    <3> HIDE DEF r
    <3> QED
      BY <2>1, Mod
  <2>3. Minus(m, a, b) = r
    BY <1>2 DEF Minus
  <2> HIDE DEF r
  <2> QED
    BY <2>1, <2>2, <2>3
<1> QED
  BY <1>1, <1>2

(* The ring after k bytes were received.                                   *)
LEMMA InReceives ==
  ASSUME NEW r \in Ring, NEW x \in Numbers, NEW c \in ClaimType, InSound(r, x, c),
         NEW k \in 0 .. Size - r.avail, NEW q \in Ring,
         q.appl = r.appl, q.avail = r.avail + k, q.hw = Plus(Size, r.hw, k),
         \A j \in 0 .. Size - 1 :
            q.buf[j] = IF \E i \in 0 .. k - 1 : j = Plus(Size, r.hw, i)
                       THEN Plus(2 * Size, x, r.avail + Minus(Size, j, r.hw))
                       ELSE r.buf[j]
  PROVE  InSound(q, x, c)
<1> USE RawmidiAssumption
<1>1. /\ r.appl \in 0 .. Size - 1 /\ r.hw \in 0 .. Size - 1 /\ r.avail \in 0 .. Size
      /\ c.at \in 0 .. Size - 1 /\ c.n \in 0 .. Size /\ x \in 0 .. 2 * Size - 1
  BY DEF Ring, ClaimType, Numbers
<1>2. /\ c.n > 0 => c.at + c.n <= Size /\ r.appl = Plus(Size, c.at, c.n)
      /\ r.hw = Plus(Size, r.appl, r.avail)
      /\ \A i \in 0 .. r.avail - 1 : r.buf[Plus(Size, r.appl, i)] = Plus(2 * Size, x, i)
      /\ \A i \in 0 .. c.n - 1 : i >= r.avail + c.n - Size
          => r.buf[c.at + i] = Minus(2 * Size, x, c.n - i)
  BY DEF InSound, ClaimSound
<1>3. ClaimSound(q, c)
  BY <1>2 DEF ClaimSound
<1>4. q.hw = Plus(Size, q.appl, q.avail)
  BY <1>1, <1>2 DEF Plus
<1>5. ASSUME NEW i \in 0 .. q.avail - 1
      PROVE  q.buf[Plus(Size, q.appl, i)] = Plus(2 * Size, x, i)
  <2> DEFINE j == Plus(Size, r.appl, i)
  <2>1. j \in 0 .. Size - 1
    BY <1>1 DEF Plus
  <2>2. CASE i < r.avail
    <3>1. ~ \E h \in 0 .. k - 1 : j = Plus(Size, r.hw, h)
      BY <2>2, <1>1, <1>2 DEF Plus
    <3>2. q.buf[j] = r.buf[j]
      BY <2>1, <3>1
    <3> QED
      BY <2>2, <3>2, <1>1, <1>2
  <2>3. CASE i >= r.avail
    <3>1. i - r.avail \in 0 .. k - 1
      BY <2>3, <1>1
    <3>2. j = Plus(Size, r.hw, i - r.avail)
      BY <3>1, <1>1, <1>2 DEF Plus
    <3>3. Minus(Size, j, r.hw) = i - r.avail
      BY <3>1, <3>2, <1>1 DEF Plus, Minus
    <3>4. q.buf[j] = Plus(2 * Size, x, r.avail + Minus(Size, j, r.hw))
      BY <2>1, <3>1, <3>2
    <3>5. r.avail + Minus(Size, j, r.hw) = i
      BY <3>3, <1>1
    <3> QED
      BY <3>4, <3>5
  <2> QED
    BY <2>2, <2>3, <1>1
<1>6. ASSUME NEW i \in 0 .. c.n - 1, i >= q.avail + c.n - Size
      PROVE  q.buf[c.at + i] = Minus(2 * Size, x, c.n - i)
  <2>1. c.at + i \in 0 .. Size - 1 /\ i >= r.avail + c.n - Size
    BY <1>1, <1>2, <1>6
  <2>2. ~ \E h \in 0 .. k - 1 : c.at + i = Plus(Size, r.hw, h)
    BY <1>1, <1>2, <1>6 DEF Plus
  <2>3. q.buf[c.at + i] = r.buf[c.at + i]
    BY <2>1, <2>2
  <2> QED
    BY <2>1, <2>3, <1>2
<1> QED
  BY <1>3, <1>4, <1>5, <1>6 DEF InSound

(* The ring after its reader has claimed the first n bytes, up to the end  *)
(* of the buffer at most.                                                  *)
LEMMA InClaims ==
  ASSUME NEW r \in Ring, NEW x \in Numbers, InSound(r, x, NoClaim),
         NEW n \in 1 .. r.avail, r.appl + n <= Size, NEW q \in Ring,
         q.buf = r.buf, q.hw = r.hw, q.appl = Plus(Size, r.appl, n), q.avail = r.avail - n
  PROVE  InSound(q, Plus(2 * Size, x, n), [at |-> r.appl, n |-> n])
<1> USE RawmidiAssumption
<1>1. /\ r.appl \in 0 .. Size - 1 /\ r.hw \in 0 .. Size - 1 /\ r.avail \in 0 .. Size
      /\ x \in 0 .. 2 * Size - 1
  BY DEF Ring, Numbers
<1>2. /\ r.hw = Plus(Size, r.appl, r.avail)
      /\ \A i \in 0 .. r.avail - 1 : r.buf[Plus(Size, r.appl, i)] = Plus(2 * Size, x, i)
  BY DEF InSound
<1> DEFINE c == [at |-> r.appl, n |-> n]
           y == Plus(2 * Size, x, n)
<1>3. ClaimSound(q, c)
  BY DEF ClaimSound
<1>4. q.hw = Plus(Size, q.appl, q.avail)
  BY <1>1, <1>2 DEF Plus
<1>5. ASSUME NEW i \in 0 .. q.avail - 1
      PROVE  q.buf[Plus(Size, q.appl, i)] = Plus(2 * Size, y, i)
  <2>1. n + i \in 0 .. r.avail - 1
    BY <1>1
  <2>2. Plus(Size, q.appl, i) = Plus(Size, r.appl, n + i)
    BY <2>1, <1>1 DEF Plus
  <2>3. Plus(2 * Size, y, i) = Plus(2 * Size, x, n + i)
    BY <2>1, <1>1 DEF Plus
  <2> QED
    BY <2>1, <2>2, <2>3, <1>2
<1>6. ASSUME NEW i \in 0 .. n - 1
      PROVE  q.buf[r.appl + i] = Minus(2 * Size, y, n - i)
  <2>1. i \in 0 .. r.avail - 1
    BY <1>1
  <2>2. r.appl + i = Plus(Size, r.appl, i)
    BY <1>1 DEF Plus
  <2>3. Minus(2 * Size, y, n - i) = Plus(2 * Size, x, i)
    BY <1>1 DEF Plus, Minus
  <2> QED
    BY <2>1, <2>2, <2>3, <1>2
<1>7. c.at = r.appl /\ c.n = n
  OBVIOUS
<1> HIDE DEF c, y
<1>8. InSound(q, y, c)
  BY <1>3, <1>4, <1>5, <1>6, <1>7 DEF InSound
<1> QED
  BY <1>8 DEF c, y

(* A ring whose claim is over, or that is new.                             *)
LEMMA InWithoutClaim ==
  ASSUME NEW r \in Ring, NEW x \in Numbers, NEW c \in ClaimType, InSound(r, x, c)
  PROVE  InSound(r, x, NoClaim)
BY DEF InSound, ClaimSound, NoClaim

(* The input ring of a new runtime is sound.                               *)
LEMMA InNew == InSound(NewRing("in"), 0, NoClaim)
<1> USE RawmidiAssumption
<1>1. /\ NewRing("in").appl = 0 /\ NewRing("in").hw = 0 /\ NewRing("in").avail = 0
  BY DEF NewRing
<1> QED
  BY <1>1 DEF InSound, ClaimSound, NoClaim, Plus

(* The ring after k bytes were sent, claimed ones among them if the        *)
(* interrupt was faster than the copy.                                     *)
LEMMA OutSends ==
  ASSUME NEW r \in Ring, NEW x \in Numbers, NEW c \in ClaimType, OutSound(r, x, c),
         NEW k \in 0 .. Size - r.avail, NEW q \in Ring,
         q.buf = r.buf, q.appl = r.appl, q.hw = Plus(Size, r.hw, k), q.avail = r.avail + k
  PROVE  OutSound(q, Plus(2 * Size, x, k), c)
<1> USE RawmidiAssumption
<1>1. /\ r.appl \in 0 .. Size - 1 /\ r.hw \in 0 .. Size - 1 /\ r.avail \in 0 .. Size
      /\ x \in 0 .. 2 * Size - 1
  BY DEF Ring, Numbers
<1>2. /\ ClaimSound(q, c)
      /\ r.appl = Plus(Size, r.hw, Size - r.avail)
      /\ \A i \in 0 .. Size - r.avail - 1 :
            Plus(Size, r.hw, i) \notin c.at .. c.at + c.n - 1
               => r.buf[Plus(Size, r.hw, i)] = Plus(2 * Size, x, i)
  BY DEF OutSound, ClaimSound
<1>3. q.appl = Plus(Size, q.hw, Size - q.avail)
  BY <1>1, <1>2 DEF Plus
<1> DEFINE y == Plus(2 * Size, x, k)
<1>4. ASSUME NEW i \in 0 .. Size - q.avail - 1,
             Plus(Size, q.hw, i) \notin c.at .. c.at + c.n - 1
      PROVE  q.buf[Plus(Size, q.hw, i)] = Plus(2 * Size, y, i)
  <2>1. k + i \in 0 .. Size - r.avail - 1
    BY <1>1
  <2>2. Plus(Size, q.hw, i) = Plus(Size, r.hw, k + i)
    BY <2>1, <1>1 DEF Plus
  <2>3. Plus(2 * Size, y, i) = Plus(2 * Size, x, k + i)
    BY <2>1, <1>1 DEF Plus
  <2> QED
    BY <2>1, <2>2, <2>3, <1>2, <1>4
<1> HIDE DEF y
<1>5. OutSound(q, y, c)
  BY <1>2, <1>3, <1>4 DEF OutSound
<1> QED
  BY <1>5 DEF y

(* The ring after its writer has claimed n free cells.                     *)
LEMMA OutClaims ==
  ASSUME NEW r \in Ring, NEW x \in Numbers, OutSound(r, x, NoClaim),
         NEW n \in 1 .. r.avail, r.appl + n <= Size, NEW q \in Ring,
         q.buf = r.buf, q.hw = r.hw, q.appl = Plus(Size, r.appl, n), q.avail = r.avail - n
  PROVE  OutSound(q, x, [at |-> r.appl, n |-> n])
<1> USE RawmidiAssumption
<1>1. /\ r.appl \in 0 .. Size - 1 /\ r.hw \in 0 .. Size - 1 /\ r.avail \in 0 .. Size
      /\ x \in 0 .. 2 * Size - 1
  BY DEF Ring, Numbers
<1>2. /\ r.appl = Plus(Size, r.hw, Size - r.avail)
      /\ \A i \in 0 .. Size - r.avail - 1 : r.buf[Plus(Size, r.hw, i)] = Plus(2 * Size, x, i)
  BY <1>1 DEF OutSound, NoClaim
<1> DEFINE c == [at |-> r.appl, n |-> n]
<1>3. ClaimSound(q, c)
  BY DEF ClaimSound
<1>4. q.appl = Plus(Size, q.hw, Size - q.avail)
  BY <1>1, <1>2 DEF Plus
<1>5. ASSUME NEW i \in 0 .. Size - q.avail - 1,
             Plus(Size, q.hw, i) \notin r.appl .. r.appl + n - 1
      PROVE  q.buf[Plus(Size, q.hw, i)] = Plus(2 * Size, x, i)
  <2>1. i < Size - r.avail
    BY <1>1, <1>2, <1>5 DEF Plus
  <2> QED
    BY <2>1, <1>1, <1>2
<1>6. c.at = r.appl /\ c.n = n
  OBVIOUS
<1> HIDE DEF c
<1>7. OutSound(q, x, c)
  BY <1>3, <1>4, <1>5, <1>6 DEF OutSound
<1> QED
  BY <1>7 DEF c

(* The ring after the claimed cells were written: those that wait to be    *)
(* sent have the number of their place.                                    *)
LEMMA OutCopies ==
  ASSUME NEW r \in Ring, NEW x \in Numbers, NEW c \in ClaimType, OutSound(r, x, c),
         NEW q \in Ring, q.appl = r.appl, q.hw = r.hw, q.avail = r.avail,
         \A j \in 0 .. Size - 1 :
            q.buf[j] = IF j \in c.at .. c.at + c.n - 1
                       THEN (x + (Size - r.avail - c.n + (j - c.at))) % (2 * Size)
                       ELSE r.buf[j]
  PROVE  OutSound(q, x, NoClaim)
<1> USE RawmidiAssumption
<1>1. /\ r.appl \in 0 .. Size - 1 /\ r.hw \in 0 .. Size - 1 /\ r.avail \in 0 .. Size
      /\ c.at \in 0 .. Size - 1 /\ c.n \in 0 .. Size /\ x \in 0 .. 2 * Size - 1
  BY DEF Ring, ClaimType, Numbers
<1>2. /\ c.n > 0 => c.at + c.n <= Size /\ r.appl = Plus(Size, c.at, c.n)
      /\ r.appl = Plus(Size, r.hw, Size - r.avail)
      /\ \A i \in 0 .. Size - r.avail - 1 :
            Plus(Size, r.hw, i) \notin c.at .. c.at + c.n - 1
               => r.buf[Plus(Size, r.hw, i)] = Plus(2 * Size, x, i)
  BY DEF OutSound, ClaimSound
<1>3. ASSUME NEW i \in 0 .. Size - q.avail - 1
      PROVE  q.buf[Plus(Size, q.hw, i)] = Plus(2 * Size, x, i)
  <2> DEFINE j == Plus(Size, r.hw, i)
  <2>1. j \in 0 .. Size - 1 /\ i \in 0 .. Size - r.avail - 1
    BY <1>1 DEF Plus
  <2>2. CASE j \notin c.at .. c.at + c.n - 1
    BY <2>1, <2>2, <1>2
  <2>3. CASE j \in c.at .. c.at + c.n - 1
    <3>1. Size - r.avail - c.n + (j - c.at) = i
      <4> DEFINE a == c.at
                 n == c.n
                 h == r.hw
                 f == Size - r.avail
      <4>1. /\ a \in Int /\ n \in Int /\ h \in 0 .. Size - 1 /\ f \in 0 .. Size
            /\ a + n <= Size /\ Plus(Size, a, n) = Plus(Size, h, f)
        BY <2>3, <1>1, <1>2
      <4>2. Plus(Size, h, i) \in a .. a + n - 1 /\ i \in 0 .. f - 1 /\ a >= 0
        BY <2>1, <2>3, <1>1
      <4> HIDE DEF a, n, h, f
      <4>3. f - n + (Plus(Size, h, i) - a) = i
        BY <4>1, <4>2 DEF Plus
      <4> QED
        BY <4>3 DEF a, n, h, f
    <3>2. q.buf[j] = (x + (Size - r.avail - c.n + (j - c.at))) % (2 * Size)
      BY <2>1, <2>3
    <3>3. 2 * Size \in Nat \ {0} /\ x \in 0 .. 2 * Size - 1 /\ i \in 0 .. 2 * Size
      BY <2>1, <1>1
    <3>4. (x + i) % (2 * Size) = Plus(2 * Size, x, i)
      BY <3>3, PlusMod
    <3> HIDE DEF j
    <3>5. q.buf[j] = Plus(2 * Size, x, i)
      BY <3>1, <3>2, <3>4
    <3> QED
      BY <3>5 DEF j
  <2> QED
    BY <2>2, <2>3
<1>4. ClaimSound(q, NoClaim)
  BY DEF ClaimSound, NoClaim
<1> QED
  BY <1>2, <1>3, <1>4 DEF OutSound

(* A ring without bytes.                                                   *)
LEMMA OutEmpty ==
  ASSUME NEW r, r.appl = 0, r.hw = 0, r.avail = Size, NEW x
  PROVE  OutSound(r, x, NoClaim)
BY RawmidiAssumption DEF OutSound, ClaimSound, NoClaim, Plus

-----------------------------------------------------------------------------
(* What a state that satisfies the invariant says of both rings.           *)
LEMMA RingTypes ==
  ASSUME TypeOK, NEW d \in Dirs
  PROVE  /\ ring[d] \in Ring /\ next[d] \in Numbers /\ claim[d] \in ClaimType
         /\ ring[d].buf \in [0 .. Size - 1 -> Numbers \cup {Zero}]
         /\ ring[d].appl \in 0 .. Size - 1 /\ ring[d].hw \in 0 .. Size - 1
         /\ ring[d].avail \in 0 .. Size
<1>1. ring[d] \in Ring /\ next[d] \in Numbers /\ claim[d] \in ClaimType
  BY DEF TypeOK, ClaimType
<1> QED
  BY <1>1 DEF Ring

(* The number of a byte is within two rings.                               *)
LEMMA NumberType ==
  ASSUME TypeOK, NEW d \in Dirs, NEW i \in Int
  PROVE  Number(d, i) \in Numbers
<1>1. next[d] + i \in Int /\ 2 * Size \in Nat \ {0}
  BY RawmidiAssumption, RingTypes DEF Numbers
<1> QED
  BY <1>1 DEF Number, Numbers

(* The rings stay sound when no step touches them.                         *)
LEMMA InStays ==
  ASSUME IInv, ring'["in"] = ring["in"], next'["in"] = next["in"], claim'["in"] = claim["in"]
  PROVE  InSound(ring["in"], next["in"], claim["in"])'
BY DEF IInv

(* The same of the output ring.                                            *)
LEMMA OutStays ==
  ASSUME IInv, ring'["out"] = ring["out"], next'["out"] = next["out"],
         claim'["out"] = claim["out"]
  PROVE  OutSound(ring["out"], next["out"], claim["out"])'
BY DEF IInv

(* The same of both.                                                       *)
LEMMA RingsStay ==
  ASSUME IInv, UNCHANGED <<ring, next, claim>>
  PROVE  /\ InSound(ring["in"], next["in"], claim["in"])'
         /\ OutSound(ring["out"], next["out"], claim["out"])'
BY InStays, OutStays

(* The invariant holds before the first open.                              *)
LEMMA InitIInv ==
  ASSUME Init
  PROVE  IInv
<1> USE RawmidiAssumption
<1>1. \A d \in Dirs : NewRing(d) \in Ring
  BY DEF NewRing, Ring
<1>2. NoClaim \in ClaimType
  BY DEF NoClaim, ClaimType
<1>3. TypeOK
  <2>1. 0 \in Numbers /\ 0 \in 0 .. TxFifo /\ 0 \in 0 .. RxFifo
    BY DEF Numbers
  <2>2. next \in [Dirs -> Numbers] /\ left \in [Dirs -> Nat] /\ tx \in 0 .. TxFifo
        /\ rx \in 0 .. RxFifo
    BY <2>1 DEF Init
  <2>3. ring \in [Dirs -> Ring] /\ claim \in [Dirs -> ClaimType]
    BY <1>1, <1>2 DEF Init
  <2> QED
    BY <2>2, <2>3 DEF Init, TypeOK, ClaimType
<1>4. UartWhileOpen
  BY DEF Init, UartWhileOpen
<1>5. \A d \in Dirs : Phase(d)
  BY DEF Init, Phase
<1>6. InSound(ring["in"], next["in"], claim["in"])
  BY InNew DEF Init, Dirs
<1>7. OutSound(ring["out"], next["out"], claim["out"])
  <2>1. NewRing("out").appl = 0 /\ NewRing("out").hw = 0 /\ NewRing("out").avail = Size
    BY DEF NewRing
  <2>2. ring["out"] = NewRing("out") /\ claim["out"] = NoClaim
    BY DEF Init, Dirs
  <2> QED
    BY <2>1, <2>2, OutEmpty
<1> QED
  BY <1>3, <1>4, <1>5, <1>6, <1>7 DEF IInv

(* The steps that move no byte of a ring.                                  *)
LEMMA DeviceStep ==
  ASSUME IInv, Transmit \/ Arrive
  PROVE  IInv'
<1> USE RawmidiAssumption
<1>1. /\ UNCHANGED <<hooked, mode, uart, rings, calls>>
      /\ tx' \in 0 .. TxFifo /\ rx' \in 0 .. RxFifo
  BY DEF Transmit, Arrive, IInv, TypeOK
<1>2. TypeOK' /\ UartWhileOpen'
  BY <1>1 DEF IInv, TypeOK, UartWhileOpen, rings, calls
<1>3. (\A d \in Dirs : Phase(d))'
  BY <1>1 DEF IInv, Phase, rings, calls
<1> QED
  BY <1>1, <1>2, <1>3, RingsStay DEF IInv, rings, calls

(* A step of a call: the program counter moves within an open file.        *)
LEMMA CallStep ==
  ASSUME IInv, NEW d \in Dirs, NEW w \in {"idle", "loop", "copy", "flush", "advance", "trigger"},
         pc[d] \in {"idle", "loop", "copy", "flush", "advance", "trigger"},
         pc' = [pc EXCEPT ![d] = w], UNCHANGED <<hooked, uart, live>>,
         mode' = mode \/ mode' = mode \cup {TriggerBit(d)},
         \A e \in Dirs \ {d} : claim'[e] = claim[e], w # "copy" => claim'[d] = NoClaim
  PROVE  UartWhileOpen' /\ (\A e \in Dirs : Phase(e))' /\ mode' \subseteq Bits
<1>1. pc \in [Dirs -> {"closed", "idle", "loop", "copy", "flush", "advance",
                        "trigger", "drain", "drop", "ops", "free"}]
  BY DEF IInv, TypeOK
<1>2. mode \subseteq Bits /\ TriggerBit(d) \in Bits \ Dirs
  BY DEF IInv, TypeOK, Bits, Dirs, TriggerBit
<1>3. UartWhileOpen'
  BY <1>2 DEF IInv, UartWhileOpen
<1>4. ASSUME NEW e \in Dirs PROVE Phase(e)'
  <2>1. Phase(e) /\ (e \in mode' <=> e \in mode)
    BY <1>2 DEF IInv
  <2>2. CASE e = d
    BY <2>1, <2>2, <1>1 DEF Phase
  <2>3. CASE e # d
    <3>1. TriggerBit(e) # TriggerBit(d)
      BY <2>3 DEF TriggerBit, Dirs
    <3> QED
      BY <2>1, <2>3, <3>1, <1>1 DEF Phase
  <2> QED
    BY <2>2, <2>3
<1> QED
  BY <1>2, <1>3, <1>4

(* The steps of a read or a write that leave the rings alone.              *)
LEMMA QuietCallStep ==
  ASSUME IInv, Write \/ Read \/ ReadFlush \/ ReadReturns \/ WriteEnds
  PROVE  IInv'
<1> USE RawmidiAssumption
<1>1. PICK d \in Dirs, w \in {"idle", "loop", "flush", "advance", "trigger"} :
        /\ pc[d] \in {"idle", "loop", "flush", "advance"}
        /\ pc' = [pc EXCEPT ![d] = w] /\ (mode' = mode \/ mode' = mode \cup {TriggerBit(d)})
        /\ UNCHANGED <<hooked, uart, tx, rings, claim>>
  BY DEF Write, Read, ReadFlush, ReadReturns, WriteEnds, Goto, Dirs, TriggerBit, LoopEnds, device
<1>2. left' \in [Dirs -> Nat] /\ rx' \in 0 .. RxFifo
  BY DEF Write, Read, ReadFlush, ReadReturns, WriteEnds, device, IInv, TypeOK
<1>3. claim[d] = NoClaim
  BY <1>1 DEF IInv, Phase
<1>4. UartWhileOpen' /\ (\A e \in Dirs : Phase(e))' /\ mode' \subseteq Bits
  BY <1>1, <1>3, CallStep DEF rings
<1>5. pc' \in [Dirs -> {"closed", "idle", "loop", "copy", "flush", "advance",
                        "trigger", "drain", "drop", "ops", "free"}]
  BY <1>1 DEF IInv, TypeOK
<1>6. TypeOK'
  BY <1>1, <1>2, <1>4, <1>5 DEF IInv, TypeOK, rings
<1> QED
  BY <1>1, <1>4, <1>6, RingsStay DEF IInv, rings

PcType == [Dirs -> {"closed", "idle", "loop", "copy", "flush", "advance",
                    "trigger", "drain", "drop", "ops", "free"}]

(* The steps of a close that leave the rings alone: the trigger bit goes   *)
(* before the bit of the direction, and the device leaves UART mode with   *)
(* the last direction only.                                                *)
LEMMA QuietCloseStep ==
  ASSUME IInv, NEW d \in Dirs, OpenFails(d) \/ Close(d) \/ CloseTrigger(d) \/ CloseOps(d)
  PROVE  IInv'
<1>1. /\ UNCHANGED <<hooked, tx, rx, live, ring, next, left, claim>>
      /\ pc \in PcType /\ mode \subseteq Bits /\ uart \in BOOLEAN
      /\ \A e \in Dirs : Phase(e)
  BY DEF OpenFails, Close, CloseTrigger, CloseOps, rings, calls, device, IInv, TypeOK, PcType
<1>2. CASE OpenFails(d)
  <2>1. /\ UNCHANGED <<mode, pc>> /\ uart' \in BOOLEAN /\ pc[d] = "closed"
        /\ Other(d) \notin mode
    BY <1>2 DEF OpenFails, calls
  <2>2. mode \cap Dirs = {}
    BY <1>1, <2>1 DEF Phase, Dirs, Other
  <2>3. UartWhileOpen' /\ (\A e \in Dirs : Phase(e))'
    BY <1>1, <2>1, <2>2 DEF Phase, UartWhileOpen
  <2> QED
    BY <1>1, <2>1, <2>3, RingsStay DEF IInv, TypeOK
<1>3. CASE Close(d)
  <2>1. /\ UNCHANGED <<mode, uart>> /\ pc[d] = "idle" /\ pc' = [pc EXCEPT ![d] = "drain"]
    BY <1>3 DEF Close, Goto, device
  <2>2. pc' \in PcType
    BY <1>1, <2>1 DEF PcType
  <2>3. UartWhileOpen' /\ (\A e \in Dirs : Phase(e))'
    BY <1>1, <2>1 DEF Phase, UartWhileOpen, IInv, PcType
  <2> QED
    BY <1>1, <2>1, <2>2, <2>3, RingsStay DEF IInv, TypeOK, PcType
<1>4. CASE CloseTrigger(d)
  <2>1. /\ uart' = uart /\ pc[d] = "drain" /\ mode' = mode \ {TriggerBit(d)}
        /\ \/ d = "out" /\ pc' = [pc EXCEPT ![d] = "drop"]
           \/ d = "in" /\ pc' = [pc EXCEPT ![d] = "ops"]
    BY <1>4 DEF CloseTrigger, Goto, TriggerBit, Dirs
  <2>2. pc' \in PcType /\ mode' \subseteq Bits /\ mode' \cap Dirs = mode \cap Dirs
    BY <1>1, <2>1 DEF PcType, TriggerBit, Dirs
  <2>3. UartWhileOpen'
    BY <2>1, <2>2 DEF UartWhileOpen, IInv
  <2>4. ASSUME NEW e \in Dirs PROVE Phase(e)'
    <3>1. Phase(e) /\ (e \in mode' <=> e \in mode)
      BY <1>1, <2>2
    <3>2. CASE e = d
      BY <3>1, <3>2, <1>1, <2>1 DEF Phase, PcType
    <3>3. CASE e # d
      BY <3>1, <3>3, <1>1, <2>1 DEF Phase, PcType
    <3> QED
      BY <3>2, <3>3
  <2> QED
    BY <1>1, <2>1, <2>2, <2>3, <2>4, RingsStay DEF IInv, TypeOK, PcType
<1>5. CASE CloseOps(d)
  <2>1. /\ pc[d] = "ops" /\ mode' = mode \ {d} /\ uart' = (uart /\ Other(d) \in mode)
        /\ pc' = [pc EXCEPT ![d] = "free"]
    BY <1>5 DEF CloseOps, Goto
  <2>2. pc' \in PcType /\ mode' \subseteq Bits /\ uart' \in BOOLEAN
    BY <1>1, <2>1 DEF PcType
  <2>3. UartWhileOpen'
    <3>1. mode' \cap Dirs # {} => Other(d) \in mode /\ uart
      BY <2>1 DEF Dirs, Other, UartWhileOpen, IInv
    <3> QED
      BY <2>1, <3>1 DEF UartWhileOpen
  <2>4. ASSUME NEW e \in Dirs PROVE Phase(e)'
    <3>1. Phase(e) /\ TriggerBit(e) # d
      BY <1>1 DEF TriggerBit, Dirs
    <3>2. CASE e = d
      BY <3>1, <3>2, <1>1, <2>1 DEF Phase, PcType
    <3>3. CASE e # d
      BY <3>1, <3>3, <1>1, <2>1 DEF Phase, PcType
    <3> QED
      BY <3>2, <3>3
  <2> QED
    BY <1>1, <2>2, <2>3, <2>4, RingsStay DEF IInv, TypeOK, PcType
<1> QED
  BY <1>2, <1>3, <1>4, <1>5

(* A new ring is sound.                                                    *)
LEMMA NewRingSound ==
  ASSUME NEW d \in Dirs
  PROVE  /\ NewRing(d) \in Ring /\ 0 \in Numbers
         /\ d = "in" => InSound(NewRing(d), 0, NoClaim)
         /\ d = "out" => OutSound(NewRing(d), 0, NoClaim)
<1> USE RawmidiAssumption
<1>1. NewRing(d) \in Ring /\ 0 \in Numbers
  BY DEF NewRing, Ring, Numbers
<1>2. d = "out" => OutSound(NewRing(d), 0, NoClaim)
  <2>1. NewRing("out").appl = 0 /\ NewRing("out").hw = 0 /\ NewRing("out").avail = Size
    BY DEF NewRing
  <2> QED
    BY <2>1, OutEmpty
<1> QED
  BY <1>1, <1>2, InNew

(* A step that gives direction d a new ring, number and claim.             *)
LEMMA RingStep ==
  ASSUME IInv, NEW d \in Dirs, NEW r \in Ring, NEW x \in Numbers, NEW c \in ClaimType,
         ring' = [ring EXCEPT ![d] = r], next' = [next EXCEPT ![d] = x],
         claim' = [claim EXCEPT ![d] = c],
         d = "in" => InSound(r, x, c), d = "out" => OutSound(r, x, c)
  PROVE  /\ ring' \in [Dirs -> Ring] /\ next' \in [Dirs -> Numbers]
         /\ claim' \in [Dirs -> ClaimType]
         /\ InSound(ring["in"], next["in"], claim["in"])'
         /\ OutSound(ring["out"], next["out"], claim["out"])'
<1>1. /\ ring \in [Dirs -> Ring] /\ next \in [Dirs -> Numbers]
      /\ claim \in [Dirs -> ClaimType]
  BY DEF IInv, TypeOK, ClaimType
<1>2. /\ ring' \in [Dirs -> Ring] /\ next' \in [Dirs -> Numbers]
      /\ claim' \in [Dirs -> ClaimType]
      /\ ring'[d] = r /\ next'[d] = x /\ claim'[d] = c
      /\ \A e \in Dirs \ {d} : /\ ring'[e] = ring[e] /\ next'[e] = next[e]
                                /\ claim'[e] = claim[e]
  BY <1>1
<1>3. InSound(ring["in"], next["in"], claim["in"])'
  <2>1. CASE d = "in"
    BY <2>1, <1>2
  <2>2. CASE d # "in"
    BY <2>2, <1>2, InStays DEF Dirs
  <2> QED
    BY <2>1, <2>2
<1>4. OutSound(ring["out"], next["out"], claim["out"])'
  <2>1. CASE d = "out"
    BY <2>1, <1>2
  <2>2. CASE d # "out"
    BY <2>2, <1>2, OutStays DEF Dirs
  <2> QED
    BY <2>1, <2>2
<1> QED
  BY <1>2, <1>3, <1>4

(* An open starts, and the end of a close leaves, an empty ring.           *)
LEMMA RuntimeStep ==
  ASSUME IInv, NEW d \in Dirs, Open(d) \/ CloseFree(d)
  PROVE  IInv'
<1>1. /\ UNCHANGED <<hooked, tx, rx, left, claim>> /\ pc[d] \in {"closed", "free"}
      /\ ring' = [ring EXCEPT ![d] = NewRing(d)] /\ next' = [next EXCEPT ![d] = 0]
      /\ pc \in PcType /\ mode \subseteq Bits /\ uart \in BOOLEAN
      /\ live \in [Dirs -> BOOLEAN] /\ claim \in [Dirs -> ClaimType]
      /\ \A e \in Dirs : Phase(e)
  BY DEF Open, CloseFree, device, IInv, TypeOK, PcType, ClaimType
<1>2. claim[d] = NoClaim /\ claim' = [claim EXCEPT ![d] = NoClaim] /\ NoClaim \in ClaimType
  BY <1>1 DEF Phase
<1>3. /\ ring' \in [Dirs -> Ring] /\ next' \in [Dirs -> Numbers]
      /\ claim' \in [Dirs -> ClaimType]
      /\ InSound(ring["in"], next["in"], claim["in"])'
      /\ OutSound(ring["out"], next["out"], claim["out"])'
  BY <1>1, <1>2, NewRingSound, RingStep
<1>4. CASE Open(d)
  <2>1. /\ live' = [live EXCEPT ![d] = TRUE] /\ mode' = mode \cup {d} /\ pc[d] = "closed"
        /\ uart' = (Other(d) \notin mode \/ uart) /\ pc' = [pc EXCEPT ![d] = "idle"]
    BY <1>4 DEF Open
  <2>2. /\ pc' \in PcType /\ mode' \subseteq Bits /\ uart' \in BOOLEAN
        /\ live' \in [Dirs -> BOOLEAN]
    BY <1>1, <2>1 DEF PcType, Bits
  <2>3. UartWhileOpen'
    <3>1. Other(d) \in mode => uart
      BY DEF IInv, UartWhileOpen, Other, Dirs
    <3> QED
      BY <2>1, <3>1 DEF UartWhileOpen
  <2>4. ASSUME NEW e \in Dirs PROVE Phase(e)'
    <3>1. Phase(e) /\ TriggerBit(e) # d
      BY <1>1 DEF TriggerBit, Dirs
    <3>2. CASE e = d
      BY <3>1, <3>2, <1>1, <1>2, <2>1 DEF Phase, PcType
    <3>3. CASE e # d
      BY <3>1, <3>3, <1>1, <2>1 DEF Phase, PcType
    <3> QED
      BY <3>2, <3>3
  <2> QED
    BY <1>1, <1>3, <2>2, <2>3, <2>4 DEF IInv, TypeOK, PcType, ClaimType
<1>5. CASE CloseFree(d)
  <2>1. /\ live' = [live EXCEPT ![d] = FALSE] /\ UNCHANGED <<mode, uart>> /\ pc[d] = "free"
        /\ pc' = [pc EXCEPT ![d] = "closed"]
    BY <1>5 DEF CloseFree, Goto, device
  <2>2. pc' \in PcType /\ live' \in [Dirs -> BOOLEAN] /\ UartWhileOpen'
    BY <1>1, <2>1 DEF PcType, IInv, UartWhileOpen
  <2>3. ASSUME NEW e \in Dirs PROVE Phase(e)'
    <3>1. Phase(e)
      BY <1>1
    <3>2. CASE e = d
      BY <3>1, <3>2, <1>1, <1>2, <2>1 DEF Phase, PcType
    <3>3. CASE e # d
      BY <3>1, <3>3, <1>1, <2>1 DEF Phase, PcType
    <3> QED
      BY <3>2, <3>3
  <2> QED
    BY <1>1, <1>3, <2>1, <2>2, <2>3 DEF IInv, TypeOK, PcType, ClaimType
<1> QED
  BY <1>4, <1>5

(* An update of a ring, written as a record: its buffer.                   *)
LEMMA SetBuf ==
  ASSUME NEW r \in Ring, NEW b
  PROVE  [r EXCEPT !.buf = b] = [buf |-> b, appl |-> r.appl, hw |-> r.hw, avail |-> r.avail]
BY DEF Ring

(* The same of appl_ptr.                                                   *)
LEMMA SetAppl ==
  ASSUME NEW r \in Ring, NEW a
  PROVE  [r EXCEPT !.appl = a] = [buf |-> r.buf, appl |-> a, hw |-> r.hw, avail |-> r.avail]
BY DEF Ring

(* The same of hw_ptr and avail.                                           *)
LEMMA SetHwAvail ==
  ASSUME NEW r \in Ring, NEW h, NEW v
  PROVE  [r EXCEPT !.hw = h, !.avail = v]
               = [buf |-> r.buf, appl |-> r.appl, hw |-> h, avail |-> v]
<1> DEFINE s == [r EXCEPT !.hw = h]
           t == [buf |-> r.buf, appl |-> r.appl, hw |-> h, avail |-> r.avail]
<1>1. [r EXCEPT !.hw = h, !.avail = v] = [s EXCEPT !.avail = v]
  OBVIOUS
<1>2. s = t
  BY DEF Ring
<1>3. [t EXCEPT !.avail = v] = [buf |-> r.buf, appl |-> r.appl, hw |-> h, avail |-> v]
  OBVIOUS
<1> HIDE DEF s, t
<1> QED
  BY <1>1, <1>2, <1>3

(* The same of both pointers.                                              *)
LEMMA SetApplHw ==
  ASSUME NEW r \in Ring, NEW a, NEW h
  PROVE  [r EXCEPT !.appl = a, !.hw = h]
               = [buf |-> r.buf, appl |-> a, hw |-> h, avail |-> r.avail]
<1> DEFINE s == [r EXCEPT !.appl = a]
           t == [buf |-> r.buf, appl |-> a, hw |-> r.hw, avail |-> r.avail]
<1>1. [r EXCEPT !.appl = a, !.hw = h] = [s EXCEPT !.hw = h]
  OBVIOUS
<1>2. s = t
  BY DEF Ring
<1>3. [t EXCEPT !.hw = h] = [buf |-> r.buf, appl |-> a, hw |-> h, avail |-> r.avail]
  OBVIOUS
<1> HIDE DEF s, t
<1> QED
  BY <1>1, <1>2, <1>3

(* The same of both pointers and avail.                                    *)
LEMMA SetPtrs ==
  ASSUME NEW r \in Ring, NEW a, NEW h, NEW v
  PROVE  [r EXCEPT !.appl = a, !.hw = h, !.avail = v]
               = [buf |-> r.buf, appl |-> a, hw |-> h, avail |-> v]
<1> DEFINE s == [r EXCEPT !.appl = a, !.hw = h]
           t == [buf |-> r.buf, appl |-> a, hw |-> h, avail |-> r.avail]
<1>1. [r EXCEPT !.appl = a, !.hw = h, !.avail = v] = [s EXCEPT !.avail = v]
  OBVIOUS
<1>2. s = t
  BY SetApplHw DEF Ring
<1>3. [t EXCEPT !.avail = v] = [buf |-> r.buf, appl |-> a, hw |-> h, avail |-> v]
  OBVIOUS
<1> HIDE DEF s, t
<1> QED
  BY <1>1, <1>2, <1>3

(* The same of the buffer and hw_ptr.                                      *)
LEMMA SetBufHw ==
  ASSUME NEW r \in Ring, NEW b, NEW h
  PROVE  [r EXCEPT !.buf = b, !.hw = h]
               = [buf |-> b, appl |-> r.appl, hw |-> h, avail |-> r.avail]
<1> DEFINE s == [r EXCEPT !.buf = b]
           t == [buf |-> b, appl |-> r.appl, hw |-> r.hw, avail |-> r.avail]
<1>1. [r EXCEPT !.buf = b, !.hw = h] = [s EXCEPT !.hw = h]
  OBVIOUS
<1>2. s = t
  BY SetBuf DEF Ring
<1>3. [t EXCEPT !.hw = h] = [buf |-> b, appl |-> r.appl, hw |-> h, avail |-> r.avail]
  OBVIOUS
<1> HIDE DEF s, t
<1> QED
  BY <1>1, <1>2, <1>3

(* The same of the buffer, hw_ptr and avail.                               *)
LEMMA SetBufHwAvail ==
  ASSUME NEW r \in Ring, NEW b, NEW h, NEW v
  PROVE  [r EXCEPT !.buf = b, !.hw = h, !.avail = v]
               = [buf |-> b, appl |-> r.appl, hw |-> h, avail |-> v]
<1> DEFINE s == [r EXCEPT !.buf = b, !.hw = h]
           t == [buf |-> b, appl |-> r.appl, hw |-> h, avail |-> r.avail]
<1>1. [r EXCEPT !.buf = b, !.hw = h, !.avail = v] = [s EXCEPT !.avail = v]
  OBVIOUS
<1>2. s = t
  BY SetBufHw DEF Ring
<1>3. [t EXCEPT !.avail = v] = [buf |-> b, appl |-> r.appl, hw |-> h, avail |-> v]
  OBVIOUS
<1> HIDE DEF s, t
<1> QED
  BY <1>1, <1>2, <1>3

(* The end of a drop leaves an empty output ring.                          *)
LEMMA DropStep ==
  ASSUME IInv, CloseDrop
  PROVE  IInv'
<1> USE RawmidiAssumption
<1> DEFINE r == ResetPtrs(ring["out"], "out")
<1>1. /\ "out" \in Dirs /\ pc["out"] = "drop" /\ pc' = [pc EXCEPT !["out"] = "ops"]
      /\ UNCHANGED <<hooked, mode, uart, tx, rx, live, left, claim>>
      /\ ring' = [ring EXCEPT !["out"] = r] /\ next' = [next EXCEPT !["out"] = 0]
      /\ pc \in PcType /\ claim \in [Dirs -> ClaimType] /\ ring \in [Dirs -> Ring]
      /\ \A e \in Dirs : Phase(e)
  BY DEF CloseDrop, Goto, device, IInv, TypeOK, PcType, Dirs, ClaimType
<1>2. claim["out"] = NoClaim /\ claim' = [claim EXCEPT !["out"] = NoClaim]
      /\ NoClaim \in ClaimType
  BY <1>1 DEF Phase
<1>3. r \in Ring /\ r.appl = 0 /\ r.hw = 0 /\ r.avail = Size
  <2>1. /\ ring["out"] \in Ring
        /\ 0 \in 0 .. Size - 1 /\ Size \in 0 .. Size
    BY <1>1
  <2>2. r = [ring["out"] EXCEPT !.appl = 0, !.hw = 0, !.avail = Size]
    BY DEF ResetPtrs
  <2> QED
    BY <2>1, <2>2, SetPtrs DEF Ring
<1>4. 0 \in Numbers /\ OutSound(r, 0, NoClaim)
  BY <1>3, OutEmpty, NewRingSound, <1>1
<1> HIDE DEF r
<1>5. /\ ring' \in [Dirs -> Ring] /\ next' \in [Dirs -> Numbers]
      /\ claim' \in [Dirs -> ClaimType]
      /\ InSound(ring["in"], next["in"], claim["in"])'
      /\ OutSound(ring["out"], next["out"], claim["out"])'
  BY <1>1, <1>2, <1>3, <1>4, RingStep
<1>6. pc' \in PcType /\ UartWhileOpen'
  BY <1>1 DEF PcType, IInv, UartWhileOpen
<1>7. ASSUME NEW e \in Dirs PROVE Phase(e)'
  <2>1. Phase(e)
    BY <1>1
  <2> QED
    BY <2>1, <1>1 DEF Phase, PcType
<1> QED
  BY <1>1, <1>5, <1>6, <1>7 DEF IInv, TypeOK, PcType, ClaimType

(* What snd_rawmidi_receive makes of the input ring.                       *)
LEMMA ReceivedSound ==
  ASSUME IInv, NEW k \in 0 .. Size - ring["in"].avail
  PROVE  Received(k) \in Ring /\ InSound(Received(k), next["in"], claim["in"])
<1> USE RawmidiAssumption
<1> DEFINE r == ring["in"]
           x == next["in"]
           B == [c \in 0 .. Size - 1 |->
                    IF \E i \in 0 .. k - 1 : c = (r.hw + i) % Size
                        THEN Number("in", r.avail + ((c - r.hw) % Size))
                        ELSE r.buf[c]]
           q == [buf |-> B, appl |-> r.appl, hw |-> (r.hw + k) % Size, avail |-> r.avail + k]
<1>1. /\ r \in Ring /\ x \in Numbers /\ claim["in"] \in ClaimType
      /\ r.buf \in [0 .. Size - 1 -> Numbers \cup {Zero}]
      /\ r.appl \in 0 .. Size - 1 /\ r.hw \in 0 .. Size - 1 /\ r.avail \in 0 .. Size
      /\ TypeOK /\ "in" \in Dirs
  BY RingTypes DEF IInv, Dirs
<1>2. Received(k) = q
  <2>1. Received(k) = [r EXCEPT !.buf = B, !.hw = (r.hw + k) % Size, !.avail = r.avail + k]
    BY DEF Received
  <2> HIDE DEF r, B
  <2> QED
    BY <2>1, <1>1, SetBufHwAvail
<1>3. ASSUME NEW i \in 0 .. k
      PROVE  (r.hw + i) % Size = Plus(Size, r.hw, i) /\ (r.hw + i) % Size \in 0 .. Size - 1
  <2>1. i \in 0 .. Size
    BY <1>1
  <2> QED
    BY <2>1, <1>1, PlusMod
<1>4. ASSUME NEW c \in 0 .. Size - 1
      PROVE  /\ (c - r.hw) % Size = Minus(Size, c, r.hw)
             /\ Minus(Size, c, r.hw) \in 0 .. Size - 1
  <2>1. r.hw \in 0 .. Size
    BY <1>1
  <2> QED
    BY <2>1, MinusMod
<1>5. B \in [0 .. Size - 1 -> Numbers \cup {Zero}]
  <2> SUFFICES ASSUME NEW c \in 0 .. Size - 1 PROVE B[c] \in Numbers \cup {Zero}
    OBVIOUS
  <2> DEFINE z == (c - r.hw) % Size
  <2>0. z \in 0 .. Size - 1
    BY <1>4
  <2> HIDE DEF z
  <2>1. r.avail + z \in Int
    BY <1>1, <2>0
  <2> USE DEF z
  <2>2. Number("in", r.avail + ((c - r.hw) % Size)) \in Numbers
    BY <1>1, <2>1, NumberType
  <2>3. r.buf[c] \in Numbers \cup {Zero}
    BY <1>1
  <2> QED
    BY <2>2, <2>3
<1>6. q \in Ring
  <2>1. (r.hw + k) % Size \in 0 .. Size - 1 /\ r.avail + k \in 0 .. Size
    BY <1>1, <1>3
  <2> HIDE DEF r, B
  <2> QED
    BY <1>1, <1>5, <2>1 DEF Ring
<1>7. ASSUME NEW j \in 0 .. Size - 1
      PROVE  B[j] = IF \E i \in 0 .. k - 1 : j = Plus(Size, r.hw, i)
                    THEN Plus(2 * Size, x, r.avail + Minus(Size, j, r.hw))
                    ELSE r.buf[j]
  <2>1. (\E i \in 0 .. k - 1 : j = (r.hw + i) % Size)
           <=> \E i \in 0 .. k - 1 : j = Plus(Size, r.hw, i)
    <3> DEFINE f(i) == (r.hw + i) % Size
               g(i) == Plus(Size, r.hw, i)
    <3>1. ASSUME NEW i \in 0 .. k - 1 PROVE f(i) = g(i)
      <4>1. i \in 0 .. k
        BY <1>1
      <4> QED
        BY <4>1, <1>3
    <3> HIDE DEF f, g
    <3>2. (\E i \in 0 .. k - 1 : j = f(i)) <=> \E i \in 0 .. k - 1 : j = g(i)
      BY <3>1
    <3> QED
      BY <3>2 DEF f, g
  <2>2. r.avail + Minus(Size, j, r.hw) \in 0 .. 2 * Size
    <3> DEFINE z == Minus(Size, j, r.hw)
    <3>1. z \in 0 .. Size - 1
      BY <1>4
    <3> HIDE DEF z
    <3>2. r.avail + z \in 0 .. 2 * Size
      BY <1>1, <3>1
    <3> QED
      BY <3>2 DEF z
  <2>3. 2 * Size \in Nat \ {0} /\ x \in 0 .. 2 * Size - 1
    BY <1>1 DEF Numbers
  <2>4. Number("in", r.avail + ((j - r.hw) % Size))
           = Plus(2 * Size, x, r.avail + Minus(Size, j, r.hw))
    BY <1>4, <2>2, <2>3, PlusMod DEF Number
  <2>5. B[j] = IF \E i \in 0 .. k - 1 : j = (r.hw + i) % Size
               THEN Number("in", r.avail + ((j - r.hw) % Size)) ELSE r.buf[j]
    OBVIOUS
  <2> HIDE DEF B, r, x
  <2> QED
    BY <2>1, <2>4, <2>5
<1>8. InSound(r, x, claim["in"])
  BY DEF IInv
<1>9. q.buf = B /\ q.appl = r.appl /\ q.avail = r.avail + k /\ q.hw = Plus(Size, r.hw, k)
  BY <1>3
<1> HIDE DEF q, B
<1>10. \A j \in 0 .. Size - 1 :
          q.buf[j] = IF \E i \in 0 .. k - 1 : j = Plus(Size, r.hw, i)
                     THEN Plus(2 * Size, x, r.avail + Minus(Size, j, r.hw))
                     ELSE r.buf[j]
  BY <1>7, <1>9
<1> HIDE DEF r, x
<1>11. k \in 0 .. Size - r.avail
  BY DEF r
<1>12. InSound(q, x, claim["in"])
  BY <1>1, <1>6, <1>8, <1>9, <1>10, <1>11, InReceives
<1> QED
  BY <1>2, <1>6, <1>12 DEF x

(* The receiver is emptied into the ring, or dropped.                      *)
LEMMA InputReadSound ==
  ASSUME IInv, NEW m
  PROVE  InputRead(m) \in Ring /\ InSound(InputRead(m), next["in"], claim["in"])
<1>1. ring["in"] \in Ring /\ ring["in"].avail \in 0 .. Size
  BY RingTypes DEF IInv, Dirs
<1>2. Accepted(rx) \in 0 .. Size - ring["in"].avail
  BY <1>1, RawmidiAssumption DEF Accepted, Min2, IInv, TypeOK
<1>3. InSound(ring["in"], next["in"], claim["in"])
  BY DEF IInv
<1> QED
  BY <1>1, <1>2, <1>3, ReceivedSound DEF InputRead

(* What snd_rawmidi_transmit_ack makes of the output ring.                 *)
LEMMA SentSound ==
  ASSUME IInv, NEW k \in 0 .. Filled("out")
  PROVE  /\ Sent(k) \in Ring /\ Number("out", k) \in Numbers
         /\ OutSound(Sent(k), Number("out", k), claim["out"])
<1> USE RawmidiAssumption
<1> DEFINE r == ring["out"]
           x == next["out"]
           q == [buf |-> r.buf, appl |-> r.appl, hw |-> (r.hw + k) % Size, avail |-> r.avail + k]
<1>1. /\ r \in Ring /\ x \in Numbers /\ claim["out"] \in ClaimType
      /\ r.buf \in [0 .. Size - 1 -> Numbers \cup {Zero}]
      /\ r.appl \in 0 .. Size - 1 /\ r.hw \in 0 .. Size - 1 /\ r.avail \in 0 .. Size
      /\ TypeOK /\ "out" \in Dirs
  BY RingTypes DEF IInv, Dirs
<1>2. k \in 0 .. Size - r.avail /\ k \in 0 .. Size /\ k \in 0 .. 2 * Size /\ k \in Int
  BY <1>1 DEF Filled
<1>3. Sent(k) = q
  <2>1. Sent(k) = [r EXCEPT !.hw = (r.hw + k) % Size, !.avail = r.avail + k]
    BY DEF Sent
  <2> HIDE DEF r
  <2> QED
    BY <2>1, <1>1, SetHwAvail
<1>4. (r.hw + k) % Size = Plus(Size, r.hw, k) /\ (r.hw + k) % Size \in 0 .. Size - 1
  BY <1>1, <1>2, PlusMod
<1>5. q \in Ring
  <2>1. r.avail + k \in 0 .. Size
    BY <1>1, <1>2
  <2> HIDE DEF r
  <2> QED
    BY <1>1, <1>4, <2>1 DEF Ring
<1>6. Number("out", k) \in Numbers /\ Number("out", k) = Plus(2 * Size, x, k)
  <2>1. 2 * Size \in Nat \ {0} /\ x \in 0 .. 2 * Size - 1
    BY <1>1 DEF Numbers
  <2> QED
    BY <1>1, <1>2, <2>1, PlusMod, NumberType DEF Number
<1>7. OutSound(r, x, claim["out"])
  BY DEF IInv
<1>8. q.buf = r.buf /\ q.appl = r.appl /\ q.hw = Plus(Size, r.hw, k) /\ q.avail = r.avail + k
  BY <1>4
<1> HIDE DEF q, r, x
<1>9. OutSound(q, Plus(2 * Size, x, k), claim["out"])
  BY <1>1, <1>2, <1>5, <1>7, <1>8, OutSends
<1> QED
  BY <1>3, <1>5, <1>6, <1>9

(* What the transmitter takes fits its FIFO and is in the ring.            *)
LEMMA MovedType ==
  ASSUME IInv
  PROVE  Moved \in 0 .. Filled("out") /\ tx + Moved \in 0 .. TxFifo /\ 0 \in 0 .. Filled("out")
<1>1. ring["out"].avail \in 0 .. Size
  BY RingTypes DEF IInv, Dirs
<1>2. Filled("out") \in 0 .. Size
  BY <1>1, RawmidiAssumption DEF Filled
<1>3. tx \in 0 .. TxFifo
  BY DEF IInv, TypeOK
<1> QED
  BY <1>2, <1>3, RawmidiAssumption DEF Moved, Min2

-----------------------------------------------------------------------------
(* An interrupt fills the input ring and drains the output ring, each only *)
(* while its direction is open and triggered.                              *)
LEMMA InterruptStep ==
  ASSUME IInv, Interrupt
  PROVE  IInv'
<1> USE RawmidiAssumption
<1> DEFINE in == IF "in" \in mode THEN InputRead(mode) ELSE ring["in"]
           k == IF TxRuns THEN Moved ELSE 0
<1>1. /\ UNCHANGED <<hooked, mode, uart, live, pc, left, claim>> /\ rx' = 0
      /\ ring' = [d \in Dirs |-> IF d = "in" THEN in ELSE Sent(k)]
      /\ tx' = tx + k /\ next' = [next EXCEPT !["out"] = Number("out", k)]
  BY DEF Interrupt, OutputWrite, calls
<1>2. in \in Ring /\ InSound(in, next["in"], claim["in"])
  <2>1. ring["in"] \in Ring /\ InSound(ring["in"], next["in"], claim["in"])
    BY RingTypes DEF IInv, Dirs
  <2> QED
    BY <2>1, InputReadSound
<1>3. k \in 0 .. Filled("out") /\ tx + k \in 0 .. TxFifo
  <2>1. tx \in 0 .. TxFifo
    BY DEF IInv, TypeOK
  <2> QED
    BY <2>1, MovedType
<1> HIDE DEF in, k
<1>4. /\ Sent(k) \in Ring /\ Number("out", k) \in Numbers
      /\ OutSound(Sent(k), Number("out", k), claim["out"])
  BY <1>3, SentSound
<1>5. next \in [Dirs -> Numbers]
  BY DEF IInv, TypeOK
<1>6. /\ ring' \in [Dirs -> Ring] /\ next' \in [Dirs -> Numbers]
      /\ ring'["in"] = in /\ ring'["out"] = Sent(k)
      /\ next'["in"] = next["in"] /\ next'["out"] = Number("out", k)
  BY <1>1, <1>2, <1>4, <1>5 DEF Dirs
<1>7. /\ InSound(ring["in"], next["in"], claim["in"])'
      /\ OutSound(ring["out"], next["out"], claim["out"])'
  BY <1>1, <1>2, <1>4, <1>6
<1>8. TypeOK' /\ UartWhileOpen'
  BY <1>1, <1>3, <1>6 DEF IInv, TypeOK, UartWhileOpen
<1>9. (\A d \in Dirs : Phase(d))'
  BY <1>1 DEF IInv, Phase
<1> QED
  BY <1>7, <1>8, <1>9 DEF IInv

(* A read empties the receiver into the ring first.                        *)
LEMMA ReadAdvanceStep ==
  ASSUME IInv, ReadAdvance
  PROVE  IInv'
<1> USE RawmidiAssumption
<1>1. /\ pc["in"] = "advance" /\ pc' = [pc EXCEPT !["in"] = "loop"] /\ rx' = 0
      /\ ring' = [ring EXCEPT !["in"] = InputRead(mode)]
      /\ UNCHANGED <<hooked, mode, uart, tx, live, next, left, claim>> /\ "in" \in Dirs
  BY DEF ReadAdvance, Goto, Dirs
<1>2. InputRead(mode) \in Ring /\ InSound(InputRead(mode), next["in"], claim["in"])
  BY InputReadSound
<1>3. /\ next["in"] \in Numbers /\ claim["in"] \in ClaimType /\ claim["in"] = NoClaim
      /\ next' = [next EXCEPT !["in"] = next["in"]]
      /\ claim' = [claim EXCEPT !["in"] = claim["in"]]
  BY <1>1, RingTypes DEF IInv, TypeOK, Phase
<1>4. /\ ring' \in [Dirs -> Ring] /\ next' \in [Dirs -> Numbers]
      /\ claim' \in [Dirs -> ClaimType]
      /\ InSound(ring["in"], next["in"], claim["in"])'
      /\ OutSound(ring["out"], next["out"], claim["out"])'
  BY <1>1, <1>2, <1>3, RingStep
<1>5. UartWhileOpen' /\ (\A e \in Dirs : Phase(e))' /\ mode' \subseteq Bits
  BY <1>1, <1>3, CallStep
<1>6. pc' \in PcType
  BY <1>1 DEF IInv, TypeOK, PcType
<1> QED
  BY <1>1, <1>4, <1>5, <1>6 DEF IInv, TypeOK, PcType, ClaimType

(* The end of a write triggers the output, which sends what the FIFO takes *)
LEMMA WriteTriggersStep ==
  ASSUME IInv, WriteTriggers
  PROVE  IInv'
<1>1. /\ pc["out"] = "trigger" /\ pc' = [pc EXCEPT !["out"] = "idle"] /\ tx' = tx + Moved
      /\ mode' = mode \cup {TriggerBit("out")} /\ "out" \in Dirs
      /\ ring' = [ring EXCEPT !["out"] = Sent(Moved)]
      /\ next' = [next EXCEPT !["out"] = Number("out", Moved)]
      /\ UNCHANGED <<hooked, uart, rx, live, left, claim>>
  BY DEF WriteTriggers, OutputWrite, Goto, TriggerBit, Dirs
<1>2. /\ Sent(Moved) \in Ring /\ Number("out", Moved) \in Numbers
      /\ OutSound(Sent(Moved), Number("out", Moved), claim["out"])
      /\ tx + Moved \in 0 .. TxFifo
  BY MovedType, SentSound
<1>3. /\ claim["out"] \in ClaimType /\ claim["out"] = NoClaim
      /\ claim' = [claim EXCEPT !["out"] = claim["out"]]
  BY <1>1, RingTypes DEF IInv, TypeOK, Phase
<1>4. /\ ring' \in [Dirs -> Ring] /\ next' \in [Dirs -> Numbers]
      /\ claim' \in [Dirs -> ClaimType]
      /\ InSound(ring["in"], next["in"], claim["in"])'
      /\ OutSound(ring["out"], next["out"], claim["out"])'
  BY <1>1, <1>2, <1>3, RingStep
<1>5. UartWhileOpen' /\ (\A e \in Dirs : Phase(e))' /\ mode' \subseteq Bits
  BY <1>1, <1>3, CallStep
<1>6. pc' \in PcType
  BY <1>1 DEF IInv, TypeOK, PcType
<1> QED
  BY <1>1, <1>2, <1>4, <1>5, <1>6 DEF IInv, TypeOK, PcType, ClaimType

(* A pass of the loop claims a part of the ring that does not wrap.        *)
LEMMA ClaimStep ==
  ASSUME IInv, NEW d \in Dirs, Claim(d)
  PROVE  IInv'
<1> USE RawmidiAssumption
<1> DEFINE r == ring[d]
           n == ClaimSize(d)
           x == next[d]
           y == IF d = "in" THEN Number(d, n) ELSE next[d]
           c == [at |-> r.appl, n |-> n]
           q == [buf |-> r.buf, appl |-> (r.appl + n) % Size, hw |-> r.hw, avail |-> r.avail - n]
<1>1. /\ pc[d] = "loop" /\ left[d] > 0 /\ r.avail > 0 /\ pc' = [pc EXCEPT ![d] = "copy"]
      /\ claim' = [claim EXCEPT ![d] = c]
      /\ ring' = [ring EXCEPT ![d].appl = (@ + n) % Size, ![d].avail = @ - n]
      /\ left' = [left EXCEPT ![d] = @ - n] /\ next' = [next EXCEPT ![d] = y]
      /\ UNCHANGED <<hooked, mode, uart, tx, rx, live>>
  BY DEF Claim, Goto, device
<1>2. /\ r \in Ring /\ x \in Numbers /\ claim[d] \in ClaimType /\ TypeOK
      /\ r.buf \in [0 .. Size - 1 -> Numbers \cup {Zero}]
      /\ r.appl \in 0 .. Size - 1 /\ r.hw \in 0 .. Size - 1 /\ r.avail \in 0 .. Size
      /\ left[d] \in Nat /\ left \in [Dirs -> Nat] /\ ring \in [Dirs -> Ring]
  BY RingTypes DEF IInv, TypeOK
<1>3. /\ n \in 1 .. r.avail /\ r.appl + n <= Size /\ n <= left[d] /\ n \in 0 .. Size
      /\ n \in 0 .. 2 * Size /\ n \in Int
  <2> DEFINE A == Size - r.appl
             L == left[d]
             V == r.avail
  <2>1. A \in 1 .. Size /\ L \in Nat /\ L > 0 /\ V \in 1 .. Size
    BY <1>1, <1>2
  <2>2. n = Min2(A, Min2(L, V))
    BY DEF ClaimSize
  <2> HIDE DEF A, L, V, n
  <2>3. n \in Int /\ n >= 1 /\ n <= V /\ n <= A /\ n <= L
    BY <2>1, <2>2 DEF Min2
  <2> QED
    BY <2>1, <2>3, <1>2 DEF A, L, V
<1> HIDE DEF n
<1>4. claim[d] = NoClaim
  BY <1>1 DEF IInv, Phase
<1>5. ring' = [ring EXCEPT ![d] = q]
  <2> DEFINE a == (r.appl + n) % Size
             v == r.avail - n
             s == [r EXCEPT !.appl = a]
             mid == [ring EXCEPT ![d] = s]
  <2>1. mid = [ring EXCEPT ![d].appl = (@ + n) % Size]
    BY <1>2
  <2>2. s = [buf |-> r.buf, appl |-> a, hw |-> r.hw, avail |-> r.avail]
    <3>1. r \in Ring
      BY <1>2
    <3> HIDE DEF a, r
    <3> QED
      BY <3>1, SetAppl
  <2>3. mid[d] = s /\ s.avail = r.avail
    BY <1>2, <2>2
  <2> HIDE DEF s, a, mid
  <2>4. ring' = [mid EXCEPT ![d].avail = @ - n]
    BY <1>1, <2>1
  <2>5. ring' = [mid EXCEPT ![d] = [s EXCEPT !.avail = v]]
    BY <2>3, <2>4
  <2>6. [s EXCEPT !.avail = v] = [buf |-> r.buf, appl |-> a, hw |-> r.hw, avail |-> v]
    BY <2>2
  <2> DEFINE e == [s EXCEPT !.avail = v]
  <2>7. ring' = [mid EXCEPT ![d] = e]
    BY <2>5
  <2> HIDE DEF e
  <2>8. ring' = [ring EXCEPT ![d] = e]
    BY <2>7, <1>2 DEF mid
  <2> QED
    BY <2>6, <2>8 DEF e, a
<1>6. (r.appl + n) % Size = Plus(Size, r.appl, n) /\ (r.appl + n) % Size \in 0 .. Size - 1
  <2>1. r.appl \in 0 .. Size - 1 /\ n \in 0 .. Size
    BY <1>2, <1>3
  <2> HIDE DEF r
  <2> QED
    BY <2>1, PlusMod
<1>7. q \in Ring
  <2>1. r.avail - n \in 0 .. Size
    BY <1>2, <1>3
  <2> HIDE DEF r
  <2> QED
    BY <1>2, <1>6, <2>1 DEF Ring
<1>8. c \in ClaimType
  <2> HIDE DEF r
  <2> QED
    BY <1>2, <1>3 DEF ClaimType
<1>9. y \in Numbers /\ (d = "in" => y = Plus(2 * Size, x, n)) /\ (d = "out" => y = x)
  <2>1. 2 * Size \in Nat \ {0} /\ x \in 0 .. 2 * Size - 1
    BY <1>2 DEF Numbers
  <2>2. Number(d, n) \in Numbers /\ Number(d, n) = Plus(2 * Size, x, n)
    BY <1>2, <1>3, <2>1, PlusMod, NumberType DEF Number
  <2> QED
    BY <1>2, <2>2
<1>10. /\ q.buf = r.buf /\ q.appl = Plus(Size, r.appl, n) /\ q.hw = r.hw
       /\ q.avail = r.avail - n
  BY <1>6
<1>11. d = "in" => InSound(r, x, NoClaim)
  BY <1>4 DEF IInv
<1>12. d = "out" => OutSound(r, x, NoClaim)
  BY <1>4 DEF IInv
<1> HIDE DEF q, r, x, y
<1>13. d = "in" => InSound(q, y, c)
  BY <1>2, <1>3, <1>7, <1>9, <1>10, <1>11, InClaims
<1>14. d = "out" => OutSound(q, y, c)
  BY <1>2, <1>3, <1>7, <1>9, <1>10, <1>12, OutClaims
<1> HIDE DEF c
<1>15. /\ ring' \in [Dirs -> Ring] /\ next' \in [Dirs -> Numbers]
       /\ claim' \in [Dirs -> ClaimType]
       /\ InSound(ring["in"], next["in"], claim["in"])'
       /\ OutSound(ring["out"], next["out"], claim["out"])'
  BY <1>1, <1>5, <1>7, <1>8, <1>9, <1>13, <1>14, RingStep
<1>16. \A e \in Dirs \ {d} : claim'[e] = claim[e]
  BY <1>1 DEF IInv, TypeOK
<1>17. UartWhileOpen' /\ (\A e \in Dirs : Phase(e))' /\ mode' \subseteq Bits
  BY <1>1, <1>16, CallStep
<1>18. pc' \in PcType /\ left' \in [Dirs -> Nat]
  <2>1. left[d] - n \in Nat
    BY <1>2, <1>3
  <2> QED
    BY <1>1, <1>2, <2>1 DEF TypeOK, PcType
<1> QED
  BY <1>1, <1>2, <1>15, <1>17, <1>18 DEF IInv, TypeOK, PcType, ClaimType

(* The cells of a claim.                                                   *)
LEMMA ClaimedIs ==
  ASSUME TypeOK, NEW d \in Dirs
  PROVE  Claimed(d) = claim[d].at .. claim[d].at + claim[d].n - 1
<1> DEFINE a == claim[d].at
           n == claim[d].n
<1>1. a \in Int /\ n \in Int
  <2>1. claim[d] \in ClaimType
    BY RingTypes
  <2> QED
    BY <2>1 DEF ClaimType
<1>2. Claimed(d) = {a + i : i \in 0 .. n - 1}
  BY DEF Claimed, ClaimCell
<1> HIDE DEF a, n
<1>3. ASSUME NEW j \in a .. a + n - 1 PROVE \E i \in 0 .. n - 1 : j = a + i
  <2>1. j - a \in 0 .. n - 1 /\ j = a + (j - a)
    BY <1>1
  <2> QED
    BY <2>1
<1>4. {a + i : i \in 0 .. n - 1} = a .. a + n - 1
  BY <1>1, <1>3
<1> QED
  BY <1>2, <1>4 DEF a, n

(* The writer copies its bytes into the cells it has claimed.              *)
LEMMA CopyInStep ==
  ASSUME IInv, CopyIn
  PROVE  IInv'
<1> USE RawmidiAssumption
<1> DEFINE r == ring["out"]
           x == next["out"]
           c == claim["out"]
           f(j) == (x + (Size - r.avail - c.n + (j - c.at))) % (2 * Size)
           B == [j \in 0 .. Size - 1 |-> IF j \in c.at .. c.at + c.n - 1 THEN f(j) ELSE r.buf[j]]
           q == [buf |-> B, appl |-> r.appl, hw |-> r.hw, avail |-> r.avail]
<1>1. /\ pc["out"] = "copy" /\ pc' = [pc EXCEPT !["out"] = "loop"] /\ "out" \in Dirs
      /\ claim' = [claim EXCEPT !["out"] = NoClaim]
      /\ UNCHANGED <<hooked, mode, uart, tx, rx, live, next, left>>
  BY DEF CopyIn, Goto, device, Dirs
<1>2. /\ r \in Ring /\ x \in Numbers /\ c \in ClaimType /\ TypeOK
      /\ r.buf \in [0 .. Size - 1 -> Numbers \cup {Zero}]
      /\ r.appl \in 0 .. Size - 1 /\ r.hw \in 0 .. Size - 1 /\ r.avail \in 0 .. Size
      /\ ring \in [Dirs -> Ring]
  BY <1>1, RingTypes DEF IInv, TypeOK
<1>3. c.at \in 0 .. Size - 1 /\ c.n \in 0 .. Size /\ x \in Int
  BY <1>2 DEF ClaimType, Numbers
<1>4. ring' = [ring EXCEPT !["out"] = [r EXCEPT !.buf = B]]
  <2>1. B = [j \in 0 .. Size - 1 |-> IF j \in Claimed("out")
                                     THEN WriteNumber(j - c.at) ELSE r.buf[j]]
    <3>1. Claimed("out") = c.at .. c.at + c.n - 1
      BY <1>1, <1>2, ClaimedIs
    <3>2. \A j : WriteNumber(j - c.at) = f(j)
      BY DEF WriteNumber, Number, Filled
    <3> HIDE DEF f
    <3> QED
      BY <3>1, <3>2
  <2>2. ring' = [ring EXCEPT !["out"].buf =
                   [j \in 0 .. Size - 1 |-> IF j \in Claimed("out")
                                           THEN WriteNumber(j - c.at) ELSE r.buf[j]]]
    BY DEF CopyIn
  <2>3. ring' = [ring EXCEPT !["out"].buf = B]
    BY <2>1, <2>2
  <2> HIDE DEF B
  <2> QED
    BY <2>3
<1>5. [r EXCEPT !.buf = B] = q
  <2> HIDE DEF r, B
  <2> QED
    BY <1>2, SetBuf
<1>6. ASSUME NEW j \in 0 .. Size - 1 PROVE f(j) \in Numbers
  <2> DEFINE z == x + (Size - r.avail - c.n + (j - c.at))
  <2>1. z \in Int /\ 2 * Size \in Nat \ {0}
    <3>1. /\ r.avail \in Int /\ c.n \in Int /\ c.at \in Int /\ x \in Int
          /\ j \in Int /\ Size \in Nat \ {0}
      BY <1>2, <1>3
    <3> HIDE DEF r, c, x
    <3> QED
      BY <3>1
  <2> HIDE DEF z
  <2>2. z % (2 * Size) \in 0 .. 2 * Size - 1
    BY <2>1
  <2> QED
    BY <2>2 DEF z, Numbers
<1>7. B \in [0 .. Size - 1 -> Numbers \cup {Zero}]
  <2> HIDE DEF f, r
  <2> QED
    BY <1>2, <1>6
<1>8. \A j \in 0 .. Size - 1 : B[j] = IF j \in c.at .. c.at + c.n - 1
                       THEN (x + (Size - r.avail - c.n + (j - c.at))) % (2 * Size)
                       ELSE r.buf[j]
  OBVIOUS
<1>9. OutSound(r, x, c)
  BY DEF IInv
<1> HIDE DEF r, x, c, B
<1>10. q \in Ring
  BY <1>2, <1>7 DEF Ring
<1>11. q.buf = B /\ q.appl = r.appl /\ q.hw = r.hw /\ q.avail = r.avail
  OBVIOUS
<1> HIDE DEF q
<1>12. OutSound(q, x, NoClaim)
  BY <1>2, <1>8, <1>9, <1>10, <1>11, OutCopies
<1>13. /\ next' = [next EXCEPT !["out"] = x] /\ NoClaim \in ClaimType
  BY <1>1 DEF IInv, TypeOK, x, NoClaim, ClaimType
<1>14. /\ ring' \in [Dirs -> Ring] /\ next' \in [Dirs -> Numbers]
       /\ claim' \in [Dirs -> ClaimType]
       /\ InSound(ring["in"], next["in"], claim["in"])'
       /\ OutSound(ring["out"], next["out"], claim["out"])'
  <2>1. ring' = [ring EXCEPT !["out"] = q]
    BY <1>4, <1>5
  <2> QED
    BY <2>1, <1>1, <1>2, <1>10, <1>12, <1>13, RingStep
<1>15. \A e \in Dirs \ {"out"} : claim'[e] = claim[e]
  BY <1>1 DEF IInv, TypeOK
<1>16. claim'["out"] = NoClaim
  BY <1>1 DEF IInv, TypeOK
<1>17. UartWhileOpen' /\ (\A e \in Dirs : Phase(e))' /\ mode' \subseteq Bits
  BY <1>1, <1>15, <1>16, CallStep
<1>18. pc' \in PcType
  BY <1>1, <1>2 DEF TypeOK, PcType
<1> QED
  BY <1>1, <1>2, <1>14, <1>17, <1>18 DEF TypeOK, IInv, PcType, ClaimType

(* The reader has copied its bytes out of the ring.                        *)
LEMMA CopyOutStep ==
  ASSUME IInv, CopyOut
  PROVE  IInv'
<1>1. /\ pc["in"] = "copy" /\ pc' = [pc EXCEPT !["in"] = "loop"] /\ "in" \in Dirs
      /\ claim' = [claim EXCEPT !["in"] = NoClaim]
      /\ UNCHANGED <<hooked, mode, uart, tx, rx, live, ring, next, left>>
  BY DEF CopyOut, Goto, device, Dirs, rings
<1>2. /\ ring["in"] \in Ring /\ next["in"] \in Numbers /\ claim["in"] \in ClaimType
      /\ ring' = [ring EXCEPT !["in"] = ring["in"]]
      /\ next' = [next EXCEPT !["in"] = next["in"]] /\ NoClaim \in ClaimType
  BY <1>1, RingTypes, RawmidiAssumption DEF IInv, TypeOK, NoClaim, ClaimType
<1>3. InSound(ring["in"], next["in"], NoClaim)
  BY <1>2, InWithoutClaim DEF IInv
<1>4. /\ ring' \in [Dirs -> Ring] /\ next' \in [Dirs -> Numbers]
      /\ claim' \in [Dirs -> ClaimType]
      /\ InSound(ring["in"], next["in"], claim["in"])'
      /\ OutSound(ring["out"], next["out"], claim["out"])'
  BY <1>1, <1>2, <1>3, RingStep
<1>5. claim'["in"] = NoClaim /\ \A e \in Dirs \ {"in"} : claim'[e] = claim[e]
  BY <1>1 DEF IInv, TypeOK
<1>6. UartWhileOpen' /\ (\A e \in Dirs : Phase(e))' /\ mode' \subseteq Bits
  BY <1>1, <1>5, CallStep
<1>7. pc' \in PcType
  BY <1>1 DEF IInv, TypeOK, PcType
<1> QED
  BY <1>1, <1>4, <1>6, <1>7 DEF TypeOK, IInv, PcType, ClaimType

-----------------------------------------------------------------------------
(* Every step of a call, a close, the device or its interrupt keeps the    *)
(* invariant.                                                              *)
LEMMA NextIInv ==
  ASSUME IInv, [Next]_vars
  PROVE  IInv'
<1>1. ASSUME NEW d \in Dirs, ThreadStep(d) PROVE IInv'
  BY <1>1, ClaimStep, QuietCloseStep, RuntimeStep, QuietCallStep, ReadAdvanceStep,
     CopyOutStep, CopyInStep, WriteTriggersStep, DropStep DEF ThreadStep
<1>2. ASSUME NEW d \in Dirs, Open(d) \/ OpenFails(d) \/ Close(d) PROVE IInv'
  BY <1>2, QuietCloseStep, RuntimeStep
<1>3. CASE Interrupt \/ Transmit \/ Arrive \/ Write \/ Read
  BY <1>3, InterruptStep, DeviceStep, QuietCallStep
<1>4. CASE UNCHANGED vars
  <2>1. UNCHANGED <<hooked, mode, uart, tx, rx, live, ring, next, pc, left, claim>>
    BY <1>4 DEF vars, device, calls, rings
  <2>2. TypeOK' /\ UartWhileOpen'
    BY <2>1 DEF IInv, TypeOK, UartWhileOpen
  <2>3. (\A d \in Dirs : Phase(d))'
    BY <2>1 DEF IInv, Phase
  <2> QED
    BY <2>1, <2>2, <2>3, RingsStay DEF IInv
<1> QED
  BY <1>1, <1>2, <1>3, <1>4 DEF Next

(* The inductive invariant holds in every reachable state.                 *)
THEOREM RawmidiInvariant == Spec => []IInv
<1>1. Init => IInv
  BY InitIInv
<1>2. IInv /\ [Next]_vars => IInv'
  BY NextIInv
<1> QED
  BY <1>1, <1>2, PTL DEF Spec

(* While a direction is open the device is in UART mode, whatever the      *)
(* opens, failed opens and closes of the other direction do.               *)
THEOREM RawmidiUartWhileOpen == Spec => []UartWhileOpen
<1>1. IInv => UartWhileOpen
  BY DEF IInv
<1> QED
  BY <1>1, RawmidiInvariant, PTL

(* An interrupt that finds the bit of a direction set finds its runtime,   *)
(* and no trigger bit outlives its direction.                              *)
THEOREM RawmidiClosedIsQuiet == Spec => []ClosedIsQuiet
<1>1. IInv => ClosedIsQuiet
  BY DEF IInv, ClosedIsQuiet, Phase, TriggerBit, Dirs
<1> QED
  BY <1>1, RawmidiInvariant, PTL

(* The cells and numbers of the model, for bytes that wrap once at most.   *)
LEMMA CellNumber ==
  ASSUME TypeOK, NEW d \in Dirs, NEW i \in 0 .. Size
  PROVE  Cell(d, i) = Plus(Size, Tail(d), i) /\ Number(d, i) = Plus(2 * Size, next[d], i)
<1> USE RawmidiAssumption
<1>1. Tail(d) \in 0 .. Size - 1
  BY RingTypes DEF Tail
<1>2. 2 * Size \in Nat \ {0} /\ next[d] \in 0 .. 2 * Size - 1 /\ i \in 0 .. 2 * Size
  BY RingTypes DEF Numbers
<1>3. (Tail(d) + i) % Size = Plus(Size, Tail(d), i)
  BY <1>1, PlusMod
<1>4. (next[d] + i) % (2 * Size) = Plus(2 * Size, next[d], i)
  BY <1>2, PlusMod
<1> QED
  BY <1>3, <1>4 DEF Cell, Number

(* The output ring holds the written bytes in order, but for the part a    *)
(* write has claimed and not yet copied, while interrupts send from it.    *)
THEOREM RawmidiOutputIntact == Spec => []OutputIntact
<1>1. ASSUME IInv PROVE OutputIntact
  <2> USE RawmidiAssumption
  <2> DEFINE r == ring["out"]
  <2>1. /\ TypeOK /\ "out" \in Dirs /\ r.avail \in 0 .. Size
    BY <1>1, RingTypes DEF IInv, Dirs
  <2>2. \A i \in 0 .. Size - r.avail - 1 :
          Plus(Size, r.hw, i) \notin claim["out"].at .. claim["out"].at + claim["out"].n - 1
              => r.buf[Plus(Size, r.hw, i)] = Plus(2 * Size, next["out"], i)
    BY <1>1 DEF IInv, OutSound
  <2>3. Claimed("out") = claim["out"].at .. claim["out"].at + claim["out"].n - 1
    BY <2>1, ClaimedIs
  <2>4. Filled("out") = Size - r.avail /\ Tail("out") = r.hw
    BY DEF Filled, Tail
  <2>5. ASSUME NEW i \in 0 .. Filled("out") - 1, Cell("out", i) \notin Claimed("out")
        PROVE  r.buf[Cell("out", i)] = Number("out", i)
    <3>1. i \in 0 .. Size - r.avail - 1 /\ i \in 0 .. Size
      BY <2>1, <2>4
    <3>2. /\ Cell("out", i) = Plus(Size, r.hw, i)
          /\ Number("out", i) = Plus(2 * Size, next["out"], i)
      BY <2>1, <2>4, <3>1, CellNumber
    <3> HIDE DEF r
    <3> QED
      BY <2>2, <2>3, <2>5, <3>1, <3>2
  <2> QED
    BY <2>5 DEF OutputIntact
<1> QED
  BY <1>1, RawmidiInvariant, PTL

(* The input ring holds the accepted bytes in order, and a claimed byte is *)
(* lost only when interrupts have filled the ring up to its cell.          *)
THEOREM RawmidiInputIntact == Spec => []InputIntact
<1>1. ASSUME IInv PROVE InputIntact
  <2> USE RawmidiAssumption
  <2> DEFINE r == ring["in"]
             x == next["in"]
             c == claim["in"]
  <2>1. /\ TypeOK /\ "in" \in Dirs /\ r.avail \in 0 .. Size
        /\ c \in ClaimType /\ x \in Numbers
    BY <1>1, RingTypes DEF IInv, Dirs
  <2>2. /\ \A i \in 0 .. r.avail - 1 : r.buf[Plus(Size, r.appl, i)] = Plus(2 * Size, x, i)
        /\ \A i \in 0 .. c.n - 1 : i >= r.avail + c.n - Size
              => r.buf[c.at + i] = Minus(2 * Size, x, c.n - i)
    BY <1>1 DEF IInv, InSound
  <2>3. Filled("in") = r.avail /\ Tail("in") = r.appl
    BY DEF Filled, Tail
  <2>4. ASSUME NEW i \in 0 .. Filled("in") - 1
        PROVE  r.buf[Cell("in", i)] = Number("in", i)
    <3>1. i \in 0 .. r.avail - 1 /\ i \in 0 .. Size
      BY <2>1, <2>3
    <3>2. Cell("in", i) = Plus(Size, r.appl, i) /\ Number("in", i) = Plus(2 * Size, x, i)
      BY <2>1, <2>3, <3>1, CellNumber
    <3> HIDE DEF r, x
    <3> QED
      BY <2>2, <3>1, <3>2
  <2>5. ASSUME NEW i \in 0 .. c.n - 1, i >= Filled("in") + c.n - Size
        PROVE  r.buf[ClaimCell("in", i)] = (x - c.n + i) % (2 * Size)
    <3>1. c.n \in 0 .. Size /\ x \in 0 .. 2 * Size - 1 /\ i \in 0 .. c.n - 1
      BY <2>1 DEF ClaimType, Numbers
    <3>2. ClaimCell("in", i) = c.at + i
      BY DEF ClaimCell
    <3>3. r.buf[c.at + i] = Minus(2 * Size, x, c.n - i)
      BY <2>2, <2>3, <2>5
    <3>4. (x - c.n + i) % (2 * Size) = Minus(2 * Size, x, c.n - i)
      <4> DEFINE n == c.n
      <4>1. n \in 0 .. Size /\ i \in 0 .. n - 1
        BY <3>1
      <4> HIDE DEF n, x
      <4>2. n - i \in 0 .. 2 * Size /\ x - n + i = x - (n - i) /\ 2 * Size \in Nat \ {0}
        BY <3>1, <4>1
      <4>3. (x - (n - i)) % (2 * Size) = Minus(2 * Size, x, n - i)
        BY <3>1, <4>2, MinusMod
      <4> QED
        BY <4>2, <4>3 DEF n
    <3> HIDE DEF r, x, c
    <3> QED
      BY <3>2, <3>3, <3>4
  <2> QED
    BY <2>4, <2>5 DEF InputIntact
<1> QED
  BY <1>1, RawmidiInvariant, PTL
=============================================================================
